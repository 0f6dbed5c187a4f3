----------------------------- MODULE ChainMonitor -----------------------------
(***************************************************************************)
(* The monitor of one channel: what it has seen of the channel's funding   *)
(* and closing transactions on chain, as operators on its State.           *)
(*                                                                         *)
(* A block is given to it as a start, the transactions in order, and an    *)
(* end that says whether the block is added or removed.  The asserts of    *)
(* the code are predicates: TransactionAsserts for those on a transaction, *)
(* on_add_asserts and on_remove_asserts for those at the block's end.      *)
(* on_add_block_end and on_remove_block_end say what the State becomes     *)
(* when they hold.                                                         *)
(***************************************************************************)
EXTENDS Integers, FiniteSets

CONSTANTS
    Txs,             \* the transactions that may concern the channel
    FundingTx,       \* the funding transaction
    FundingOutpoint, \* its output that funds the channel, as the channel's setup names it
    Outpoints,       \* the other outpoints that transactions spend
    Inputs,          \* the outpoints each transaction spends
    Outputs,         \* how many outputs each transaction has
    MaxCommitmentOutputs, \* MAX_COMMITMENT_OUTPUTS
    None             \* Option::None

ASSUME ChainMonitorAssumption ==
    /\ FundingTx \in Txs
    /\ FundingOutpoint \notin Outpoints
    /\ Inputs \in [Txs -> SUBSET (Outpoints \cup {FundingOutpoint})]
    /\ FundingOutpoint \notin Inputs[FundingTx]
    /\ Outputs \in [Txs -> Nat]
    /\ MaxCommitmentOutputs \in Nat
    /\ None \notin Int \cup Outpoints \cup {FundingOutpoint}

\* StateChange, in the order of the enum
FundingConfirmed == <<"FundingConfirmed">>
FundingDoubleSpent(o) == <<"FundingDoubleSpent", o>>
ClosingConfirmed == <<"ClosingConfirmed">>

\* ChainMonitor::new, with the output index that add_funding_outpoint gives it.
ChainMonitor_new(height, vout) ==
    [ height                      |-> height,
      funding_vout                |-> vout,
      funding_inputs              |-> {},
      funding_height              |-> None,
      funding_outpoint            |-> None,
      funding_double_spent_height |-> None,
      closing_height              |-> None,
      saw_block                   |-> FALSE,
      decode_state                |-> None ]

add_funding_inputs(m) == [m EXCEPT !.funding_inputs = @ \cup Inputs[FundingTx]]

------------------------------------------------------------------------------
(* A block comes in                                                         *)

on_block_start(m, block_hash) ==
    [m EXCEPT !.saw_block = TRUE,
              !.decode_state = [block_hash |-> block_hash, changes |-> {}]]

\* A monitor made while a block was streaming did not see it start, and skips it.
is_not_ready_for_push(m) == m.decode_state = None /\ ~m.saw_block

\* The changes one transaction makes, judged by what is known when it comes.
ChangesOf(m, tx) ==
    {FundingDoubleSpent(o) : o \in Inputs[tx] \cap m.funding_inputs}
      \cup {c \in {FundingConfirmed} : tx = FundingTx}
      \cup {c \in {ClosingConfirmed} : m.funding_outpoint \in Inputs[tx]}

\* A transaction that spends the funding output has no other input and not too many
\* outputs, and the funding transaction has the output that the channel's setup names.
TransactionAsserts(m, tx) ==
    /\ m.funding_outpoint \in Inputs[tx] =>
          Inputs[tx] = {m.funding_outpoint} /\ Outputs[tx] <= MaxCommitmentOutputs
    /\ tx = FundingTx => m.funding_vout < Outputs[tx]

on_transaction_asserts(m, tx) == is_not_ready_for_push(m) \/ TransactionAsserts(m, tx)

on_transaction(m, tx) ==
    IF is_not_ready_for_push(m) THEN m
    ELSE [m EXCEPT !.decode_state.changes = @ \cup ChangesOf(m, tx)]

\* The funding inputs that the block spends.
Spent(changes) == {o \in Outpoints : FundingDoubleSpent(o) \in changes}

------------------------------------------------------------------------------
(* The block is added                                                       *)

on_add_asserts(m, block_hash) ==
    is_not_ready_for_push(m) \/
    LET changes == m.decode_state.changes IN
    /\ m.decode_state # None
    /\ m.decode_state.block_hash = block_hash
    /\ FundingConfirmed \in changes => m.funding_double_spent_height = None
    /\ (FundingConfirmed \notin changes /\ Spent(changes) # {}) => m.funding_height = None

on_add_block_end(m) ==
    IF is_not_ready_for_push(m) THEN m
    ELSE LET changes == m.decode_state.changes
             height == m.height + 1
             funded == FundingConfirmed \in changes
         IN  [m EXCEPT
                !.height = height,
                !.saw_block = TRUE,
                !.decode_state = None,
                !.funding_height = IF funded THEN height ELSE @,
                !.funding_outpoint = IF funded THEN FundingOutpoint ELSE @,
                !.funding_double_spent_height =
                    IF ~funded /\ Spent(changes) # {} /\ @ = None THEN height ELSE @,
                !.closing_height = IF ClosingConfirmed \in changes THEN height ELSE @]

------------------------------------------------------------------------------
(* The block is removed                                                     *)

\* The asserts are made change by change: the first double spend of the block's own
\* height clears it, so that a second one in the same block finds it cleared.
on_remove_asserts(m, block_hash) ==
    is_not_ready_for_push(m) \/
    LET changes == m.decode_state.changes IN
    /\ m.decode_state # None
    /\ m.decode_state.block_hash = block_hash
    /\ FundingConfirmed \in changes => m.funding_height = m.height
    /\ (FundingConfirmed \notin changes /\ Spent(changes) # {}) =>
          /\ m.funding_double_spent_height # None
          /\ Cardinality(Spent(changes)) > 1 => m.funding_double_spent_height # m.height
    /\ ClosingConfirmed \in changes => m.closing_height = m.height

\* Mutant: the double spend is forgotten whichever block it was seen in.
BugForgetsEarlierDoubleSpend(m) ==
    IF is_not_ready_for_push(m) THEN m
    ELSE LET changes == m.decode_state.changes
             funded == FundingConfirmed \in changes
         IN  [m EXCEPT
                !.height = @ - 1,
                !.decode_state = None,
                !.funding_height = IF funded THEN None ELSE @,
                !.funding_outpoint = IF funded THEN None ELSE @,
                !.funding_double_spent_height =
                    IF ~funded /\ Spent(changes) # {} THEN None ELSE @,
                !.closing_height = IF ClosingConfirmed \in changes THEN None ELSE @]

on_remove_block_end(m) ==
    IF is_not_ready_for_push(m) THEN m
    ELSE LET changes == m.decode_state.changes
             funded == FundingConfirmed \in changes
         IN  [m EXCEPT
                !.height = @ - 1,
                !.decode_state = None,
                !.funding_height = IF funded THEN None ELSE @,
                !.funding_outpoint = IF funded THEN None ELSE @,
                !.funding_double_spent_height =
                    IF ~funded /\ Spent(changes) # {} /\ @ = m.height THEN None ELSE @,
                !.closing_height = IF ClosingConfirmed \in changes THEN None ELSE @]

------------------------------------------------------------------------------
(* What a block's end returns, and what validation reads                    *)

\* The outpoints to watch from now on, and the ones to watch no longer.
Adds(m) ==
    {o \in {FundingOutpoint} :
        ~is_not_ready_for_push(m) /\ FundingConfirmed \in m.decode_state.changes}

Removes(m) ==
    IF is_not_ready_for_push(m) THEN {}
    ELSE Spent(m.decode_state.changes)
           \cup {o \in {FundingOutpoint} : ClosingConfirmed \in m.decode_state.changes}

Depth(m, h) == IF h = None THEN 0 ELSE m.height + 1 - h

as_chain_state(m) ==
    [ funding_depth              |-> Depth(m, m.funding_height),
      funding_double_spent_depth |-> Depth(m, m.funding_double_spent_height),
      closing_depth              |-> Depth(m, m.closing_height) ]

==============================================================================
