----------------------------- MODULE ChainTracker -----------------------------
(***************************************************************************)
(* The chain tracker with one listener, the monitor of a channel, and the  *)
(* chain follower that feeds it: blocks are added and removed with a proof *)
(* that shows the watched transactions, or are streamed whole in chunks    *)
(* and then added or removed.  Channel requests come between the messages  *)
(* of the follower, and the signer may crash and come back from its disk.  *)
(*                                                                         *)
(* The hash of a block is modelled by the chain that ends in it.           *)
(***************************************************************************)
EXTENDS ChainMonitor, Sequences, SequencesExt

CONSTANTS
    Blocks,        \* the blocks that are mined: sequences of transactions
    MaxChain,      \* bound: how many blocks are on top of the first one at once
    BaseHeight,    \* the height the tracker starts from
    MaxReorgSize,  \* MAX_REORG_SIZE
    Vouts,         \* the funding output indices that a ReadyChannel may name
    Streaming      \* the directions in which blocks are streamed: "add", "remove"

ASSUME ChainTrackerAssumption ==
    /\ Blocks \subseteq Seq(Txs)
    /\ MaxChain \in Nat
    /\ BaseHeight \in Nat
    /\ MaxReorgSize \in Nat \ {0}
    /\ Vouts \subseteq Nat
    /\ Streaming \subseteq {"add", "remove"}

\* What the memory, the disk and the messages may hold.
Changes == {FundingConfirmed, ClosingConfirmed} \cup {FundingDoubleSpent(o) : o \in Outpoints}
Decodes == [block_hash : Seq(Blocks), changes : SUBSET Changes]

Heights == Int \cup {None}

Monitors ==
    [ height : Int, funding_vout : Vouts, funding_inputs : SUBSET Outpoints,
      funding_height : Heights, funding_outpoint : {None, FundingOutpoint},
      funding_double_spent_height : Heights, closing_height : Heights,
      saw_block : BOOLEAN, decode_state : Decodes \cup {None} ]

Trackers ==
    [ height : Int, headers : Nat, txid_watches : SUBSET Txs,
      watches : SUBSET (Outpoints \cup {FundingOutpoint}),
      seen : SUBSET (Outpoints \cup {FundingOutpoint}),
      stream : [sent : Nat, hash : Seq(Blocks) \cup {None}] ]

Messages ==
    [ kind : {"AddBlock", "RemoveBlock", "add", "remove"}, block : Blocks, txs : SUBSET Txs ]

ASSUME NoneAssumption ==
    None \notin Seq(Blocks) /\ None \notin Decodes /\ None \notin Monitors /\ None \notin Messages

VARIABLES
    chain,     \* the blocks the tracker has on top of the first one, oldest first
    tracker,   \* its height, the number of headers kept, the listener's watches
    monitor,   \* the listener, None before the channel is ready
    message,   \* what the follower is about to send: a block and the proof for it
    disk,      \* the tracker and the monitor as last persisted
    status     \* "up", "down", or the assert that has failed: "monitor", "wrong block"

vars == <<chain, tracker, monitor, message, disk, status>>

------------------------------------------------------------------------------
(* The chain                                                                *)

TxsIn(blocks) == UNION {Range(blocks[i]) : i \in DOMAIN blocks}

\* The block is valid on top of this chain: no transaction twice, no outpoint spent
\* twice, and the funding output spent only after the funding transaction.
ValidOn(blocks, block) ==
    LET before(i) == TxsIn(blocks) \cup {block[j] : j \in 1..(i - 1)} IN
    \A i \in DOMAIN block :
        /\ \A tx \in before(i) : tx # block[i] /\ Inputs[tx] \cap Inputs[block[i]] = {}
        /\ FundingOutpoint \in Inputs[block[i]] => FundingTx \in before(i)

------------------------------------------------------------------------------
(* The tracker                                                              *)

TipHash == chain

\* What remove_block calls the tip's hash: headers[0] is the header before the tip.
tip_block_hash == Front(chain)

NoStream == [sent |-> 0, hash |-> None]

get_all_forward_watches == tracker.watches
get_all_reverse_watches == tracker.watches \cup tracker.seen

\* The transactions of a block that a proof made for these watches shows.
Proved(block, watches) ==
    {tx \in Range(block) : tx \in tracker.txid_watches \/ Inputs[tx] \cap watches # {}}

\* TxoProof::verify: nothing that spends a watched outpoint is left out.
ProofCovers(block, txs, watches) ==
    \A tx \in Range(block) : Inputs[tx] \cap watches # {} => tx \in txs

\* The monitor takes a whole block from a proof.  What it knows, and so what each
\* transaction changes, stays the same until the block's end.
Pushed(m, hash, txs) ==
    [on_block_start(m, hash) EXCEPT
        !.decode_state.changes = UNION {ChangesOf(m, tx) : tx \in txs}]

\* The monitor, if there is one, gets through the transactions of a proof.
Digests(m, txs) == m # None => \A tx \in txs : TransactionAsserts(m, tx)

\* Mutant: what was spent is not kept for the blocks that are removed.
BugForgetsSeen(slot, adds, removes) ==
    [slot EXCEPT !.watches = (@ \cup adds) \ removes]

notify_listeners_add(slot, adds, removes) ==
    [slot EXCEPT !.watches = (@ \cup adds) \ removes,
                 !.seen = @ \cup removes]

\* Mutant: what was spent in a removed block is not watched again.
BugDoesNotWatchAgain(slot, adds, removes) ==
    [slot EXCEPT !.seen = @ \ removes, !.watches = @ \ adds]

notify_listeners_remove(slot, adds, removes) ==
    [slot EXCEPT !.seen = @ \ removes,
                 !.watches = (@ \cup removes) \ adds]

Save == disk' = [tracker |-> tracker', monitor |-> monitor']

Panic(assert) ==
    /\ status' = assert
    /\ message' = None
    /\ UNCHANGED <<chain, tracker, monitor, disk>>

\* An error is not an assert, but ends the follower's process just the same.
Refuse ==
    /\ status' = "down"
    /\ message' = None
    /\ UNCHANGED <<chain, tracker, monitor, disk>>

\* add_block after its checks; m is the monitor with the block's changes.
Extend(m, block) ==
    IF m # None => on_add_asserts(m, Append(chain, block))
    THEN /\ chain' = Append(chain, block)
         /\ monitor' = IF m = None THEN None ELSE on_add_block_end(m)
         /\ tracker' =
              LET slot == IF m = None THEN tracker
                          ELSE notify_listeners_add(tracker, Adds(m), Removes(m))
              IN  [slot EXCEPT !.height = @ + 1,
                               !.headers = IF @ < MaxReorgSize THEN @ + 1 ELSE @,
                               !.stream = NoStream]
         /\ message' = None
         /\ Save
         /\ UNCHANGED status
    ELSE Panic("monitor")

\* remove_block after its checks; hash is the one the listeners are told.
Retract(m, hash) ==
    IF m # None => on_remove_asserts(m, hash)
    THEN /\ chain' = Front(chain)
         /\ monitor' = IF m = None THEN None ELSE on_remove_block_end(m)
         /\ tracker' =
              LET slot == IF m = None THEN tracker
                          ELSE notify_listeners_remove(tracker, Adds(m), Removes(m))
              IN  [slot EXCEPT !.height = @ - 1, !.headers = @ - 1, !.stream = NoStream]
         /\ message' = None
         /\ Save
         /\ UNCHANGED status
    ELSE Panic("monitor")

------------------------------------------------------------------------------
(* The requests                                                             *)

Init ==
    /\ chain = <<>>
    /\ tracker = [height |-> BaseHeight, headers |-> 0, txid_watches |-> {},
                  watches |-> {}, seen |-> {}, stream |-> NoStream]
    /\ monitor = None
    /\ message = None
    /\ disk = [tracker |-> tracker, monitor |-> None]
    /\ status = "up"

\* The transactions of the block that the follower is about to send.
OnItsWay == IF message = None THEN {} ELSE Range(message.block)

\* Node::ready_channel with the setup's funding output index, which nothing bounds.  The
\* funding transaction is not broadcast before.
ReadyChannel(vout) ==
    /\ status = "up"
    /\ monitor = None
    /\ FundingTx \notin TxsIn(chain) \cup OnItsWay
    /\ monitor' = ChainMonitor_new(tracker.height, vout)
    /\ tracker' = [tracker EXCEPT !.txid_watches = {FundingTx}, !.watches = {}, !.seen = {}]
    /\ Save
    /\ UNCHANGED <<chain, message, status>>

\* Node::unchecked_sign_onchain_tx for the funding transaction, made again on a retry.
\* The wallet does not choose inputs that a block added or streaming has spent.
FundingSigned ==
    /\ status = "up"
    /\ monitor # None
    /\ \A tx \in (TxsIn(chain) \cup (IF tracker.stream = NoStream THEN {} ELSE OnItsWay))
                  \ {FundingTx} : Inputs[tx] \cap Inputs[FundingTx] = {}
    /\ monitor' = add_funding_inputs(monitor)
    /\ tracker' = [tracker EXCEPT !.watches = @ \cup Inputs[FundingTx]]
    /\ Save
    /\ UNCHANGED <<chain, message, status>>

\* The follower asks for the watches and makes the proof of the next step with them.
ProveAdd(block) ==
    /\ status = "up"
    /\ message = None
    /\ tracker.stream = NoStream
    /\ Len(chain) < MaxChain
    /\ ValidOn(chain, block)
    /\ message' = [kind |-> "AddBlock", block |-> block,
                   txs |-> Proved(block, get_all_forward_watches)]
    /\ UNCHANGED <<chain, tracker, monitor, disk, status>>

ProveRemove ==
    /\ status = "up"
    /\ message = None
    /\ tracker.stream = NoStream
    /\ chain # <<>>
    /\ message' = [kind |-> "RemoveBlock", block |-> Last(chain),
                   txs |-> Proved(Last(chain), get_all_reverse_watches)]
    /\ UNCHANGED <<chain, tracker, monitor, disk, status>>

\* AddBlock with a proof that may be older than the watches it is checked against.
AddBlock ==
    /\ status = "up"
    /\ message # None
    /\ message.kind = "AddBlock"
    /\ IF ~ProofCovers(message.block, message.txs, get_all_forward_watches) THEN Refuse
       ELSE IF ~Digests(monitor, message.txs) THEN Panic("monitor")
       ELSE Extend(IF monitor = None THEN None
                   ELSE Pushed(monitor, Append(chain, message.block), message.txs),
                   message.block)

RemoveBlock ==
    /\ status = "up"
    /\ message # None
    /\ message.kind = "RemoveBlock"
    /\ IF \/ tracker.headers = 0
          \/ ~ProofCovers(message.block, message.txs, get_all_reverse_watches)
       THEN Refuse
       ELSE IF ~Digests(monitor, message.txs) THEN Panic("monitor")
       ELSE Retract(IF monitor = None THEN None
                    ELSE Pushed(monitor, tip_block_hash, message.txs),
                    tip_block_hash)

\* The first chunk of a block that the follower streams: the next one, or the tip.
StreamBlock(direction, block) ==
    /\ status = "up"
    /\ message = None
    /\ tracker.stream = NoStream
    /\ direction \in Streaming
    /\ \/ direction = "add" /\ Len(chain) < MaxChain /\ ValidOn(chain, block)
       \/ direction = "remove" /\ chain # <<>> /\ block = Last(chain)
    /\ LET hash == IF direction = "add" THEN Append(chain, block) ELSE TipHash IN
       /\ tracker' = [tracker EXCEPT !.stream = [sent |-> 0, hash |-> hash]]
       /\ monitor' = IF monitor = None THEN None ELSE on_block_start(monitor, hash)
    /\ message' = [kind |-> direction, block |-> block, txs |-> Range(block)]
    /\ UNCHANGED <<chain, disk, status>>

\* A later chunk: one more transaction.
BlockChunk ==
    /\ status = "up"
    /\ tracker.stream # NoStream
    /\ tracker.stream.sent < Len(message.block)
    /\ LET tx == message.block[tracker.stream.sent + 1] IN
       IF monitor # None => on_transaction_asserts(monitor, tx)
       THEN /\ tracker' = [tracker EXCEPT !.stream.sent = @ + 1]
            /\ monitor' = IF monitor = None THEN None ELSE on_transaction(monitor, tx)
            /\ UNCHANGED <<chain, message, disk, status>>
       ELSE Panic("monitor")

Streamed(direction) ==
    /\ status = "up"
    /\ tracker.stream # NoStream
    /\ tracker.stream.sent = Len(message.block)
    /\ message.kind = direction

AddStreamedBlock ==
    /\ Streamed("add")
    /\ Extend(monitor, message.block)

\* maybe_finish_decoding_block compares the hash of the chunks with tip_block_hash.
RemoveStreamedBlock ==
    /\ Streamed("remove")
    /\ IF tracker.headers = 0 THEN Refuse
       ELSE IF tracker.stream.hash # tip_block_hash THEN Panic("wrong block")
       ELSE Retract(monitor, tip_block_hash)

------------------------------------------------------------------------------
(* Crashes                                                                  *)

Crash ==
    /\ status = "up"
    /\ Refuse

\* What is decoded of a streamed block is not persisted.
Restart ==
    /\ status # "up"
    /\ status' = "up"
    /\ tracker' = [disk.tracker EXCEPT !.stream = NoStream]
    /\ monitor' = IF disk.monitor = None THEN None
                  ELSE [disk.monitor EXCEPT !.decode_state = None]
    /\ UNCHANGED <<chain, message, disk>>

Next ==
    \/ \E vout \in Vouts : ReadyChannel(vout)
    \/ FundingSigned
    \/ \E block \in Blocks : ProveAdd(block)
    \/ ProveRemove
    \/ AddBlock
    \/ RemoveBlock
    \/ \E direction \in Streaming, block \in Blocks : StreamBlock(direction, block)
    \/ BlockChunk
    \/ AddStreamedBlock
    \/ RemoveStreamedBlock
    \/ Crash
    \/ Restart

Spec == Init /\ [][Next]_vars

------------------------------------------------------------------------------
(* Properties                                                               *)

TypeOK ==
    /\ chain \in Seq(Blocks)
    /\ tracker \in Trackers
    /\ monitor \in Monitors \cup {None}
    /\ message \in Messages \cup {None}
    /\ disk \in [tracker : Trackers, monitor : Monitors \cup {None}]
    /\ status \in {"up", "down", "monitor", "wrong block"}

\* How deep the oldest block of the chain with such a transaction is buried.
DepthOf(wanted) ==
    LET at == {i \in DOMAIN chain : Range(chain[i]) \cap wanted # {}}
    IN  IF at = {} THEN 0 ELSE Len(chain) + 1 - CHOOSE i \in at : \A j \in at : i <= j

DoubleSpends(inputs) == {tx \in Txs \ {FundingTx} : Inputs[tx] \cap inputs # {}}
Closings == {tx \in Txs : FundingOutpoint \in Inputs[tx]}

\* The funding output is not spent in the block that makes it: the follower's proof is made
\* before the tracker watches it.
ClosesLater(block) == FundingTx \in Range(block) => Range(block) \cap Closings = {}

\* At most one funding input is double spent in the block: the removal of a second one in the
\* same block finds the height cleared by the first, and fails an assert.
SpendsOne(block) ==
    \A o, p \in Inputs[FundingTx] \cap UNION {Inputs[tx] : tx \in Range(block) \ {FundingTx}} : o = p

\* What spends the funding output has the shape that the signer signs, one input, and not more
\* outputs than the monitor allows, which the signer's own limit on HTLCs does not ensure.
CommitmentShaped(block) ==
    \A tx \in Range(block) \cap Closings :
        Inputs[tx] = {FundingOutpoint} /\ Outputs[tx] <= MaxCommitmentOutputs

Quiet(block) == ClosesLater(block) /\ SpendsOne(block) /\ CommitmentShaped(block)

\* What the chain itself says of the channel.
ChainSays ==
    [ funding_depth              |-> DepthOf({FundingTx}),
      funding_double_spent_depth |-> DepthOf(DoubleSpends(monitor.funding_inputs)),
      closing_depth              |-> DepthOf(Closings) ]

\* After any blocks added and removed, proved or streamed, with crashes and with
\* channel requests between the follower's messages, the depths that validation
\* reads from the monitor are those of the chain.
MonitorMatchesChain ==
    (status = "up" /\ monitor # None) => as_chain_state(monitor) = ChainSays

\* No assert of the monitor fails, on a transaction or at a block's end, but for the one that
\* the channel's setup lets fail: the funding transaction lacks the output that it names.
MonitorAssertsHold ==
    status = "monitor" => monitor # None /\ monitor.funding_vout >= Outputs[FundingTx]

\* The watches are never behind: the next spend of a funding input or of the funding
\* output is watched, and every such spend that a reorganisation can undo is known.
WatchesSuffice ==
    (status = "up" /\ monitor # None) =>
        LET relevant == monitor.funding_inputs
                          \cup {o \in {FundingOutpoint} : FundingTx \in TxsIn(chain)}
            spent == UNION {Inputs[tx] : tx \in TxsIn(chain)}
        IN  /\ relevant \ spent \subseteq get_all_forward_watches
            /\ relevant \cap spent \subseteq get_all_reverse_watches

==============================================================================
