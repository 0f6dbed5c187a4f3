---------------------------- MODULE MCChainTracker ----------------------------
(* A funding transaction with two inputs, its closing transaction, and      *)
(* transactions that double spend the inputs.                               *)
EXTENDS ChainTracker

CONSTANTS funding, closing, spend1, spend2, spendBoth, output, in1, in2

MCTxs == {funding, closing, spend1, spend2, spendBoth}

MCInputs ==
    [tx \in MCTxs |->
        CASE tx = funding   -> {in1, in2}
          [] tx = closing   -> {output}
          [] tx = spend1    -> {in1}
          [] tx = spend2    -> {in2}
          [] tx = spendBoth -> {in1, in2}]

\* The funding transaction has change; the closing one pays both sides.
MCOutputs == [tx \in MCTxs |-> IF tx \in {funding, closing} THEN 2 ELSE 1]

MCOutpoints == {in1, in2}

\* Blocks of at most two transactions.
AnyBlock ==
    {<<>>} \cup {<<tx>> : tx \in MCTxs} \cup {<<s, t>> : s, t \in MCTxs}

QuietBlock == {block \in AnyBlock : Quiet(block)}

==============================================================================
