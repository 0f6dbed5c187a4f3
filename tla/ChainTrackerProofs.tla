-------------------------- MODULE ChainTrackerProofs --------------------------
(***************************************************************************)
(* That the monitor of ChainTracker keeps to the chain, for every set of   *)
(* transactions and of blocks and every length of the chain.  No block may *)
(* both fund the channel and close it; that no assert fails asks besides   *)
(* that no block double spends two of the funding inputs.                  *)
(***************************************************************************)
EXTENDS ChainTracker, FiniteSetTheorems, SequenceTheorems, TLAPS

\* No transaction twice, no outpoint spent twice, and the funding output spent only
\* after the block with the funding transaction.
Apart(txs, others) ==
    \A tx \in txs, other \in others : tx # other /\ Inputs[tx] \cap Inputs[other] = {}

Valid(blocks) ==
    /\ \A i, j \in DOMAIN blocks : i # j => Apart(Range(blocks[i]), Range(blocks[j]))
    /\ \A i \in DOMAIN blocks : \A tx, other \in Range(blocks[i]) :
          tx # other => Inputs[tx] \cap Inputs[other] = {}
    /\ \A i \in DOMAIN blocks : Range(blocks[i]) \cap Closings # {} =>
          \E j \in 1..(i - 1) : FundingTx \in Range(blocks[j])

\* h is the height of the oldest block with a wanted transaction, or None.
Oldest(blocks, wanted, base, h) ==
    IF h = None THEN \A i \in DOMAIN blocks : Range(blocks[i]) \cap wanted = {}
    ELSE \E i \in DOMAIN blocks :
            /\ h = base + i
            /\ Range(blocks[i]) \cap wanted # {}
            /\ \A j \in 1..(i - 1) : Range(blocks[j]) \cap wanted = {}

\* What the monitor keeps for good is what the chain says.
Matches(blocks, m) ==
    LET base == m.height - Len(blocks) IN
    /\ m.funding_inputs \in {{}, Inputs[FundingTx]}
    /\ m.funding_outpoint = IF FundingTx \in TxsIn(blocks) THEN FundingOutpoint ELSE None
    /\ Oldest(blocks, {FundingTx}, base, m.funding_height)
    /\ Oldest(blocks, DoubleSpends(m.funding_inputs), base, m.funding_double_spent_height)
    /\ Oldest(blocks, Closings, base, m.closing_height)

Relevant(blocks, m) ==
    m.funding_inputs \cup {o \in {FundingOutpoint} : FundingTx \in TxsIn(blocks)}

SpentIn(txs) == UNION {Inputs[tx] : tx \in txs}

Watched(blocks, t, m) ==
    /\ Relevant(blocks, m) \ SpentIn(TxsIn(blocks)) \subseteq t.watches
    /\ Relevant(blocks, m) \cap SpentIn(TxsIn(blocks)) \subseteq t.watches \cup t.seen

\* Of the memory and of the disk.
Good(blocks, t, m) ==
    m # None => /\ Matches(blocks, m)
                /\ Watched(blocks, t, m)
                /\ FundingTx \in t.txid_watches

\* The changes the monitor has decoded are those of these transactions.  When the funding
\* transaction is signed again while it streams, it may be seen before its inputs are known.
Told(m, txs) ==
    LET changes == m.decode_state.changes IN
    /\ FundingConfirmed \in changes <=> FundingTx \in txs
    /\ ClosingConfirmed \in changes <=> \E tx \in txs : m.funding_outpoint \in Inputs[tx]
    /\ Spent(changes) \subseteq m.funding_inputs \cap SpentIn(txs)
    /\ m.funding_inputs \cap SpentIn(txs \ {FundingTx}) \subseteq Spent(changes)

\* Nothing in these transactions concerns the channel.
Untouched(m, txs) ==
    FundingTx \notin txs /\ m.funding_inputs \cap SpentIn(txs) = {}

MessageOK ==
    message # None =>
        /\ status = "up"
        /\ message.kind \in {"AddBlock", "add"} => ValidOn(chain, message.block)
        /\ message.kind \in {"RemoveBlock", "remove"} =>
              chain # <<>> /\ message.block = Last(chain)
        /\ message.kind \in {"AddBlock", "RemoveBlock"} =>
              /\ tracker.stream = NoStream
              /\ message.txs \subseteq Range(message.block)
              /\ (monitor # None /\ FundingTx \in Range(message.block)) => FundingTx \in message.txs

StreamOK ==
    (status = "up" /\ tracker.stream # NoStream) =>
        /\ message # None
        /\ message.kind \in {"add", "remove"}
        /\ tracker.stream.sent \in 0..Len(message.block)
        /\ tracker.stream.hash =
              IF message.kind = "add" THEN Append(chain, message.block) ELSE chain
        /\ monitor # None =>
              IF monitor.decode_state = None
              THEN ~monitor.saw_block /\ Untouched(monitor, TxsIn(chain) \cup Range(message.block))
              ELSE /\ monitor.decode_state.block_hash = tracker.stream.hash
                   /\ Told(monitor, {message.block[k] : k \in 1..tracker.stream.sent})

IInv ==
    /\ TypeOK
    /\ Valid(chain)
    /\ Good(chain, tracker, monitor)
    /\ Good(chain, disk.tracker, disk.monitor)
    /\ MessageOK
    /\ StreamOK

------------------------------------------------------------------------------
(* What the monitor decodes of a block                                      *)

\* The three kinds of changes are different from one another.
LEMMA ChangesDiffer ==
    /\ FundingConfirmed # ClosingConfirmed
    /\ \A o : FundingDoubleSpent(o) # FundingConfirmed /\ FundingDoubleSpent(o) # ClosingConfirmed
    /\ \A o, p : FundingDoubleSpent(o) = FundingDoubleSpent(p) => o = p
BY DEF FundingConfirmed, ClosingConfirmed, FundingDoubleSpent

\* What one transaction changes.
LEMMA ChangesOfTx ==
    ASSUME NEW m, NEW tx
    PROVE  /\ FundingConfirmed \in ChangesOf(m, tx) <=> tx = FundingTx
           /\ ClosingConfirmed \in ChangesOf(m, tx) <=> m.funding_outpoint \in Inputs[tx]
           /\ \A o : FundingDoubleSpent(o) \in ChangesOf(m, tx) <=> o \in Inputs[tx] \cap m.funding_inputs
<1>. DEFINE d == {FundingDoubleSpent(o) : o \in Inputs[tx] \cap m.funding_inputs}
<1>1. FundingConfirmed \notin d /\ ClosingConfirmed \notin d
  BY ChangesDiffer
<1>2. \A o : FundingDoubleSpent(o) \in d <=> o \in Inputs[tx] \cap m.funding_inputs
  BY ChangesDiffer
<1>. QED  BY <1>1, <1>2, ChangesDiffer DEF ChangesOf

LEMMA ChangesOfType ==
    ASSUME NEW m \in Monitors, NEW tx
    PROVE  ChangesOf(m, tx) \subseteq Changes
BY DEF ChangesOf, Changes, Monitors

\* The parts of the monitor that a block leaves alone until its end.
Same(m, n) ==
    /\ n.height = m.height
    /\ n.funding_inputs = m.funding_inputs
    /\ n.funding_height = m.funding_height
    /\ n.funding_outpoint = m.funding_outpoint
    /\ n.funding_double_spent_height = m.funding_double_spent_height
    /\ n.closing_height = m.closing_height

LEMMA GoodSame ==
    ASSUME NEW blocks, NEW t, NEW u, NEW m, NEW n, Good(blocks, t, m), m # None, Same(m, n),
           u.watches = t.watches, u.seen = t.seen, u.txid_watches = t.txid_watches
    PROVE  Good(blocks, u, n)
BY DEF Good, Same, Matches, Watched, Relevant

LEMMA StartedMonitor ==
    ASSUME NEW m \in Monitors, NEW hash \in Seq(Blocks)
    PROVE  LET p == on_block_start(m, hash) IN
           /\ p \in Monitors
           /\ Same(m, p)
           /\ p.decode_state \in Decodes
           /\ p.decode_state.block_hash = hash
           /\ Told(p, {})
<1>. DEFINE p == on_block_start(m, hash)
<1>1. p = [m EXCEPT !.saw_block = TRUE, !.decode_state = [block_hash |-> hash, changes |-> {}]]
  BY DEF on_block_start
<1>2. [block_hash |-> hash, changes |-> {}] \in Decodes
  BY DEF Decodes
<1>3. p \in Monitors /\ Same(m, p) /\ p.decode_state = [block_hash |-> hash, changes |-> {}]
  BY <1>1, <1>2 DEF Monitors, Same
<1>4. Told(p, {})
  BY <1>3 DEF Told, Spent, SpentIn
<1>. QED  BY <1>2, <1>3, <1>4

\* A block from a proof: everything it shows is decoded.
LEMMA PushedMonitor ==
    ASSUME NEW m \in Monitors, NEW hash \in Seq(Blocks), NEW txs \in SUBSET Txs
    PROVE  LET p == Pushed(m, hash, txs) IN
           /\ p \in Monitors
           /\ Same(m, p)
           /\ p.decode_state \in Decodes
           /\ p.decode_state.block_hash = hash
           /\ Told(p, txs)
           /\ m.funding_inputs \cap SpentIn(txs) \subseteq Spent(p.decode_state.changes)
<1>. DEFINE p == Pushed(m, hash, txs)
            changes == UNION {ChangesOf(m, tx) : tx \in txs}
            decode == [block_hash |-> hash, changes |-> changes]
<1>1. changes \subseteq Changes
  BY ChangesOfType
<1>2. decode \in Decodes
  BY <1>1 DEF Decodes
<1>3. p = [m EXCEPT !.saw_block = TRUE, !.decode_state = decode]
  <2>. DEFINE q == on_block_start(m, hash)
  <2>1. q = [m EXCEPT !.saw_block = TRUE, !.decode_state = [block_hash |-> hash, changes |-> {}]]
    BY DEF on_block_start
  <2>2. q.decode_state = [block_hash |-> hash, changes |-> {}]
    BY <2>1 DEF Monitors
  <2>3. p = [q EXCEPT !.decode_state = [q.decode_state EXCEPT !.changes = changes]]
    BY DEF Pushed
  <2>. HIDE DEF changes, p, q
  <2>4. [q.decode_state EXCEPT !.changes = changes] = decode
    BY <2>2
  <2>. HIDE DEF decode
  <2>. QED  BY <2>1, <2>3, <2>4 DEF Monitors
<1>4. p \in Monitors /\ Same(m, p) /\ p.decode_state = decode
  BY <1>2, <1>3 DEF Monitors, Same
<1>5. FundingConfirmed \in changes <=> FundingTx \in txs
  BY ChangesOfTx
<1>6. ClosingConfirmed \in changes <=> \E tx \in txs : m.funding_outpoint \in Inputs[tx]
  BY ChangesOfTx
<1>7. \A o : FundingDoubleSpent(o) \in changes <=> \E tx \in txs : o \in Inputs[tx] \cap m.funding_inputs
  BY ChangesOfTx
<1>8. Spent(changes) = m.funding_inputs \cap SpentIn(txs)
  <2>1. m.funding_inputs \subseteq Outpoints
    BY DEF Monitors
  <2>2. \A o : o \in m.funding_inputs \cap SpentIn(txs) <=> \E tx \in txs : o \in Inputs[tx] \cap m.funding_inputs
    BY DEF SpentIn
  <2>. HIDE DEF changes
  <2>. QED  BY <2>1, <2>2, <1>7 DEF Spent
<1>9. SpentIn(txs \ {FundingTx}) \subseteq SpentIn(txs)
  BY DEF SpentIn
<1>10. Told(p, txs)
  <2>1. p.decode_state.changes = changes /\ p.funding_inputs = m.funding_inputs
        /\ p.funding_outpoint = m.funding_outpoint
    BY <1>4 DEF Same
  <2>. HIDE DEF changes, p
  <2>. QED  BY <2>1, <1>5, <1>6, <1>8, <1>9 DEF Told
<1>11. decode.block_hash = hash /\ decode.changes = changes
  OBVIOUS
<1>. HIDE DEF changes, p, decode
<1>. QED  BY <1>2, <1>4, <1>8, <1>10, <1>11 DEF p

\* One more transaction of a streamed block.
LEMMA MonitorAfterTx ==
    ASSUME NEW m \in Monitors, m.decode_state \in Decodes, NEW txs \in SUBSET Txs, Told(m, txs),
           NEW tx \in Txs
    PROVE  LET p == on_transaction(m, tx) IN
           /\ p \in Monitors
           /\ Same(m, p)
           /\ p.decode_state \in Decodes
           /\ p.decode_state.block_hash = m.decode_state.block_hash
           /\ Told(p, txs \cup {tx})
<1>. DEFINE p == on_transaction(m, tx)
            old == m.decode_state.changes
            changes == old \cup ChangesOf(m, tx)
            decode == [m.decode_state EXCEPT !.changes = changes]
<1>1. changes \subseteq Changes
  BY ChangesOfType DEF Decodes
<1>2. decode \in Decodes /\ decode.changes = changes /\ decode.block_hash = m.decode_state.block_hash
  BY <1>1 DEF Decodes
<1>3. p = [m EXCEPT !.decode_state = decode]
  BY NoneAssumption DEF on_transaction, is_not_ready_for_push, Monitors
<1>4. p \in Monitors /\ Same(m, p) /\ p.decode_state = decode
  <2>. HIDE DEF decode, changes
  <2>. QED  BY <1>2, <1>3 DEF Monitors, Same
<1>5. FundingConfirmed \in changes <=> FundingTx \in txs \cup {tx}
  BY ChangesOfTx DEF Told
<1>6. ClosingConfirmed \in changes <=> \E x \in txs \cup {tx} : m.funding_outpoint \in Inputs[x]
  BY ChangesOfTx DEF Told
<1>7. Spent(changes) = Spent(old) \cup (Inputs[tx] \cap m.funding_inputs)
  <2>1. m.funding_inputs \subseteq Outpoints
    BY DEF Monitors
  <2>2. \A o : FundingDoubleSpent(o) \in changes <=>
                 FundingDoubleSpent(o) \in old \/ o \in Inputs[tx] \cap m.funding_inputs
    BY ChangesOfTx
  <2>. HIDE DEF changes, old
  <2>. QED  BY <2>1, <2>2 DEF Spent
<1>8. /\ SpentIn(txs \cup {tx}) = SpentIn(txs) \cup Inputs[tx]
      /\ SpentIn((txs \cup {tx}) \ {FundingTx}) \subseteq SpentIn(txs \ {FundingTx}) \cup Inputs[tx]
  BY DEF SpentIn
<1>9. Told(p, txs \cup {tx})
  <2>1. p.decode_state.changes = changes /\ p.funding_inputs = m.funding_inputs
        /\ p.funding_outpoint = m.funding_outpoint
    BY <1>2, <1>4 DEF Same
  <2>2. Spent(old) \subseteq m.funding_inputs \cap SpentIn(txs)
        /\ m.funding_inputs \cap SpentIn(txs \ {FundingTx}) \subseteq Spent(old)
    BY DEF Told
  <2>3. /\ Spent(changes) \subseteq m.funding_inputs \cap SpentIn(txs \cup {tx})
        /\ m.funding_inputs \cap SpentIn((txs \cup {tx}) \ {FundingTx}) \subseteq Spent(changes)
    <3>. HIDE DEF changes, old
    <3>. QED  BY <1>7, <1>8, <2>2
  <2>. HIDE DEF changes, p
  <2>. QED  BY <2>1, <2>3, <1>5, <1>6 DEF Told
<1>. HIDE DEF changes, p, decode
<1>. QED  BY <1>2, <1>4, <1>9 DEF p

------------------------------------------------------------------------------
(* Chains that grow by a block                                              *)

LEMMA BlockTxs ==
    ASSUME NEW block \in Blocks
    PROVE  Range(block) \subseteq Txs /\ block \in Seq(Txs) /\ Range(block) = {block[k] : k \in 1..Len(block)}
BY ChainTrackerAssumption DEF Range

LEMMA Appended ==
    ASSUME NEW blocks \in Seq(Blocks), NEW block \in Blocks
    PROVE  LET more == Append(blocks, block) IN
           /\ more \in Seq(Blocks)
           /\ Len(blocks) \in Nat
           /\ Len(more) = Len(blocks) + 1
           /\ DOMAIN blocks = 1..Len(blocks)
           /\ DOMAIN more = 1..(Len(blocks) + 1)
           /\ \A i \in 1..Len(blocks) : more[i] = blocks[i]
           /\ more[Len(blocks) + 1] = block
OBVIOUS

LEMMA AppendedTxs ==
    ASSUME NEW blocks \in Seq(Blocks), NEW block \in Blocks
    PROVE  TxsIn(Append(blocks, block)) = TxsIn(blocks) \cup Range(block)
<1>. DEFINE more == Append(blocks, block)  n == Len(blocks)
<1>1. /\ n \in Nat /\ DOMAIN blocks = 1..n /\ DOMAIN more = 1..(n + 1)
      /\ \A i \in 1..n : more[i] = blocks[i]
      /\ more[n + 1] = block
  BY Appended
<1>. HIDE DEF more, n
<1>2. ASSUME NEW tx \in TxsIn(more) PROVE tx \in TxsIn(blocks) \cup Range(block)
  <2>1. PICK i \in 1..(n + 1) : tx \in Range(more[i])
    BY <1>1 DEF TxsIn
  <2>2. i = n + 1 \/ i \in 1..n
    BY <1>1
  <2>. QED  BY <2>1, <2>2, <1>1 DEF TxsIn
<1>3. ASSUME NEW tx \in TxsIn(blocks) PROVE tx \in TxsIn(more)
  <2>1. PICK i \in 1..n : tx \in Range(blocks[i])
    BY <1>1 DEF TxsIn
  <2>2. i \in 1..(n + 1) /\ more[i] = blocks[i]
    BY <1>1
  <2>. QED  BY <2>1, <2>2, <1>1 DEF TxsIn
<1>4. Range(block) \subseteq TxsIn(more)
  <2>1. n + 1 \in 1..(n + 1)
    BY <1>1
  <2>. QED  BY <2>1, <1>1 DEF TxsIn
<1>. QED  BY <1>2, <1>3, <1>4 DEF more

LEMMA ChainTxs ==
    ASSUME NEW blocks \in Seq(Blocks)
    PROVE  TxsIn(blocks) \subseteq Txs
BY BlockTxs DEF TxsIn

\* A chain that is not empty is its front with its last block.
LEMMA FrontAndLast ==
    ASSUME NEW blocks \in Seq(Blocks), blocks # <<>>
    PROVE  /\ Front(blocks) \in Seq(Blocks)
           /\ Last(blocks) \in Blocks
           /\ blocks = Append(Front(blocks), Last(blocks))
           /\ Len(blocks) = Len(Front(blocks)) + 1
           /\ Front(blocks) # blocks
<1>. DEFINE n == Len(blocks)  f == SubSeq(blocks, 1, n - 1)
<1>1. n \in Nat \ {0} /\ DOMAIN blocks = 1..n
  OBVIOUS
<1>2. Front(blocks) = f /\ Last(blocks) = blocks[n]
  BY DEF Front, Last
<1>3. f \in Seq(Blocks) /\ Len(f) = n - 1 /\ \A i \in 1..(n - 1) : f[i] = blocks[i]
  BY <1>1
<1>4. blocks[n] \in Blocks
  BY <1>1
<1>. HIDE DEF f
<1>. DEFINE b == blocks[n]
<1>. HIDE DEF n, b
<1>5. /\ Append(f, b) \in Seq(Blocks)
      /\ Len(Append(f, b)) = n
      /\ \A i \in 1..(n - 1) : Append(f, b)[i] = f[i]
      /\ Append(f, b)[n] = b
  BY <1>1, <1>3, <1>4 DEF b
<1>6. \A i \in 1..n : Append(f, b)[i] = blocks[i]
  <2>1. \A i \in 1..n : i = n \/ i \in 1..(n - 1)
    BY <1>1
  <2>. QED  BY <2>1, <1>3, <1>5 DEF b
<1>7. Append(f, b) = blocks
  BY <1>5, <1>6, SeqEqual DEF n
<1>8. f # blocks
  BY <1>1, <1>3 DEF n
<1>. QED  BY <1>1, <1>2, <1>3, <1>4, <1>7, <1>8 DEF b, n

------------------------------------------------------------------------------
(* The oldest block with a wanted transaction                               *)

LEMMA OldestNone ==
    ASSUME NEW blocks \in Seq(Blocks), NEW wanted, NEW base \in Int, NEW h,
           Oldest(blocks, wanted, base, h)
    PROVE  h = None <=> TxsIn(blocks) \cap wanted = {}
BY DEF Oldest, TxsIn

LEMMA OldestNowhere ==
    ASSUME NEW blocks, NEW wanted, NEW base, TxsIn(blocks) \cap wanted = {}
    PROVE  Oldest(blocks, wanted, base, None)
BY DEF Oldest, TxsIn

\* A block more: its height counts when nothing wanted came before.
LEMMA OldestAdded ==
    ASSUME NEW blocks \in Seq(Blocks), NEW block \in Blocks, NEW wanted, NEW base \in Int, NEW h,
           Oldest(blocks, wanted, base, h)
    PROVE  Oldest(Append(blocks, block), wanted, base,
                  IF h = None /\ Range(block) \cap wanted # {} THEN base + (Len(blocks) + 1) ELSE h)
<1>. DEFINE more == Append(blocks, block)  n == Len(blocks)
<1>1. /\ n \in Nat /\ DOMAIN blocks = 1..n /\ DOMAIN more = 1..(n + 1)
      /\ \A i \in 1..n : more[i] = blocks[i]
      /\ more[n + 1] = block
  BY Appended
<1>. HIDE DEF more, n
<1>2. base + (n + 1) # None
  BY <1>1, ChainMonitorAssumption
<1>3. CASE h = None /\ Range(block) \cap wanted # {}
  <2>1. \A j \in 1..n : Range(more[j]) \cap wanted = {}
    BY <1>1, <1>3 DEF Oldest
  <2>2. n + 1 \in 1..(n + 1) /\ 1..((n + 1) - 1) = 1..n
    BY <1>1
  <2>3. Oldest(more, wanted, base, base + (n + 1))
    BY <1>1, <1>2, <1>3, <2>1, <2>2 DEF Oldest
  <2>. QED  BY <1>3, <2>3 DEF more, n
<1>4. CASE h = None /\ Range(block) \cap wanted = {}
  <2>1. \A j \in 1..n : Range(more[j]) \cap wanted = {}
    BY <1>1, <1>4 DEF Oldest
  <2>2. \A j \in 1..(n + 1) : j \in 1..n \/ j = n + 1
    BY <1>1
  <2>3. Oldest(more, wanted, base, h)
    BY <1>1, <1>4, <2>1, <2>2 DEF Oldest
  <2>. QED  BY <1>4, <2>3 DEF more
<1>5. CASE h # None
  <2>1. PICK i \in 1..n : /\ h = base + i
                          /\ Range(blocks[i]) \cap wanted # {}
                          /\ \A j \in 1..(i - 1) : Range(blocks[j]) \cap wanted = {}
    BY <1>1, <1>5 DEF Oldest
  <2>2. i \in 1..(n + 1) /\ more[i] = blocks[i] /\ \A j \in 1..(i - 1) : more[j] = blocks[j]
    BY <1>1
  <2>3. \A j \in 1..(i - 1) : Range(more[j]) \cap wanted = {}
    BY <2>1, <2>2
  <2>4. Oldest(more, wanted, base, h)
    BY <1>1, <1>5, <2>1, <2>2, <2>3 DEF Oldest
  <2>. QED  BY <1>5, <2>4 DEF more
<1>. QED  BY <1>3, <1>4, <1>5

\* A block less: its height is forgotten.
LEMMA OldestRemoved ==
    ASSUME NEW blocks \in Seq(Blocks), NEW block \in Blocks, NEW wanted, NEW base \in Int, NEW h,
           Oldest(Append(blocks, block), wanted, base, h)
    PROVE  /\ Oldest(blocks, wanted, base, IF h = base + (Len(blocks) + 1) THEN None ELSE h)
           /\ h = base + (Len(blocks) + 1) <=>
                 TxsIn(blocks) \cap wanted = {} /\ Range(block) \cap wanted # {}
           /\ Range(block) \cap wanted # {} => h # None
<1>. DEFINE more == Append(blocks, block)  n == Len(blocks)
<1>1. /\ n \in Nat /\ DOMAIN blocks = 1..n /\ DOMAIN more = 1..(n + 1)
      /\ \A i \in 1..n : more[i] = blocks[i]
      /\ more[n + 1] = block
  BY Appended
<1>. HIDE DEF more, n
<1>2. Oldest(more, wanted, base, h)
  BY DEF more
<1>3. base + (n + 1) # None
  BY <1>1, ChainMonitorAssumption
<1>4. n + 1 \in 1..(n + 1) /\ \A i \in 1..n : i \in 1..(n + 1)
  BY <1>1
<1>5. CASE h = None
  <2>1. \A i \in 1..(n + 1) : Range(more[i]) \cap wanted = {}
    BY <1>2, <1>1, <1>5 DEF Oldest
  <2>2. Range(block) \cap wanted = {} /\ \A i \in 1..n : Range(blocks[i]) \cap wanted = {}
    BY <2>1, <1>1, <1>4
  <2>3. Oldest(blocks, wanted, base, None)
    BY <2>2, <1>1 DEF Oldest
  <2>. QED  BY <1>3, <1>5, <2>2, <2>3 DEF n
<1>6. CASE h # None
  <2>1. PICK i \in 1..(n + 1) : /\ h = base + i
                                /\ Range(more[i]) \cap wanted # {}
                                /\ \A j \in 1..(i - 1) : Range(more[j]) \cap wanted = {}
    BY <1>2, <1>1, <1>6 DEF Oldest
  <2>2. CASE i = n + 1
    <3>1. h = base + (n + 1) /\ Range(block) \cap wanted # {}
      BY <2>1, <2>2, <1>1
    <3>2. 1..(i - 1) = 1..n
      BY <2>2, <1>1
    <3>3. \A j \in 1..n : Range(blocks[j]) \cap wanted = {}
      BY <2>1, <3>2, <1>1
    <3>4. Oldest(blocks, wanted, base, None) /\ TxsIn(blocks) \cap wanted = {}
      BY <3>3, <1>1 DEF Oldest, TxsIn
    <3>. QED  BY <3>1, <3>4, <1>6 DEF n
  <2>3. CASE i # n + 1
    <3>1. i \in 1..n /\ h # base + (n + 1)
      BY <2>1, <2>3, <1>1
    <3>2. more[i] = blocks[i] /\ \A j \in 1..(i - 1) : more[j] = blocks[j]
      BY <1>1, <3>1
    <3>3. Range(blocks[i]) \cap wanted # {} /\ \A j \in 1..(i - 1) : Range(blocks[j]) \cap wanted = {}
      BY <2>1, <3>2
    <3>4. Oldest(blocks, wanted, base, h)
      BY <2>1, <3>1, <3>3, <1>1, <1>6 DEF Oldest
    <3>5. TxsIn(blocks) \cap wanted # {}
      BY <3>1, <3>3, <1>1 DEF TxsIn
    <3>. QED  BY <3>1, <3>4, <3>5, <1>6 DEF n
  <2>. QED  BY <2>2, <2>3
<1>. QED  BY <1>5, <1>6

\* The depth that validation reads is the chain's.
LEMMA OldestDepth ==
    ASSUME NEW m \in Monitors, NEW wanted, NEW h \in Heights, chain \in Seq(Blocks),
           Oldest(chain, wanted, m.height - Len(chain), h)
    PROVE  Depth(m, h) = DepthOf(wanted)
<1>. DEFINE at == {i \in DOMAIN chain : Range(chain[i]) \cap wanted # {}}
            n == Len(chain)
<1>1. n \in Nat /\ DOMAIN chain = 1..n /\ m.height \in Int
  BY DEF Monitors
<1>. HIDE DEF n
<1>2. CASE h = None
  <2>1. at = {}
    BY <1>2 DEF Oldest
  <2>. QED  BY <1>2, <2>1 DEF Depth, DepthOf
<1>3. CASE h # None
  <2>1. PICK i \in 1..n : /\ h = m.height - n + i
                          /\ Range(chain[i]) \cap wanted # {}
                          /\ \A j \in 1..(i - 1) : Range(chain[j]) \cap wanted = {}
    BY <1>1, <1>3 DEF Oldest, n
  <2>2. i \in at
    BY <1>1, <2>1
  <2>3. \A j \in at : i <= j
    <3>. SUFFICES ASSUME NEW j \in at, ~(i <= j) PROVE FALSE
      OBVIOUS
    <3>1. j \in 1..n /\ Range(chain[j]) \cap wanted # {}
      BY <1>1
    <3>2. j \in 1..(i - 1)
      BY <1>1, <3>1
    <3>. QED  BY <3>1, <3>2, <2>1
  <2>4. \A k \in at : (\A j \in at : k <= j) => k = i
    <3>. SUFFICES ASSUME NEW k \in at, \A j \in at : k <= j PROVE k = i
      OBVIOUS
    <3>1. k <= i /\ i <= k /\ k \in Int /\ i \in Int
      BY <1>1, <2>2, <2>3
    <3>. QED  BY <3>1
  <2>. HIDE DEF at
  <2>5. (CHOOSE k \in at : \A j \in at : k <= j) = i
    BY <2>2, <2>3, <2>4
  <2>6. DepthOf(wanted) = n + 1 - i
    BY <2>2, <2>5 DEF DepthOf, at, n
  <2>7. Depth(m, h) = m.height + 1 - h
    BY <1>3 DEF Depth
  <2>. QED  BY <1>1, <2>1, <2>6, <2>7
<1>. QED  BY <1>2, <1>3

------------------------------------------------------------------------------
(* Valid chains                                                             *)

\* The block can follow these blocks: ValidOn, as the proofs use it.
Fits(blocks, block) ==
    /\ Apart(TxsIn(blocks), Range(block))
    /\ \A tx, other \in Range(block) : tx # other => Inputs[tx] \cap Inputs[other] = {}
    /\ Range(block) \cap Closings # {} => FundingTx \in TxsIn(blocks)

LEMMA ValidOnFits ==
    ASSUME NEW blocks \in Seq(Blocks), NEW block \in Blocks, ValidOn(blocks, block), ClosesLater(block)
    PROVE  Fits(blocks, block)
<1>. DEFINE before(i) == TxsIn(blocks) \cup {block[j] : j \in 1..(i - 1)}
            n == Len(block)
<1>1. block \in Seq(Txs) /\ Range(block) = {block[k] : k \in 1..n} /\ n \in Nat /\ DOMAIN block = 1..n
  BY BlockTxs
<1>. HIDE DEF n
<1>2. \A i \in 1..n :
        /\ \A tx \in before(i) : tx # block[i] /\ Inputs[tx] \cap Inputs[block[i]] = {}
        /\ FundingOutpoint \in Inputs[block[i]] => FundingTx \in before(i)
  BY <1>1 DEF ValidOn
<1>3. Apart(TxsIn(blocks), Range(block))
  BY <1>1, <1>2 DEF Apart
<1>4. ASSUME NEW tx \in Range(block), NEW other \in Range(block), tx # other
      PROVE  Inputs[tx] \cap Inputs[other] = {}
  <2>1. PICK i \in 1..n : tx = block[i]
    BY <1>1
  <2>2. PICK j \in 1..n : other = block[j]
    BY <1>1
  <2>3. i # j
    BY <2>1, <2>2, <1>4
  <2>4. CASE i < j
    <3>1. i \in 1..(j - 1)
      BY <1>1, <2>4
    <3>2. tx \in before(j)
      BY <2>1, <3>1
    <3>. QED  BY <2>2, <3>2, <1>2
  <2>5. CASE j < i
    <3>1. j \in 1..(i - 1)
      BY <1>1, <2>5
    <3>2. other \in before(i)
      BY <2>2, <3>1
    <3>. QED  BY <2>1, <3>2, <1>2
  <2>. QED  BY <2>3, <2>4, <2>5, <1>1
<1>5. ASSUME Range(block) \cap Closings # {}
      PROVE  FundingTx \in TxsIn(blocks)
  <2>1. PICK i \in 1..n : FundingOutpoint \in Inputs[block[i]]
    BY <1>1, <1>5 DEF Closings
  <2>2. FundingTx \in before(i)
    BY <2>1, <1>2
  <2>3. \A j \in 1..(i - 1) : j \in 1..n
    BY <1>1
  <2>4. FundingTx \in TxsIn(blocks) \/ FundingTx \in Range(block)
    BY <2>2, <2>3, <1>1
  <2>. QED  BY <2>4, <1>5 DEF ClosesLater
<1>. QED  BY <1>3, <1>4, <1>5 DEF Fits

LEMMA ValidAdded ==
    ASSUME NEW blocks \in Seq(Blocks), NEW block \in Blocks, Valid(blocks), Fits(blocks, block)
    PROVE  Valid(Append(blocks, block))
<1>. DEFINE more == Append(blocks, block)  n == Len(blocks)
<1>1. /\ n \in Nat /\ DOMAIN blocks = 1..n /\ DOMAIN more = 1..(n + 1)
      /\ \A i \in 1..n : more[i] = blocks[i]
      /\ more[n + 1] = block
  BY Appended
<1>. HIDE DEF more, n
<1>2. \A i \in 1..(n + 1) : i = n + 1 \/ i \in 1..n
  BY <1>1
<1>3. \A i \in 1..n : Apart(Range(blocks[i]), Range(block)) /\ Apart(Range(block), Range(blocks[i]))
  BY <1>1 DEF Fits, Apart, TxsIn
<1>4. \A i, j \in 1..(n + 1) : i # j => Apart(Range(more[i]), Range(more[j]))
  <2>. SUFFICES ASSUME NEW i \in 1..(n + 1), NEW j \in 1..(n + 1), i # j
                PROVE  Apart(Range(more[i]), Range(more[j]))
    OBVIOUS
  <2>1. CASE i \in 1..n /\ j \in 1..n
    BY <2>1, <1>1 DEF Valid
  <2>2. CASE i \in 1..n /\ j = n + 1
    BY <2>2, <1>1, <1>3
  <2>3. CASE i = n + 1 /\ j \in 1..n
    BY <2>3, <1>1, <1>3
  <2>. QED  BY <2>1, <2>2, <2>3, <1>2
<1>5. \A i \in 1..(n + 1) : \A tx, other \in Range(more[i]) :
          tx # other => Inputs[tx] \cap Inputs[other] = {}
  BY <1>1, <1>2 DEF Valid, Fits
<1>6. ASSUME NEW i \in 1..(n + 1), Range(more[i]) \cap Closings # {}
      PROVE  \E j \in 1..(i - 1) : FundingTx \in Range(more[j])
  <2>1. CASE i = n + 1
    <3>1. PICK j \in 1..n : FundingTx \in Range(blocks[j])
      BY <2>1, <1>1, <1>6 DEF Fits, TxsIn
    <3>2. j \in 1..(i - 1) /\ more[j] = blocks[j]
      BY <2>1, <1>1
    <3>. QED  BY <3>1, <3>2
  <2>2. CASE i \in 1..n
    <3>1. PICK j \in 1..(i - 1) : FundingTx \in Range(blocks[j])
      BY <2>2, <1>1, <1>6 DEF Valid
    <3>2. more[j] = blocks[j]
      BY <2>2, <1>1
    <3>. QED  BY <3>1, <3>2
  <2>. QED  BY <2>1, <2>2, <1>2
<1>. QED  BY <1>1, <1>4, <1>5, <1>6 DEF Valid, more

LEMMA ValidRemoved ==
    ASSUME NEW blocks \in Seq(Blocks), NEW block \in Blocks, Valid(Append(blocks, block))
    PROVE  Valid(blocks) /\ Fits(blocks, block)
<1>. DEFINE more == Append(blocks, block)  n == Len(blocks)
<1>1. /\ n \in Nat /\ DOMAIN blocks = 1..n /\ DOMAIN more = 1..(n + 1)
      /\ \A i \in 1..n : more[i] = blocks[i]
      /\ more[n + 1] = block
  BY Appended
<1>2. Valid(more)
  OBVIOUS
<1>. HIDE DEF more, n
<1>3. n + 1 \in 1..(n + 1) /\ \A i \in 1..n : i \in 1..(n + 1) /\ i # n + 1
  BY <1>1
<1>4. \A i, j \in 1..n : i # j => Apart(Range(blocks[i]), Range(blocks[j]))
  BY <1>2, <1>1, <1>3 DEF Valid
<1>5. \A i \in 1..n : Apart(Range(blocks[i]), Range(block))
  BY <1>2, <1>1, <1>3 DEF Valid
<1>6. \A i \in 1..n : \A tx, other \in Range(blocks[i]) :
          tx # other => Inputs[tx] \cap Inputs[other] = {}
  BY <1>2, <1>1, <1>3 DEF Valid
<1>7. \A tx, other \in Range(block) : tx # other => Inputs[tx] \cap Inputs[other] = {}
  BY <1>2, <1>1, <1>3 DEF Valid
<1>8. ASSUME NEW i \in 1..n, Range(blocks[i]) \cap Closings # {}
      PROVE  \E j \in 1..(i - 1) : FundingTx \in Range(blocks[j])
  <2>1. PICK j \in 1..(i - 1) : FundingTx \in Range(more[j])
    BY <1>2, <1>1, <1>3, <1>8 DEF Valid
  <2>2. more[j] = blocks[j]
    BY <1>1
  <2>. QED  BY <2>1, <2>2
<1>9. ASSUME Range(block) \cap Closings # {}
      PROVE  FundingTx \in TxsIn(blocks)
  <2>1. PICK j \in 1..((n + 1) - 1) : FundingTx \in Range(more[j])
    BY <1>2, <1>1, <1>3, <1>9 DEF Valid
  <2>2. j \in 1..n /\ more[j] = blocks[j]
    BY <1>1
  <2>. QED  BY <2>1, <2>2, <1>1 DEF TxsIn
<1>10. Apart(TxsIn(blocks), Range(block))
  BY <1>1, <1>5 DEF Apart, TxsIn
<1>. QED  BY <1>1, <1>4, <1>6, <1>7, <1>8, <1>9, <1>10 DEF Valid, Fits

\* What a valid block rules out.
LEMMA FitsFacts ==
    ASSUME NEW blocks \in Seq(Blocks), NEW block \in Blocks, Fits(blocks, block),
           NEW inputs \in {{}, Inputs[FundingTx]}
    PROVE  /\ FundingTx \in Range(block) =>
                 /\ FundingTx \notin TxsIn(blocks)
                 /\ TxsIn(blocks) \cap DoubleSpends(inputs) = {}
                 /\ Range(block) \cap DoubleSpends(inputs) = {}
           /\ Range(block) \cap DoubleSpends(inputs) # {} => FundingTx \notin TxsIn(blocks)
           /\ Range(block) \cap Closings # {} => TxsIn(blocks) \cap Closings = {}
           /\ \A o \in SpentIn(Range(block)) : o \notin SpentIn(TxsIn(blocks))
<1>1. \A tx \in TxsIn(blocks), other \in Range(block) : tx # other /\ Inputs[tx] \cap Inputs[other] = {}
  BY DEF Fits, Apart
<1>2. \A tx, other \in Range(block) : tx # other => Inputs[tx] \cap Inputs[other] = {}
  BY DEF Fits
<1>3. ASSUME NEW tx \in DoubleSpends(inputs) PROVE tx # FundingTx /\ Inputs[tx] \cap Inputs[FundingTx] # {}
  BY DEF DoubleSpends
<1>4. FundingTx \in Range(block) =>
                 /\ FundingTx \notin TxsIn(blocks)
                 /\ TxsIn(blocks) \cap DoubleSpends(inputs) = {}
                 /\ Range(block) \cap DoubleSpends(inputs) = {}
  BY <1>1, <1>2, <1>3
<1>5. Range(block) \cap DoubleSpends(inputs) # {} => FundingTx \notin TxsIn(blocks)
  BY <1>1, <1>3
<1>6. Range(block) \cap Closings # {} => TxsIn(blocks) \cap Closings = {}
  BY <1>1 DEF Closings
<1>7. \A o \in SpentIn(Range(block)) : o \notin SpentIn(TxsIn(blocks))
  BY <1>1 DEF SpentIn
<1>. QED  BY <1>4, <1>5, <1>6, <1>7

------------------------------------------------------------------------------
(* A block is added or removed                                              *)

\* What the decoded changes say of a block, when the monitor knows the channel as it is.
LEMMA ToldFacts ==
    ASSUME NEW m \in Monitors, m.decode_state \in Decodes, NEW block \in Blocks,
           Told(m, Range(block)), m.funding_inputs \in {{}, Inputs[FundingTx]},
           \A tx, other \in Range(block) : tx # other => Inputs[tx] \cap Inputs[other] = {},
           Range(block) \cap Closings # {} => m.funding_outpoint = FundingOutpoint
    PROVE  LET changes == m.decode_state.changes IN
           /\ FundingConfirmed \in changes <=> FundingTx \in Range(block)
           /\ (FundingConfirmed \notin changes /\ Spent(changes) # {})
                 <=> Range(block) \cap DoubleSpends(m.funding_inputs) # {}
           /\ ClosingConfirmed \in changes <=> Range(block) \cap Closings # {}
<1>. DEFINE changes == m.decode_state.changes  inputs == m.funding_inputs
<1>1. FundingConfirmed \in changes <=> FundingTx \in Range(block)
  BY DEF Told
<1>2. Range(block) \subseteq Txs
  BY BlockTxs
<1>3. Spent(changes) \subseteq inputs \cap SpentIn(Range(block))
      /\ inputs \cap SpentIn(Range(block) \ {FundingTx}) \subseteq Spent(changes)
  BY DEF Told
<1>4. ASSUME FundingTx \notin Range(block), Spent(changes) # {}
      PROVE  Range(block) \cap DoubleSpends(inputs) # {}
  <2>1. PICK o : o \in Spent(changes)
    BY <1>4
  <2>2. PICK tx \in Range(block) : o \in Inputs[tx]
    BY <2>1, <1>3 DEF SpentIn
  <2>3. tx \in Txs \ {FundingTx} /\ o \in Inputs[tx] \cap inputs
    BY <2>1, <2>2, <1>2, <1>3, <1>4
  <2>. QED  BY <2>2, <2>3 DEF DoubleSpends
<1>5. ASSUME Range(block) \cap DoubleSpends(inputs) # {}
      PROVE  FundingTx \notin Range(block) /\ Spent(changes) # {}
  <2>1. PICK tx \in Range(block) : tx # FundingTx /\ Inputs[tx] \cap inputs # {}
    BY <1>5 DEF DoubleSpends
  <2>2. PICK o : o \in Inputs[tx] \cap inputs
    BY <2>1
  <2>3. o \in inputs \cap SpentIn(Range(block) \ {FundingTx})
    BY <2>1, <2>2 DEF SpentIn
  <2>4. Inputs[tx] \cap Inputs[FundingTx] # {}
    BY <2>1
  <2>. QED  BY <2>1, <2>3, <2>4, <1>3
<1>6. ClosingConfirmed \in changes <=> Range(block) \cap Closings # {}
  <2>1. ClosingConfirmed \in changes <=> \E tx \in Range(block) : m.funding_outpoint \in Inputs[tx]
    BY DEF Told
  <2>2. \A tx \in Range(block) : None \notin Inputs[tx]
    BY <1>2, ChainMonitorAssumption
  <2>3. m.funding_outpoint \in {None, FundingOutpoint}
    BY DEF Monitors
  <2>4. Range(block) \cap Closings = {tx \in Range(block) : FundingOutpoint \in Inputs[tx]}
    BY <1>2 DEF Closings
  <2>. QED  BY <2>1, <2>2, <2>3, <2>4
<1>. QED  BY <1>1, <1>4, <1>5, <1>6

LEMMA AddedFields ==
    ASSUME NEW m \in Monitors, m.decode_state \in Decodes
    PROVE  LET changes == m.decode_state.changes
               funded == FundingConfirmed \in changes
               e == on_add_block_end(m)
           IN  /\ e \in Monitors
               /\ e.height = m.height + 1
               /\ e.funding_inputs = m.funding_inputs
               /\ e.funding_height = IF funded THEN m.height + 1 ELSE m.funding_height
               /\ e.funding_outpoint = IF funded THEN FundingOutpoint ELSE m.funding_outpoint
               /\ e.funding_double_spent_height =
                     IF ~funded /\ Spent(changes) # {} /\ m.funding_double_spent_height = None
                     THEN m.height + 1 ELSE m.funding_double_spent_height
               /\ e.closing_height =
                     IF ClosingConfirmed \in changes THEN m.height + 1 ELSE m.closing_height
<1>. DEFINE changes == m.decode_state.changes
            funded == FundingConfirmed \in changes
            fh == IF funded THEN m.height + 1 ELSE m.funding_height
            fo == IF funded THEN FundingOutpoint ELSE m.funding_outpoint
            ds == IF ~funded /\ Spent(changes) # {} /\ m.funding_double_spent_height = None
                  THEN m.height + 1 ELSE m.funding_double_spent_height
            ch == IF ClosingConfirmed \in changes THEN m.height + 1 ELSE m.closing_height
            e == on_add_block_end(m)
<1>1. ~is_not_ready_for_push(m)
  BY NoneAssumption DEF is_not_ready_for_push
<1>2. e = [m EXCEPT !.height = m.height + 1, !.saw_block = TRUE, !.decode_state = None,
                    !.funding_height = fh, !.funding_outpoint = fo,
                    !.funding_double_spent_height = ds, !.closing_height = ch]
  BY <1>1 DEF on_add_block_end
<1>3. m.height + 1 \in Int /\ fh \in Heights /\ fo \in {None, FundingOutpoint} /\ ds \in Heights /\ ch \in Heights
  BY DEF Monitors, Heights
<1>. HIDE DEF fh, fo, ds, ch, e
<1>4. /\ e \in Monitors
      /\ e.height = m.height + 1
      /\ e.funding_inputs = m.funding_inputs
      /\ e.funding_height = fh
      /\ e.funding_outpoint = fo
      /\ e.funding_double_spent_height = ds
      /\ e.closing_height = ch
  BY <1>2, <1>3 DEF Monitors
<1>. QED  BY <1>4 DEF fh, fo, ds, ch, e

LEMMA RemovedFields ==
    ASSUME NEW m \in Monitors, m.decode_state \in Decodes
    PROVE  LET changes == m.decode_state.changes
               funded == FundingConfirmed \in changes
               e == on_remove_block_end(m)
           IN  /\ e \in Monitors
               /\ e.height = m.height - 1
               /\ e.funding_inputs = m.funding_inputs
               /\ e.funding_height = IF funded THEN None ELSE m.funding_height
               /\ e.funding_outpoint = IF funded THEN None ELSE m.funding_outpoint
               /\ e.funding_double_spent_height =
                     IF ~funded /\ Spent(changes) # {} /\ m.funding_double_spent_height = m.height
                     THEN None ELSE m.funding_double_spent_height
               /\ e.closing_height =
                     IF ClosingConfirmed \in changes THEN None ELSE m.closing_height
<1>. DEFINE changes == m.decode_state.changes
            funded == FundingConfirmed \in changes
            fh == IF funded THEN None ELSE m.funding_height
            fo == IF funded THEN None ELSE m.funding_outpoint
            ds == IF ~funded /\ Spent(changes) # {} /\ m.funding_double_spent_height = m.height
                  THEN None ELSE m.funding_double_spent_height
            ch == IF ClosingConfirmed \in changes THEN None ELSE m.closing_height
            e == on_remove_block_end(m)
<1>1. ~is_not_ready_for_push(m)
  BY NoneAssumption DEF is_not_ready_for_push
<1>2. e = [m EXCEPT !.height = m.height - 1, !.decode_state = None,
                    !.funding_height = fh, !.funding_outpoint = fo,
                    !.funding_double_spent_height = ds, !.closing_height = ch]
  BY <1>1 DEF on_remove_block_end
<1>3. m.height - 1 \in Int /\ fh \in Heights /\ fo \in {None, FundingOutpoint} /\ ds \in Heights /\ ch \in Heights
  BY DEF Monitors, Heights
<1>. HIDE DEF fh, fo, ds, ch, e
<1>4. /\ e \in Monitors
      /\ e.height = m.height - 1
      /\ e.funding_inputs = m.funding_inputs
      /\ e.funding_height = fh
      /\ e.funding_outpoint = fo
      /\ e.funding_double_spent_height = ds
      /\ e.closing_height = ch
  BY <1>2, <1>3 DEF Monitors
<1>. QED  BY <1>4 DEF fh, fo, ds, ch, e

\* The outpoints that a block's end makes the tracker watch, and lets it forget.
LEMMA WatchesOfEnd ==
    ASSUME NEW m, m.decode_state \in Decodes
    PROVE  LET changes == m.decode_state.changes IN
           /\ Adds(m) = IF FundingConfirmed \in changes THEN {FundingOutpoint} ELSE {}
           /\ Removes(m) = Spent(changes) \cup
                 (IF ClosingConfirmed \in changes THEN {FundingOutpoint} ELSE {})
<1>1. ~is_not_ready_for_push(m)
  BY NoneAssumption DEF is_not_ready_for_push
<1>. QED  BY <1>1 DEF Adds, Removes

LEMMA SpentInUnion ==
    ASSUME NEW txs, NEW others
    PROVE  SpentIn(txs \cup others) = SpentIn(txs) \cup SpentIn(others)
BY DEF SpentIn

\* A block added to the chain, its changes decoded: no assert fails, and the monitor
\* and the watches are those of the longer chain.
LEMMA AddedBlock ==
    ASSUME NEW blocks \in Seq(Blocks), NEW block \in Blocks, Fits(blocks, block),
           NEW m \in Monitors, m.decode_state \in Decodes, Told(m, Range(block)),
           m.decode_state.block_hash = Append(blocks, block),
           NEW t, Good(blocks, t, m),
           NEW u, u.watches = (t.watches \cup Adds(m)) \ Removes(m),
           u.seen = t.seen \cup Removes(m), u.txid_watches = t.txid_watches
    PROVE  /\ on_add_asserts(m, Append(blocks, block))
           /\ Good(Append(blocks, block), u, on_add_block_end(m))
<1>. DEFINE more == Append(blocks, block)
            n == Len(blocks)
            changes == m.decode_state.changes
            inputs == m.funding_inputs
            base == m.height - n
            e == on_add_block_end(m)
<1>1. Matches(blocks, m) /\ Watched(blocks, t, m) /\ FundingTx \in t.txid_watches
  BY NoneAssumption DEF Good
<1>2. /\ inputs \in {{}, Inputs[FundingTx]}
      /\ m.funding_outpoint = IF FundingTx \in TxsIn(blocks) THEN FundingOutpoint ELSE None
      /\ Oldest(blocks, {FundingTx}, base, m.funding_height)
      /\ Oldest(blocks, DoubleSpends(inputs), base, m.funding_double_spent_height)
      /\ Oldest(blocks, Closings, base, m.closing_height)
  BY <1>1 DEF Matches
<1>3. /\ FundingConfirmed \in changes <=> FundingTx \in Range(block)
      /\ (FundingConfirmed \notin changes /\ Spent(changes) # {})
            <=> Range(block) \cap DoubleSpends(inputs) # {}
      /\ ClosingConfirmed \in changes <=> Range(block) \cap Closings # {}
  BY <1>2, ToldFacts DEF Fits
<1>4. n \in Nat /\ m.height \in Int /\ base \in Int /\ Len(more) = n + 1
      /\ base + (n + 1) = m.height + 1 /\ (m.height + 1) - Len(more) = base
  BY DEF Monitors
<1>5. TxsIn(more) = TxsIn(blocks) \cup Range(block)
  BY AppendedTxs
<1>6. /\ FundingTx \in Range(block) =>
            /\ FundingTx \notin TxsIn(blocks)
            /\ TxsIn(blocks) \cap DoubleSpends(inputs) = {}
            /\ Range(block) \cap DoubleSpends(inputs) = {}
      /\ Range(block) \cap DoubleSpends(inputs) # {} => FundingTx \notin TxsIn(blocks)
      /\ Range(block) \cap Closings # {} => TxsIn(blocks) \cap Closings = {}
      /\ \A o \in SpentIn(Range(block)) : o \notin SpentIn(TxsIn(blocks))
  BY <1>2, FitsFacts
<1>7. /\ m.funding_height = None <=> TxsIn(blocks) \cap {FundingTx} = {}
      /\ m.funding_double_spent_height = None <=> TxsIn(blocks) \cap DoubleSpends(inputs) = {}
      /\ m.closing_height = None <=> TxsIn(blocks) \cap Closings = {}
  BY <1>2, <1>4, OldestNone
<1>8. on_add_asserts(m, more)
  BY <1>3, <1>6, <1>7, NoneAssumption DEF on_add_asserts
<1>9. /\ e \in Monitors
      /\ e.height = m.height + 1
      /\ e.funding_inputs = inputs
      /\ e.funding_height = IF FundingTx \in Range(block) THEN m.height + 1 ELSE m.funding_height
      /\ e.funding_outpoint = IF FundingTx \in Range(block) THEN FundingOutpoint ELSE m.funding_outpoint
      /\ e.funding_double_spent_height =
            IF Range(block) \cap DoubleSpends(inputs) # {} /\ m.funding_double_spent_height = None
            THEN m.height + 1 ELSE m.funding_double_spent_height
      /\ e.closing_height = IF Range(block) \cap Closings # {} THEN m.height + 1 ELSE m.closing_height
  BY <1>3, AddedFields
<1>. HIDE DEF more, n, changes, inputs, base, e
<1>10. Matches(more, e)
  <2>1. /\ Oldest(more, {FundingTx}, base, IF m.funding_height = None /\ Range(block) \cap {FundingTx} # {}
                                             THEN base + (n + 1) ELSE m.funding_height)
        /\ Oldest(more, DoubleSpends(inputs), base,
                  IF m.funding_double_spent_height = None /\ Range(block) \cap DoubleSpends(inputs) # {}
                  THEN base + (n + 1) ELSE m.funding_double_spent_height)
        /\ Oldest(more, Closings, base, IF m.closing_height = None /\ Range(block) \cap Closings # {}
                                          THEN base + (n + 1) ELSE m.closing_height)
    BY <1>2, <1>4, OldestAdded DEF more, n
  <2>2. Oldest(more, {FundingTx}, base, e.funding_height)
    <3>1. CASE FundingTx \in Range(block)
      BY <3>1, <2>1, <1>4, <1>6, <1>7, <1>9
    <3>2. CASE FundingTx \notin Range(block)
      BY <3>2, <2>1, <1>9
    <3>. QED  BY <3>1, <3>2
  <2>3. Oldest(more, DoubleSpends(inputs), base, e.funding_double_spent_height)
    <3>1. CASE Range(block) \cap DoubleSpends(inputs) # {} /\ m.funding_double_spent_height = None
      BY <3>1, <2>1, <1>4, <1>9
    <3>2. CASE ~(Range(block) \cap DoubleSpends(inputs) # {} /\ m.funding_double_spent_height = None)
      BY <3>2, <2>1, <1>9
    <3>. QED  BY <3>1, <3>2
  <2>4. Oldest(more, Closings, base, e.closing_height)
    <3>1. CASE Range(block) \cap Closings # {}
      BY <3>1, <2>1, <1>4, <1>6, <1>7, <1>9
    <3>2. CASE Range(block) \cap Closings = {}
      BY <3>2, <2>1, <1>9
    <3>. QED  BY <3>1, <3>2
  <2>5. e.funding_outpoint = IF FundingTx \in TxsIn(more) THEN FundingOutpoint ELSE None
    BY <1>2, <1>5, <1>9
  <2>6. e.height - Len(more) = base
    BY <1>4, <1>9
  <2>. QED  BY <1>2, <1>9, <2>2, <2>3, <2>4, <2>5, <2>6 DEF Matches
<1>11. Watched(more, u, e)
  <2>. DEFINE spent == SpentIn(TxsIn(blocks))  now == SpentIn(Range(block))
              funded == FundingTx \in TxsIn(blocks)
              adds == Adds(m)  removes == Removes(m)
  <2>1. adds = IF FundingTx \in Range(block) THEN {FundingOutpoint} ELSE {}
    BY <1>3, WatchesOfEnd DEF changes
  <2>2. removes \subseteq now
    <3>1. removes = Spent(changes) \cup (IF Range(block) \cap Closings # {} THEN {FundingOutpoint} ELSE {})
      BY <1>3, WatchesOfEnd DEF changes
    <3>2. Spent(changes) \subseteq now
      BY DEF Told, changes
    <3>3. Range(block) \cap Closings # {} => FundingOutpoint \in now
      BY DEF Closings, SpentIn
    <3>. HIDE DEF removes, now
    <3>. QED  BY <3>1, <3>2, <3>3
  <2>3. SpentIn(TxsIn(more)) = spent \cup now
    BY <1>5, SpentInUnion
  <2>4. /\ \A o \in inputs \ spent : o \in t.watches
        /\ \A o \in inputs \cap spent : o \in t.watches \cup t.seen
        /\ funded => FundingOutpoint \in t.watches \/ FundingOutpoint \in spent
        /\ (funded /\ FundingOutpoint \in spent) => FundingOutpoint \in t.watches \cup t.seen
    BY <1>1 DEF Watched, Relevant, inputs
  <2>5. Relevant(more, e) = inputs \cup {o \in {FundingOutpoint} : funded} \cup adds
    BY <1>5, <1>9, <2>1 DEF Relevant
  <2>. HIDE DEF adds, removes, spent, now, funded
  <2>6. Relevant(more, e) \ (spent \cup now) \subseteq u.watches
    BY <2>2, <2>4, <2>5 DEF adds, removes
  <2>7. Relevant(more, e) \cap (spent \cup now) \subseteq u.watches \cup u.seen
    BY <2>2, <2>4, <2>5 DEF adds, removes
  <2>. QED  BY <2>3, <2>6, <2>7 DEF Watched
<1>. QED  BY <1>1, <1>8, <1>10, <1>11 DEF Good, more, e

\* The same for a block removed.  Here everything the block spends must have been decoded.
LEMMA RemovedBlock ==
    ASSUME NEW blocks \in Seq(Blocks), NEW block \in Blocks, Fits(blocks, block),
           NEW m \in Monitors, m.decode_state \in Decodes, Told(m, Range(block)),
           m.funding_inputs \cap SpentIn(Range(block)) \subseteq Spent(m.decode_state.changes),
           NEW t, Good(Append(blocks, block), t, m),
           NEW u, u.watches = (t.watches \cup Removes(m)) \ Adds(m),
           u.seen = t.seen \ Removes(m), u.txid_watches = t.txid_watches
    PROVE  /\ SpendsOne(block) => on_remove_asserts(m, m.decode_state.block_hash)
           /\ Good(blocks, u, on_remove_block_end(m))
<1>. DEFINE more == Append(blocks, block)
            n == Len(blocks)
            changes == m.decode_state.changes
            inputs == m.funding_inputs
            base == m.height - (n + 1)
            e == on_remove_block_end(m)
<1>1. Matches(more, m) /\ Watched(more, t, m) /\ FundingTx \in t.txid_watches
  BY NoneAssumption DEF Good
<1>2. n \in Nat /\ m.height \in Int /\ base \in Int /\ Len(more) = n + 1
      /\ base + (n + 1) = m.height /\ (m.height - 1) - n = base
  BY DEF Monitors
<1>3. TxsIn(more) = TxsIn(blocks) \cup Range(block)
  BY AppendedTxs
<1>4. /\ inputs \in {{}, Inputs[FundingTx]}
      /\ m.funding_outpoint = IF FundingTx \in TxsIn(more) THEN FundingOutpoint ELSE None
      /\ Oldest(more, {FundingTx}, base, m.funding_height)
      /\ Oldest(more, DoubleSpends(inputs), base, m.funding_double_spent_height)
      /\ Oldest(more, Closings, base, m.closing_height)
  <2>. HIDE DEF more
  <2>. QED  BY <1>1, <1>2 DEF Matches
<1>5. /\ FundingConfirmed \in changes <=> FundingTx \in Range(block)
      /\ (FundingConfirmed \notin changes /\ Spent(changes) # {})
            <=> Range(block) \cap DoubleSpends(inputs) # {}
      /\ ClosingConfirmed \in changes <=> Range(block) \cap Closings # {}
  <2>1. Range(block) \cap Closings # {} => m.funding_outpoint = FundingOutpoint
    BY <1>4, <1>3 DEF Fits
  <2>. QED  BY <1>4, <2>1, ToldFacts DEF Fits
<1>6. /\ FundingTx \in Range(block) =>
            /\ FundingTx \notin TxsIn(blocks)
            /\ TxsIn(blocks) \cap DoubleSpends(inputs) = {}
            /\ Range(block) \cap DoubleSpends(inputs) = {}
      /\ Range(block) \cap DoubleSpends(inputs) # {} => FundingTx \notin TxsIn(blocks)
      /\ Range(block) \cap Closings # {} => TxsIn(blocks) \cap Closings = {}
      /\ \A o \in SpentIn(Range(block)) : o \notin SpentIn(TxsIn(blocks))
  BY <1>4, FitsFacts
<1>7. /\ e \in Monitors
      /\ e.height = m.height - 1
      /\ e.funding_inputs = inputs
      /\ e.funding_height = IF FundingTx \in Range(block) THEN None ELSE m.funding_height
      /\ e.funding_outpoint = IF FundingTx \in Range(block) THEN None ELSE m.funding_outpoint
      /\ e.funding_double_spent_height =
            IF Range(block) \cap DoubleSpends(inputs) # {} /\ m.funding_double_spent_height = m.height
            THEN None ELSE m.funding_double_spent_height
      /\ e.closing_height = IF Range(block) \cap Closings # {} THEN None ELSE m.closing_height
  BY <1>5, RemovedFields
<1>. HIDE DEF more, n, changes, inputs, base, e
\* What OldestRemoved says of the three heights.
<1>8. /\ Oldest(blocks, {FundingTx}, base,
                IF m.funding_height = base + (n + 1) THEN None ELSE m.funding_height)
      /\ m.funding_height = base + (n + 1) <=>
            TxsIn(blocks) \cap {FundingTx} = {} /\ Range(block) \cap {FundingTx} # {}
  <2>. DEFINE wanted == {FundingTx}
  <2>1. base \in Int /\ Oldest(Append(blocks, block), wanted, base, m.funding_height)
    BY <1>4, <1>2 DEF more
  <2>. HIDE DEF wanted
  <2>2. /\ Oldest(blocks, wanted, base,
                  IF m.funding_height = base + (n + 1) THEN None ELSE m.funding_height)
        /\ m.funding_height = base + (n + 1) <=>
              TxsIn(blocks) \cap wanted = {} /\ Range(block) \cap wanted # {}
    BY <2>1, OldestRemoved DEF n
  <2>. QED  BY <2>2 DEF wanted
<1>9.
      /\ Oldest(blocks, DoubleSpends(inputs), base,
                IF m.funding_double_spent_height = base + (n + 1)
                THEN None ELSE m.funding_double_spent_height)
      /\ m.funding_double_spent_height = base + (n + 1) <=>
            TxsIn(blocks) \cap DoubleSpends(inputs) = {} /\ Range(block) \cap DoubleSpends(inputs) # {}
      /\ Range(block) \cap DoubleSpends(inputs) # {} => m.funding_double_spent_height # None
  <2>1. base \in Int /\ Oldest(Append(blocks, block), DoubleSpends(inputs), base, m.funding_double_spent_height)
    BY <1>4, <1>2 DEF more
  <2>. QED  BY <2>1, OldestRemoved DEF n
<1>10.
      /\ Oldest(blocks, Closings, base,
                IF m.closing_height = base + (n + 1) THEN None ELSE m.closing_height)
      /\ m.closing_height = base + (n + 1) <=>
            TxsIn(blocks) \cap Closings = {} /\ Range(block) \cap Closings # {}
  <2>1. base \in Int /\ Oldest(Append(blocks, block), Closings, base, m.closing_height)
    BY <1>4, <1>2 DEF more
  <2>. QED  BY <2>1, OldestRemoved DEF n
<1>11. ASSUME SpendsOne(block)
      PROVE  on_remove_asserts(m, m.decode_state.block_hash)
  <2>1. m.decode_state # None
    BY NoneAssumption
  <2>2. FundingConfirmed \in changes => m.funding_height = m.height
    BY <1>5, <1>2, <1>6, <1>8
  <2>3. ClosingConfirmed \in changes => m.closing_height = m.height
    BY <1>5, <1>2, <1>6, <1>10
  <2>4. (FundingConfirmed \notin changes /\ Spent(changes) # {}) => m.funding_double_spent_height # None
    BY <1>5, <1>9
  <2>5. (FundingConfirmed \notin changes /\ Spent(changes) # {}) => ~(Cardinality(Spent(changes)) > 1)
    <3>. SUFFICES ASSUME FundingConfirmed \notin changes, Spent(changes) # {}
                  PROVE  ~(Cardinality(Spent(changes)) > 1)
      OBVIOUS
    <3>1. PICK o : o \in Spent(changes)
      OBVIOUS
    <3>2. Spent(changes) \subseteq Inputs[FundingTx] \cap UNION {Inputs[tx] : tx \in Range(block) \ {FundingTx}}
      <4>1. Spent(changes) \subseteq inputs \cap SpentIn(Range(block))
        BY DEF Told, changes, inputs
      <4>2. FundingTx \notin Range(block)
        BY <1>5
      <4>3. SpentIn(Range(block)) = UNION {Inputs[tx] : tx \in Range(block) \ {FundingTx}}
        BY <4>2 DEF SpentIn
      <4>. QED  BY <4>1, <4>3, <1>4
    <3>3. \A p \in Spent(changes) : p = o
      BY <3>1, <3>2, <1>11 DEF SpendsOne
    <3>4. Spent(changes) = {o}
      BY <3>1, <3>3
    <3>5. Cardinality({o}) = 1
      BY FS_Singleton
    <3>. QED  BY <3>4, <3>5
  <2>. QED  BY <2>1, <2>2, <2>3, <2>4, <2>5 DEF on_remove_asserts, changes
<1>12. Matches(blocks, e)
  <2>2. Oldest(blocks, {FundingTx}, base, e.funding_height)
    <3>1. CASE FundingTx \in Range(block)
      BY <3>1, <1>6, <1>8, <1>7
    <3>2. CASE FundingTx \notin Range(block)
      BY <3>2, <1>8, <1>7
    <3>. QED  BY <3>1, <3>2
  <2>3. Oldest(blocks, DoubleSpends(inputs), base, e.funding_double_spent_height)
    <3>1. CASE m.funding_double_spent_height = m.height
      BY <3>1, <1>2, <1>9, <1>7
    <3>2. CASE m.funding_double_spent_height # m.height
      BY <3>2, <1>2, <1>9, <1>7
    <3>. QED  BY <3>1, <3>2
  <2>4. Oldest(blocks, Closings, base, e.closing_height)
    <3>1. CASE Range(block) \cap Closings # {}
      BY <3>1, <1>6, <1>10, <1>7
    <3>2. CASE Range(block) \cap Closings = {}
      BY <3>2, <1>10, <1>7
    <3>. QED  BY <3>1, <3>2
  <2>5. e.funding_outpoint = IF FundingTx \in TxsIn(blocks) THEN FundingOutpoint ELSE None
    BY <1>4, <1>3, <1>6, <1>7
  <2>6. e.height - Len(blocks) = base
    BY <1>2, <1>7 DEF n
  <2>. QED  BY <1>4, <1>7, <2>2, <2>3, <2>4, <2>5, <2>6 DEF Matches
<1>13. Watched(blocks, u, e)
  <2>. DEFINE spent == SpentIn(TxsIn(blocks))  now == SpentIn(Range(block))
              adds == Adds(m)  removes == Removes(m)
              still == Relevant(blocks, e)
  <2>1. adds = IF FundingTx \in Range(block) THEN {FundingOutpoint} ELSE {}
    BY <1>5, WatchesOfEnd DEF changes
  <2>2. still = inputs \cup {o \in {FundingOutpoint} : FundingTx \in TxsIn(blocks)}
    BY <1>7 DEF Relevant
  <2>3. still \cap adds = {}
    <3>1. FundingOutpoint \notin inputs
      BY <1>4, ChainMonitorAssumption
    <3>. HIDE DEF adds, still
    <3>. QED  BY <3>1, <2>1, <2>2, <1>6
  <2>4. still \cap now \subseteq removes
    <3>1. removes = Spent(changes) \cup (IF Range(block) \cap Closings # {} THEN {FundingOutpoint} ELSE {})
      BY <1>5, WatchesOfEnd DEF changes
    <3>2. inputs \cap now \subseteq Spent(changes)
      BY DEF changes, inputs
    <3>3. FundingOutpoint \in now => Range(block) \cap Closings # {}
      BY BlockTxs DEF Closings, SpentIn
    <3>. HIDE DEF removes, now, still
    <3>. QED  BY <3>1, <3>2, <3>3, <2>2
  <2>5. SpentIn(TxsIn(more)) = spent \cup now
    BY <1>3, SpentInUnion
  <2>6. still \subseteq Relevant(more, m)
    BY <1>3, <2>2 DEF Relevant, inputs
  <2>7. /\ \A o \in still \ (spent \cup now) : o \in t.watches
        /\ \A o \in still \cap (spent \cup now) : o \in t.watches \cup t.seen
    <3>. HIDE DEF still, spent, now
    <3>. QED  BY <1>1, <2>5, <2>6 DEF Watched
  <2>. HIDE DEF adds, removes, spent, now, still
  <2>8. still \ spent \subseteq u.watches
    BY <2>3, <2>4, <2>7 DEF adds, removes
  <2>9. still \cap spent \subseteq u.watches \cup u.seen
    BY <2>3, <2>7 DEF adds, removes
  <2>. QED  BY <2>8, <2>9 DEF Watched, still, spent
<1>. QED  BY <1>1, <1>11, <1>12, <1>13 DEF Good, e

\* Without the funding transaction there is nothing that closes the channel.
LEMMA NoClosing ==
    ASSUME NEW blocks \in Seq(Blocks), Valid(blocks), FundingTx \notin TxsIn(blocks)
    PROVE  TxsIn(blocks) \cap Closings = {}
<1>1. DOMAIN blocks = 1..Len(blocks) /\ Len(blocks) \in Nat
  OBVIOUS
<1>. SUFFICES ASSUME NEW i \in DOMAIN blocks, Range(blocks[i]) \cap Closings # {} PROVE FALSE
  BY DEF TxsIn
<1>2. PICK j \in 1..(i - 1) : FundingTx \in Range(blocks[j])
  BY DEF Valid
<1>3. j \in DOMAIN blocks
  BY <1>1
<1>. QED  BY <1>2, <1>3 DEF TxsIn

\* A chain with nothing of the channel, and a monitor that knows nothing.
LEMMA NothingSeen ==
    ASSUME NEW blocks \in Seq(Blocks), Valid(blocks), NEW m, Untouched(m, TxsIn(blocks)),
           m.funding_inputs \in {{}, Inputs[FundingTx]}, m.funding_outpoint = None,
           m.funding_height = None, m.funding_double_spent_height = None, m.closing_height = None
    PROVE  Matches(blocks, m)
<1>1. TxsIn(blocks) \cap {FundingTx} = {} /\ TxsIn(blocks) \cap Closings = {}
  BY NoClosing DEF Untouched
<1>2. TxsIn(blocks) \cap DoubleSpends(m.funding_inputs) = {}
  BY DEF Untouched, DoubleSpends, SpentIn
<1>. QED  BY <1>1, <1>2, OldestNowhere DEF Matches

\* A block that the monitor does not see, and that does not concern the channel.
LEMMA SkippedBlock ==
    ASSUME NEW blocks \in Seq(Blocks), NEW block \in Blocks, Valid(blocks), Fits(blocks, block),
           NEW m \in Monitors, Untouched(m, TxsIn(blocks) \cup Range(block)),
           NEW t, Good(blocks, t, m),
           NEW u, u.watches = t.watches, u.seen = t.seen, u.txid_watches = t.txid_watches
    PROVE  Good(Append(blocks, block), u, m)
<1>. DEFINE more == Append(blocks, block)
            base == m.height - Len(blocks)
<1>1. Matches(blocks, m) /\ Watched(blocks, t, m) /\ FundingTx \in t.txid_watches
  BY NoneAssumption DEF Good
<1>2. more \in Seq(Blocks) /\ Valid(more) /\ TxsIn(more) = TxsIn(blocks) \cup Range(block)
  BY ValidAdded, AppendedTxs
<1>. HIDE DEF more
<1>3. Untouched(m, TxsIn(more)) /\ Untouched(m, TxsIn(blocks))
  BY <1>2 DEF Untouched, SpentIn
<1>4. base \in Int
  BY DEF Monitors
<1>5. /\ Oldest(blocks, {FundingTx}, base, m.funding_height)
      /\ Oldest(blocks, DoubleSpends(m.funding_inputs), base, m.funding_double_spent_height)
      /\ Oldest(blocks, Closings, base, m.closing_height)
      /\ m.funding_inputs \in {{}, Inputs[FundingTx]}
      /\ m.funding_outpoint = None
  BY <1>1, <1>3 DEF Matches, Untouched
<1>6. /\ TxsIn(blocks) \cap {FundingTx} = {}
      /\ TxsIn(blocks) \cap Closings = {}
      /\ TxsIn(blocks) \cap DoubleSpends(m.funding_inputs) = {}
  BY <1>3, NoClosing DEF Untouched, DoubleSpends, SpentIn
<1>. HIDE DEF base
<1>7. m.funding_height = None /\ m.funding_double_spent_height = None /\ m.closing_height = None
  BY <1>4, <1>5, <1>6, OldestNone
<1>8. Matches(more, m)
  BY <1>2, <1>3, <1>5, <1>7, NothingSeen
<1>9. Watched(more, u, m)
  <2>1. Relevant(more, m) = m.funding_inputs /\ Relevant(blocks, m) = m.funding_inputs
    BY <1>3 DEF Relevant, Untouched
  <2>. QED  BY <2>1, <1>1, <1>3 DEF Watched, Untouched
<1>. QED  BY <1>1, <1>8, <1>9 DEF Good, more

\* A proof that covers the watches shows what concerns the channel.
LEMMA ProofTold ==
    ASSUME NEW p \in Monitors, NEW block \in Blocks, NEW txs \in SUBSET Range(block), NEW watches,
           Told(p, txs), FundingTx \in Range(block) => FundingTx \in txs,
           \A tx \in Range(block) : Inputs[tx] \cap watches # {} => tx \in txs,
           \A o \in SpentIn(Range(block)) :
               (o \in p.funding_inputs \/ o = p.funding_outpoint) => o \in watches,
           p.funding_inputs \cap SpentIn(txs) \subseteq Spent(p.decode_state.changes)
    PROVE  /\ Told(p, Range(block))
           /\ p.funding_inputs \cap SpentIn(Range(block)) \subseteq Spent(p.decode_state.changes)
<1>1. ASSUME NEW o \in SpentIn(Range(block)), o \in p.funding_inputs \/ o = p.funding_outpoint
      PROVE  \A tx \in Range(block) : o \in Inputs[tx] => tx \in txs
  BY <1>1
<1>2. p.funding_inputs \cap SpentIn(Range(block)) \subseteq SpentIn(txs)
  BY <1>1 DEF SpentIn
<1>3. (\E tx \in Range(block) : p.funding_outpoint \in Inputs[tx])
        <=> \E tx \in txs : p.funding_outpoint \in Inputs[tx]
  BY <1>1 DEF SpentIn
<1>4. SpentIn(txs) \subseteq SpentIn(Range(block)) /\ SpentIn(Range(block) \ {FundingTx}) \subseteq SpentIn(Range(block))
  BY DEF SpentIn
<1>. QED  BY <1>2, <1>3, <1>4 DEF Told

------------------------------------------------------------------------------
(* The steps                                                                *)

LEMMA InitIInv == Init => IInv
<1>. SUFFICES ASSUME Init PROVE IInv
  OBVIOUS
<1>. USE DEF Init
<1>1. tracker \in Trackers
  BY ChainTrackerAssumption DEF Trackers, NoStream
<1>2. TypeOK
  BY <1>1 DEF TypeOK
<1>3. Valid(chain)
  BY DEF Valid
<1>4. Good(chain, tracker, monitor) /\ Good(chain, disk.tracker, disk.monitor)
  BY DEF Good
<1>. QED  BY <1>2, <1>3, <1>4 DEF IInv, MessageOK, StreamOK

\* The signer stops, with its memory gone but for what Restart reads from the disk.
LEMMA StopStep ==
    ASSUME IInv, NEW s \in {"down", "monitor", "wrong block"}, status' = s, message' = None,
           UNCHANGED <<chain, tracker, monitor, disk>>
    PROVE  IInv'
<1>1. TypeOK'
  BY DEF IInv, TypeOK
<1>2. Valid(chain)' /\ Good(chain, tracker, monitor)' /\ Good(chain, disk.tracker, disk.monitor)'
  BY DEF IInv, Valid, Good, Matches, Watched, Relevant
<1>. QED  BY <1>1, <1>2 DEF IInv, MessageOK, StreamOK

\* What a step that ends with the message and the stream done has to show.
LEMMA DoneStep ==
    ASSUME TypeOK', Valid(chain'), Good(chain', tracker', monitor'), Save, message' = None,
           tracker'.stream = NoStream, status' = "up"
    PROVE  IInv'
<1>1. disk'.tracker = tracker' /\ disk'.monitor = monitor'
  BY DEF Save
<1>2. Good(chain', disk'.tracker, disk'.monitor)
  BY <1>1
<1>. QED  BY <1>2 DEF IInv, MessageOK, StreamOK

\* The sets that a block's end gives to the tracker are outpoints.
LEMMA EndType ==
    ASSUME NEW m \in Monitors
    PROVE  /\ Adds(m) \subseteq Outpoints \cup {FundingOutpoint}
           /\ Removes(m) \subseteq Outpoints \cup {FundingOutpoint}
BY DEF Adds, Removes, Spent

LEMMA MovedTracker ==
    ASSUME NEW t \in Trackers, NEW height \in Int, NEW headers \in Nat
    PROVE  LET u == [t EXCEPT !.height = height, !.headers = headers, !.stream = NoStream] IN
           /\ u \in Trackers
           /\ u.watches = t.watches
           /\ u.seen = t.seen
           /\ u.txid_watches = t.txid_watches
           /\ u.stream = NoStream
<1>1. NoStream \in [sent : Nat, hash : Seq(Blocks) \cup {None}]
  BY DEF NoStream
<1>. HIDE DEF NoStream
<1>. QED  BY <1>1 DEF Trackers

LEMMA ExtendStep ==
    ASSUME IInv, status = "up", NEW block \in Blocks, Fits(chain, block), NEW m, Extend(m, block),
           monitor = None => m = None,
           monitor # None =>
               /\ m \in Monitors
               /\ Same(monitor, m)
               /\ \/ /\ m.decode_state \in Decodes
                     /\ m.decode_state.block_hash = Append(chain, block)
                     /\ Told(m, Range(block))
                  \/ /\ is_not_ready_for_push(m)
                     /\ Untouched(m, TxsIn(chain) \cup Range(block))
    PROVE  IInv' /\ status' # "monitor"
<1>. DEFINE more == Append(chain, block)
            slot == IF m = None THEN tracker ELSE notify_listeners_add(tracker, Adds(m), Removes(m))
            last == IF m = None THEN None ELSE on_add_block_end(m)
            u == [slot EXCEPT !.height = @ + 1,
                              !.headers = IF @ < MaxReorgSize THEN @ + 1 ELSE @,
                              !.stream = NoStream]
<1>1. TypeOK /\ Valid(chain) /\ Good(chain, tracker, monitor) /\ chain \in Seq(Blocks) /\ tracker \in Trackers
  BY DEF IInv, TypeOK
<1>2. /\ slot \in Trackers
      /\ slot.txid_watches = tracker.txid_watches
      /\ m = None => slot.watches = tracker.watches /\ slot.seen = tracker.seen
      /\ m # None => /\ slot.watches = (tracker.watches \cup Adds(m)) \ Removes(m)
                     /\ slot.seen = tracker.seen \cup Removes(m)
  <2>1. CASE m = None
    BY <2>1, <1>1
  <2>2. CASE m # None
    <3>1. m \in Monitors
      BY <2>2
    <3>2. Adds(m) \subseteq Outpoints \cup {FundingOutpoint} /\ Removes(m) \subseteq Outpoints \cup {FundingOutpoint}
      BY <3>1, EndType
    <3>. QED  BY <2>2, <3>2, <1>1 DEF notify_listeners_add, Trackers
  <2>. QED  BY <2>1, <2>2
<1>. HIDE DEF slot
<1>3. /\ u \in Trackers
      /\ u.watches = slot.watches /\ u.seen = slot.seen /\ u.txid_watches = slot.txid_watches
      /\ u.stream = NoStream
  <2>. DEFINE headers == IF slot.headers < MaxReorgSize THEN slot.headers + 1 ELSE slot.headers
  <2>1. headers \in Nat /\ slot.height + 1 \in Int /\ slot \in Trackers
    BY <1>2 DEF Trackers
  <2>2. u = [slot EXCEPT !.height = slot.height + 1, !.headers = headers, !.stream = NoStream]
    OBVIOUS
  <2>. HIDE DEF headers, u
  <2>. QED  BY <2>1, <2>2, MovedTracker
<1>. HIDE DEF u
<1>4. /\ m # None => on_add_asserts(m, more)
      /\ Good(more, u, last)
      /\ last \in Monitors \cup {None}
  <2>1. CASE m = None
    BY <2>1 DEF Good
  <2>2. CASE m # None
    <3>1. monitor # None /\ m \in Monitors /\ Good(chain, tracker, m)
      BY <2>2, <1>1, GoodSame
    <3>2. CASE /\ m.decode_state \in Decodes
               /\ m.decode_state.block_hash = Append(chain, block)
               /\ Told(m, Range(block))
      <4>1. on_add_asserts(m, more) /\ Good(more, u, on_add_block_end(m))
        BY <2>2, <3>1, <3>2, <1>1, <1>2, <1>3, AddedBlock
      <4>2. on_add_block_end(m) \in Monitors
        BY <3>1, <3>2, AddedFields
      <4>. QED  BY <4>1, <4>2, <2>2
    <3>3. CASE is_not_ready_for_push(m) /\ Untouched(m, TxsIn(chain) \cup Range(block))
      <4>1. on_add_asserts(m, more) /\ on_add_block_end(m) = m
        BY <3>3 DEF on_add_asserts, on_add_block_end
      <4>2. Adds(m) = {} /\ Removes(m) = {}
        BY <3>3 DEF Adds, Removes
      <4>3. u.watches = tracker.watches /\ u.seen = tracker.seen /\ u.txid_watches = tracker.txid_watches
        BY <4>2, <2>2, <1>2, <1>3
      <4>4. Good(more, u, m)
        BY <3>1, <3>3, <4>3, <1>1, SkippedBlock
      <4>. QED  BY <4>1, <4>4, <2>2, <3>1
    <3>. QED  BY <3>1, <3>2, <3>3
  <2>. QED  BY <2>1, <2>2
<1>5. /\ chain' = more /\ monitor' = last /\ tracker' = u /\ message' = None /\ Save /\ status' = "up"
  BY <1>4 DEF Extend, u, slot
<1>6. TypeOK'
  <2>1. more \in Seq(Blocks)
    BY <1>1
  <2>. QED  BY <2>1, <1>1, <1>3, <1>4, <1>5 DEF TypeOK, Save
<1>7. Valid(chain')
  BY <1>1, <1>5, ValidAdded
<1>. QED  BY <1>3, <1>4, <1>5, <1>6, <1>7, DoneStep

LEMMA RetractStep ==
    ASSUME IInv, status = "up", chain # <<>>, tracker.headers > 0,
           NEW m, NEW hash, Retract(m, hash),
           monitor = None => m = None,
           monitor # None =>
               /\ m \in Monitors
               /\ Same(monitor, m)
               /\ m.decode_state \in Decodes
               /\ m.decode_state.block_hash = hash
               /\ Told(m, Range(Last(chain)))
               /\ m.funding_inputs \cap SpentIn(Range(Last(chain))) \subseteq Spent(m.decode_state.changes)
    PROVE  IInv' /\ (SpendsOne(Last(chain)) => status' # "monitor")
<1>. DEFINE less == Front(chain)  block == Last(chain)
            slot == IF m = None THEN tracker ELSE notify_listeners_remove(tracker, Adds(m), Removes(m))
            last == IF m = None THEN None ELSE on_remove_block_end(m)
            u == [slot EXCEPT !.height = @ - 1, !.headers = @ - 1, !.stream = NoStream]
<1>1. TypeOK /\ Valid(chain) /\ Good(chain, tracker, monitor) /\ chain \in Seq(Blocks) /\ tracker \in Trackers
  BY DEF IInv, TypeOK
<1>2. less \in Seq(Blocks) /\ block \in Blocks /\ chain = Append(less, block)
  BY <1>1, FrontAndLast
<1>. HIDE DEF less, block
<1>3. Valid(less) /\ Fits(less, block)
  BY <1>2, <1>1, ValidRemoved
<1>4. /\ slot \in Trackers
      /\ slot.headers = tracker.headers
      /\ slot.txid_watches = tracker.txid_watches
      /\ m # None => /\ slot.watches = (tracker.watches \cup Removes(m)) \ Adds(m)
                     /\ slot.seen = tracker.seen \ Removes(m)
  <2>1. CASE m = None
    BY <2>1, <1>1
  <2>2. CASE m # None
    <3>1. m \in Monitors
      BY <2>2
    <3>2. Adds(m) \subseteq Outpoints \cup {FundingOutpoint} /\ Removes(m) \subseteq Outpoints \cup {FundingOutpoint}
      BY <3>1, EndType
    <3>. QED  BY <2>2, <3>2, <1>1 DEF notify_listeners_remove, Trackers
  <2>. QED  BY <2>1, <2>2
<1>. HIDE DEF slot
<1>5. /\ u \in Trackers
      /\ u.watches = slot.watches /\ u.seen = slot.seen /\ u.txid_watches = slot.txid_watches
      /\ u.stream = NoStream
  <2>1. slot.headers - 1 \in Nat /\ slot.height - 1 \in Int /\ slot \in Trackers
    BY <1>1, <1>4 DEF Trackers
  <2>2. u = [slot EXCEPT !.height = slot.height - 1, !.headers = slot.headers - 1, !.stream = NoStream]
    OBVIOUS
  <2>. HIDE DEF u
  <2>. QED  BY <2>1, <2>2, MovedTracker
<1>. HIDE DEF u
<1>6. /\ SpendsOne(block) => (m # None => on_remove_asserts(m, hash))
      /\ Good(less, u, last)
      /\ last \in Monitors \cup {None}
  <2>1. CASE m = None
    BY <2>1 DEF Good
  <2>2. CASE m # None
    <3>1. monitor # None /\ m \in Monitors /\ Good(chain, tracker, m)
      BY <2>2, <1>1, GoodSame
    <3>2. (SpendsOne(block) => on_remove_asserts(m, m.decode_state.block_hash)) /\ Good(less, u, on_remove_block_end(m))
      BY <2>2, <3>1, <1>2, <1>4, <1>5, <1>3, RemovedBlock DEF block
    <3>3. on_remove_block_end(m) \in Monitors
      BY <3>1, RemovedFields
    <3>. QED  BY <3>1, <3>2, <3>3, <2>2
  <2>. QED  BY <2>1, <2>2
<1>7. CASE m # None => on_remove_asserts(m, hash)
  <2>1. /\ chain' = less /\ monitor' = last /\ tracker' = u /\ message' = None /\ Save /\ status' = "up"
    BY <1>7 DEF Retract, u, slot, less
  <2>2. TypeOK'
    BY <2>1, <1>2, <1>1, <1>5, <1>6 DEF TypeOK, Save
  <2>. QED  BY <2>1, <2>2, <1>5, <1>6, <1>3, DoneStep
<1>8. CASE ~(m # None => on_remove_asserts(m, hash))
  <2>1. Panic("monitor")
    BY <1>8 DEF Retract
  <2>2. ~SpendsOne(block)
    BY <1>6, <1>8
  <2>. QED  BY <2>1, <2>2, StopStep DEF Panic, block
<1>. QED  BY <1>7, <1>8

\* What the invariant says of the message and the stream of a signer that is up.
LEMMA MessageFacts ==
    ASSUME IInv, message # None
    PROVE  /\ message \in Messages
           /\ message.block \in Blocks
           /\ message.txs \subseteq Txs
BY DEF IInv, TypeOK, Messages

LEMMA ReadyChannelStep == ASSUME IInv, NEW vout \in Vouts, ReadyChannel(vout) PROVE IInv'
<1>. DEFINE m == ChainMonitor_new(tracker.height, vout)
            u == [tracker EXCEPT !.txid_watches = {FundingTx}, !.watches = {}, !.seen = {}]
<1>1. /\ TypeOK /\ Valid(chain) /\ MessageOK /\ StreamOK /\ chain \in Seq(Blocks) /\ tracker \in Trackers
  BY DEF IInv, TypeOK
<1>2. /\ status = "up" /\ status' = "up" /\ monitor = None /\ monitor' = m /\ tracker' = u
      /\ Save /\ chain' = chain /\ message' = message
      /\ FundingTx \notin TxsIn(chain) \cup OnItsWay
  BY DEF ReadyChannel
<1>3. u \in Trackers /\ u.stream = tracker.stream
      /\ u.txid_watches = {FundingTx} /\ u.watches = {} /\ u.seen = {}
  BY <1>1, ChainMonitorAssumption DEF Trackers
<1>4. m \in Monitors
  <2>1. tracker.height \in Int
    BY <1>1 DEF Trackers
  <2>. QED  BY <2>1 DEF ChainMonitor_new, Monitors, Heights
<1>5. m # None /\ m.funding_inputs = {} /\ m.funding_outpoint = None /\ m.decode_state = None /\ ~m.saw_block
      /\ m.funding_height = None /\ m.funding_double_spent_height = None /\ m.closing_height = None
  BY <1>4, NoneAssumption DEF ChainMonitor_new
<1>. HIDE DEF m, u
<1>6. Good(chain, u, m)
  <2>1. Untouched(m, TxsIn(chain))
    BY <1>2, <1>5 DEF Untouched
  <2>2. Matches(chain, m)
    BY <2>1, <1>1, <1>5, NothingSeen
  <2>3. Relevant(chain, m) = {}
    BY <1>2, <1>5 DEF Relevant
  <2>. QED  BY <2>2, <2>3, <1>3 DEF Good, Watched
<1>7. TypeOK'
  BY <1>1, <1>2, <1>3, <1>4 DEF TypeOK, Save
<1>8. disk'.tracker = u /\ disk'.monitor = m
  BY <1>2 DEF Save
<1>9. message # None => FundingTx \notin Range(message.block)
  BY <1>2 DEF OnItsWay
<1>10. MessageOK'
  BY <1>1, <1>2, <1>3, <1>9 DEF MessageOK
<1>11. StreamOK'
  <2>. SUFFICES ASSUME tracker.stream # NoStream
                PROVE  /\ message # None
                       /\ message.kind \in {"add", "remove"}
                       /\ tracker.stream.sent \in 0..Len(message.block)
                       /\ tracker.stream.hash =
                             IF message.kind = "add" THEN Append(chain, message.block) ELSE chain
                       /\ Untouched(m, TxsIn(chain) \cup Range(message.block))
    BY <1>2, <1>3, <1>5 DEF StreamOK
  <2>1. message # None
    BY <1>1, <1>2 DEF StreamOK
  <2>2. Untouched(m, TxsIn(chain) \cup Range(message.block))
    BY <2>1, <1>2, <1>5, <1>9 DEF Untouched
  <2>. QED  BY <2>2, <1>1, <1>2 DEF StreamOK
<1>. QED  BY <1>1, <1>2, <1>6, <1>7, <1>8, <1>10, <1>11 DEF IInv

LEMMA FundingSignedStep == ASSUME IInv, FundingSigned PROVE IInv'
<1>. DEFINE m == add_funding_inputs(monitor)
            u == [tracker EXCEPT !.watches = @ \cup Inputs[FundingTx]]
            own == Inputs[FundingTx]
            near == TxsIn(chain) \cup (IF tracker.stream = NoStream THEN {} ELSE OnItsWay)
<1>1. /\ TypeOK /\ Valid(chain) /\ MessageOK /\ StreamOK /\ chain \in Seq(Blocks)
      /\ tracker \in Trackers /\ Good(chain, tracker, monitor)
  BY DEF IInv, TypeOK
<1>2. /\ status = "up" /\ status' = "up" /\ monitor # None /\ monitor' = m /\ tracker' = u
      /\ Save /\ chain' = chain /\ message' = message
      /\ \A tx \in near \ {FundingTx} : Inputs[tx] \cap own = {}
  BY DEF FundingSigned
<1>3. monitor \in Monitors
  BY <1>1, <1>2 DEF TypeOK
<1>4. own \subseteq Outpoints
  BY ChainMonitorAssumption
<1>5. u \in Trackers /\ u.stream = tracker.stream /\ u.txid_watches = tracker.txid_watches
      /\ u.watches = tracker.watches \cup own /\ u.seen = tracker.seen
  BY <1>1, <1>4 DEF Trackers
<1>6. /\ Matches(chain, monitor) /\ Watched(chain, tracker, monitor) /\ FundingTx \in tracker.txid_watches
      /\ monitor.funding_inputs \in {{}, own}
  BY <1>1, <1>2 DEF Good, Matches
<1>7. /\ m \in Monitors
      /\ m.funding_inputs = own
      /\ m.height = monitor.height
      /\ m.funding_height = monitor.funding_height
      /\ m.funding_outpoint = monitor.funding_outpoint
      /\ m.funding_double_spent_height = monitor.funding_double_spent_height
      /\ m.closing_height = monitor.closing_height
      /\ m.saw_block = monitor.saw_block
      /\ m.decode_state = monitor.decode_state
  <2>1. m = [monitor EXCEPT !.funding_inputs = monitor.funding_inputs \cup own]
    BY DEF add_funding_inputs
  <2>2. monitor.funding_inputs \cup own = own
    BY <1>6
  <2>. HIDE DEF m, own
  <2>. QED  BY <2>1, <2>2, <1>3, <1>4 DEF Monitors
<1>8. m # None
  BY <1>7, NoneAssumption
<1>. HIDE DEF m, u
<1>9. Matches(chain, m)
  <2>. DEFINE base == monitor.height - Len(chain)
  <2>1. Oldest(chain, DoubleSpends(own), base, monitor.funding_double_spent_height)
    <3>1. Oldest(chain, DoubleSpends(monitor.funding_inputs), base, monitor.funding_double_spent_height)
      BY <1>6 DEF Matches
    <3>2. CASE monitor.funding_inputs = own
      BY <3>1, <3>2
    <3>3. CASE monitor.funding_inputs = {}
      <4>1. base \in Int
        BY <1>1, <1>3 DEF Monitors
      <4>2. TxsIn(chain) \cap DoubleSpends(monitor.funding_inputs) = {}
        BY <3>3 DEF DoubleSpends
      <4>3. monitor.funding_double_spent_height = None
        BY <3>1, <4>1, <4>2, <1>1, OldestNone
      <4>4. TxsIn(chain) \cap DoubleSpends(own) = {}
        BY <1>2 DEF DoubleSpends
      <4>. QED  BY <4>3, <4>4, OldestNowhere
    <3>. QED  BY <3>2, <3>3, <1>6
  <2>. QED  BY <2>1, <1>6, <1>7 DEF Matches
<1>10. Watched(chain, u, m)
  <2>1. Relevant(chain, m) \subseteq Relevant(chain, monitor) \cup own
    BY <1>7 DEF Relevant
  <2>. QED  BY <2>1, <1>5, <1>6 DEF Watched
<1>11. Good(chain, u, m)
  BY <1>5, <1>6, <1>9, <1>10 DEF Good
<1>12. TypeOK'
  BY <1>1, <1>2, <1>5, <1>7 DEF TypeOK, Save
<1>13. disk'.tracker = u /\ disk'.monitor = m
  BY <1>2 DEF Save
<1>14. MessageOK'
  BY <1>1, <1>2, <1>5 DEF MessageOK
<1>15. StreamOK'
  <2>. SUFFICES ASSUME tracker.stream # NoStream
                PROVE  /\ message # None
                       /\ message.kind \in {"add", "remove"}
                       /\ tracker.stream.sent \in 0..Len(message.block)
                       /\ tracker.stream.hash =
                             IF message.kind = "add" THEN Append(chain, message.block) ELSE chain
                       /\ IF m.decode_state = None
                          THEN ~m.saw_block /\ Untouched(m, TxsIn(chain) \cup Range(message.block))
                          ELSE /\ m.decode_state.block_hash = tracker.stream.hash
                               /\ Told(m, {message.block[k] : k \in 1..tracker.stream.sent})
    BY <1>2, <1>5 DEF StreamOK
  <2>1. /\ message # None
        /\ message.kind \in {"add", "remove"}
        /\ tracker.stream.sent \in 0..Len(message.block)
        /\ tracker.stream.hash = IF message.kind = "add" THEN Append(chain, message.block) ELSE chain
        /\ IF monitor.decode_state = None
           THEN ~monitor.saw_block /\ Untouched(monitor, TxsIn(chain) \cup Range(message.block))
           ELSE /\ monitor.decode_state.block_hash = tracker.stream.hash
                /\ Told(monitor, {message.block[k] : k \in 1..tracker.stream.sent})
    BY <1>1, <1>2 DEF StreamOK
  <2>2. near = TxsIn(chain) \cup Range(message.block)
    BY <2>1 DEF OnItsWay
  <2>3. ASSUME monitor.decode_state = None
        PROVE  ~m.saw_block /\ Untouched(m, TxsIn(chain) \cup Range(message.block))
    <3>1. FundingTx \notin near /\ ~monitor.saw_block
      BY <2>1, <2>2, <2>3 DEF Untouched
    <3>2. own \cap SpentIn(near) = {}
      BY <3>1, <1>2 DEF SpentIn
    <3>. QED  BY <3>1, <3>2, <2>2, <1>7 DEF Untouched
  <2>4. ASSUME monitor.decode_state # None
        PROVE  Told(m, {message.block[k] : k \in 1..tracker.stream.sent})
    <3>. DEFINE txs == {message.block[k] : k \in 1..tracker.stream.sent}
    <3>1. Told(monitor, txs)
      BY <2>1, <2>4
    <3>2. txs \subseteq near
      <4>1. message.block \in Blocks
        BY <2>1, MessageFacts
      <4>2. Range(message.block) = {message.block[k] : k \in 1..Len(message.block)}
            /\ Len(message.block) \in Nat
        BY <4>1, BlockTxs
      <4>3. 1..tracker.stream.sent \subseteq 1..Len(message.block)
        BY <4>2, <2>1
      <4>. QED  BY <4>2, <4>3, <2>2
    <3>3. own \cap SpentIn(txs \ {FundingTx}) = {}
      BY <3>2, <1>2 DEF SpentIn
    <3>4. monitor.funding_inputs \subseteq own
      BY <1>6
    <3>. HIDE DEF txs
    <3>5. Told(m, txs)
      BY <3>1, <3>3, <3>4, <1>7 DEF Told
    <3>. QED  BY <3>5 DEF txs
  <2>. QED  BY <2>1, <2>3, <2>4, <1>7
<1>. QED  BY <1>1, <1>2, <1>11, <1>12, <1>13, <1>14, <1>15 DEF IInv

LEMMA ProveAddStep == ASSUME IInv, NEW block \in Blocks, ProveAdd(block) PROVE IInv'
<1>1. /\ TypeOK /\ Valid(chain) /\ Good(chain, tracker, monitor) /\ Good(chain, disk.tracker, disk.monitor)
  BY DEF IInv
<1>2. /\ status = "up" /\ tracker.stream = NoStream /\ ValidOn(chain, block)
      /\ message' = [kind |-> "AddBlock", block |-> block, txs |-> Proved(block, get_all_forward_watches)]
      /\ UNCHANGED <<chain, tracker, monitor, disk, status>>
  BY DEF ProveAdd
<1>. DEFINE txs == Proved(block, get_all_forward_watches)
<1>3. txs \subseteq Range(block) /\ (FundingTx \in Range(block) /\ FundingTx \in tracker.txid_watches => FundingTx \in txs)
  BY DEF Proved
<1>4. txs \subseteq Txs
  BY <1>3, BlockTxs
<1>. HIDE DEF txs
<1>5. message' = [kind |-> "AddBlock", block |-> block, txs |-> txs]
  BY <1>2 DEF txs
<1>6. message' \in Messages
  BY <1>4, <1>5 DEF Messages
<1>7. TypeOK'
  BY <1>1, <1>2, <1>6 DEF TypeOK
<1>8. monitor # None => FundingTx \in tracker.txid_watches
  BY <1>1 DEF Good
<1>9. MessageOK'
  <2>1. message'.kind = "AddBlock" /\ message'.block = block /\ message'.txs = txs
    BY <1>5
  <2>2. ValidOn(chain', block)
    BY <1>2
  <2>. QED  BY <1>2, <1>3, <1>8, <2>1, <2>2 DEF MessageOK
<1>10. StreamOK'
  BY <1>2 DEF StreamOK
<1>. QED  BY <1>1, <1>2, <1>7, <1>9, <1>10 DEF IInv

LEMMA ProveRemoveStep == ASSUME IInv, ProveRemove PROVE IInv'
<1>. DEFINE block == Last(chain)
            txs == Proved(block, get_all_reverse_watches)
<1>1. /\ TypeOK /\ Valid(chain) /\ Good(chain, tracker, monitor) /\ Good(chain, disk.tracker, disk.monitor)
  BY DEF IInv
<1>2. /\ status = "up" /\ tracker.stream = NoStream /\ chain # <<>>
      /\ message' = [kind |-> "RemoveBlock", block |-> block, txs |-> txs]
      /\ UNCHANGED <<chain, tracker, monitor, disk, status>>
  BY DEF ProveRemove
<1>3. block \in Blocks
  BY <1>1, <1>2, FrontAndLast DEF TypeOK
<1>4. txs \subseteq Range(block) /\ (FundingTx \in Range(block) /\ FundingTx \in tracker.txid_watches => FundingTx \in txs)
  BY DEF Proved
<1>5. txs \subseteq Txs
  BY <1>3, <1>4, BlockTxs
<1>. HIDE DEF txs, block
<1>6. message' \in Messages
  BY <1>3, <1>2, <1>5 DEF Messages
<1>7. TypeOK'
  BY <1>1, <1>2, <1>6 DEF TypeOK
<1>8. monitor # None => FundingTx \in tracker.txid_watches
  BY <1>1 DEF Good
<1>9. MessageOK'
  <2>1. message'.kind = "RemoveBlock" /\ message'.block = block /\ message'.txs = txs
    BY <1>2
  <2>2. chain' # <<>> /\ block = Last(chain')
    BY <1>2 DEF block
  <2>. QED  BY <1>2, <1>4, <1>8, <2>1, <2>2 DEF MessageOK
<1>10. StreamOK'
  BY <1>2 DEF StreamOK
<1>. QED  BY <1>1, <1>2, <1>7, <1>9, <1>10 DEF IInv

LEMMA AddBlockStep ==
    ASSUME IInv, \A block \in Blocks : ClosesLater(block), AddBlock
    PROVE  IInv' /\ (Digests(monitor, message.txs) => status' # "monitor")
<1>. DEFINE block == message.block  txs == message.txs  more == Append(chain, block)
            p == Pushed(monitor, more, txs)
            watches == get_all_forward_watches
<1>1. /\ TypeOK /\ MessageOK /\ chain \in Seq(Blocks) /\ Good(chain, tracker, monitor)
  BY DEF IInv, TypeOK
<1>2. status = "up" /\ message # None /\ message.kind = "AddBlock"
  BY DEF AddBlock
<1>3. /\ ValidOn(chain, block) /\ txs \subseteq Range(block)
      /\ (monitor # None /\ FundingTx \in Range(block)) => FundingTx \in txs
  BY <1>1, <1>2 DEF MessageOK
<1>4. block \in Blocks /\ txs \in SUBSET Txs
  BY <1>2, MessageFacts
<1>5. Fits(chain, block)
  BY <1>1, <1>3, <1>4, ValidOnFits
<1>6. more \in Seq(Blocks)
  BY <1>1, <1>4
<1>7. CASE ~ProofCovers(block, txs, watches)
  <2>1. Refuse
    BY <1>7 DEF AddBlock
  <2>. QED  BY <2>1, StopStep DEF Refuse
<1>8. CASE ProofCovers(block, txs, watches) /\ ~Digests(monitor, txs)
  <2>1. Panic("monitor")
    BY <1>8 DEF AddBlock
  <2>. QED  BY <2>1, <1>8, StopStep DEF Panic
<1>9. CASE ProofCovers(block, txs, watches) /\ Digests(monitor, txs)
  <2>1. Extend(IF monitor = None THEN None ELSE p, block)
    BY <1>9 DEF AddBlock
  <2>2. CASE monitor = None
    <3>1. Extend(None, block)
      BY <2>1, <2>2
    <3>. QED  BY <3>1, <2>2, <1>2, <1>4, <1>5, ExtendStep
  <2>3. CASE monitor # None
    <3>1. monitor \in Monitors
      BY <2>3, <1>1 DEF TypeOK
    <3>. HIDE DEF block, txs, more, watches
    <3>2. /\ p \in Monitors
          /\ Same(monitor, p)
          /\ p.decode_state \in Decodes
          /\ p.decode_state.block_hash = more
          /\ Told(p, txs)
          /\ monitor.funding_inputs \cap SpentIn(txs) \subseteq Spent(p.decode_state.changes)
      BY <3>1, <1>4, <1>6, PushedMonitor
    <3>. HIDE DEF p
    <3>3. Matches(chain, monitor) /\ Watched(chain, tracker, monitor)
      BY <2>3, <1>1 DEF Good
    <3>4. ASSUME NEW o \in SpentIn(Range(block)), o \in p.funding_inputs \/ o = p.funding_outpoint
          PROVE  o \in watches
      <4>1. o \notin SpentIn(TxsIn(chain))
        BY <1>1, <1>4, <1>5, <3>3, FitsFacts DEF Matches
      <4>2. o # None
        <5>1. \A tx \in Range(block) : None \notin Inputs[tx]
          BY <1>4, BlockTxs, ChainMonitorAssumption
        <5>. QED  BY <5>1 DEF SpentIn
      <4>3. o \in Relevant(chain, monitor)
        BY <3>2, <3>3, <3>4, <4>2 DEF Same, Matches, Relevant
      <4>. QED  BY <4>1, <4>3, <3>3 DEF Watched, watches, get_all_forward_watches
    <3>5. \A tx \in Range(block) : Inputs[tx] \cap watches # {} => tx \in txs
      BY <1>9 DEF ProofCovers
    <3>6. FundingTx \in Range(block) => FundingTx \in txs
      BY <2>3, <1>3 DEF block, txs
    <3>7. p.funding_inputs \cap SpentIn(txs) \subseteq Spent(p.decode_state.changes)
      BY <3>2 DEF Same
    <3>8. Told(p, Range(block))
      BY <1>3, <1>4, <3>2, <3>4, <3>5, <3>6, <3>7, ProofTold DEF block, txs
    <3>9. Extend(p, block)
      BY <2>1, <2>3 DEF p, more, txs, block
    <3>. QED  BY <1>2, <1>4, <1>5, <2>3, <3>2, <3>8, <3>9, ExtendStep DEF block, more
  <2>. QED  BY <2>2, <2>3
<1>. QED  BY <1>7, <1>9, <1>8

LEMMA RemoveBlockStep ==
    ASSUME IInv, RemoveBlock
    PROVE  /\ IInv'
           /\ ((\A block \in Blocks : SpendsOne(block)) /\ Digests(monitor, message.txs))
                 => status' # "monitor"
<1>. DEFINE block == message.block  txs == message.txs  less == Front(chain)
            p == Pushed(monitor, less, txs)
            watches == get_all_reverse_watches
            covers == tracker.headers > 0 /\ ProofCovers(block, txs, watches)
<1>1. /\ TypeOK /\ MessageOK /\ chain \in Seq(Blocks) /\ Good(chain, tracker, monitor)
  BY DEF IInv, TypeOK
<1>2. status = "up" /\ message # None /\ message.kind = "RemoveBlock"
  BY DEF RemoveBlock
<1>3. /\ chain # <<>> /\ block = Last(chain) /\ txs \subseteq Range(block)
      /\ (monitor # None /\ FundingTx \in Range(block)) => FundingTx \in txs
  BY <1>1, <1>2 DEF MessageOK
<1>4. block \in Blocks /\ txs \in SUBSET Txs
  BY <1>2, MessageFacts
<1>5. less \in Seq(Blocks) /\ chain = Append(less, block)
  BY <1>1, <1>3, FrontAndLast
<1>6. (\A b \in Blocks : SpendsOne(b)) => SpendsOne(Last(chain))
  BY <1>3, <1>4
<1>7. CASE ~covers
  <2>1. tracker.headers \in Nat
    BY <1>1 DEF TypeOK, Trackers
  <2>2. Refuse
    BY <2>1, <1>7 DEF RemoveBlock
  <2>. QED  BY <2>2, StopStep DEF Refuse
<1>8. CASE covers /\ ~Digests(monitor, txs)
  <2>1. Panic("monitor")
    BY <1>8 DEF RemoveBlock
  <2>. QED  BY <2>1, <1>8, StopStep DEF Panic
<1>9. CASE covers /\ Digests(monitor, txs)
  <2>1. Retract(IF monitor = None THEN None ELSE p, less)
    BY <1>9 DEF RemoveBlock, tip_block_hash
  <2>2. CASE monitor = None
    <3>1. Retract(None, less)
      BY <2>1, <2>2
    <3>. HIDE DEF less
    <3>. QED  BY <3>1, <2>2, <1>2, <1>3, <1>6, <1>9, RetractStep
  <2>3. CASE monitor # None
    <3>1. monitor \in Monitors
      BY <2>3, <1>1 DEF TypeOK
    <3>. HIDE DEF block, txs, less, watches
    <3>2. /\ p \in Monitors
          /\ Same(monitor, p)
          /\ p.decode_state \in Decodes
          /\ p.decode_state.block_hash = less
          /\ Told(p, txs)
          /\ monitor.funding_inputs \cap SpentIn(txs) \subseteq Spent(p.decode_state.changes)
      BY <3>1, <1>4, <1>5, PushedMonitor
    <3>. HIDE DEF p
    <3>3. Matches(chain, monitor) /\ Watched(chain, tracker, monitor)
      BY <2>3, <1>1 DEF Good
    <3>4. ASSUME NEW o \in SpentIn(Range(block)), o \in p.funding_inputs \/ o = p.funding_outpoint
          PROVE  o \in watches
      <4>1. o \in SpentIn(TxsIn(chain))
        <5>1. TxsIn(chain) = TxsIn(less) \cup Range(block)
          BY <1>4, <1>5, AppendedTxs
        <5>. QED  BY <5>1, <3>4 DEF SpentIn
      <4>2. o # None
        <5>1. \A tx \in Range(block) : None \notin Inputs[tx]
          BY <1>4, BlockTxs, ChainMonitorAssumption
        <5>. QED  BY <5>1 DEF SpentIn
      <4>3. o \in Relevant(chain, monitor)
        BY <3>2, <3>3, <3>4, <4>2 DEF Same, Matches, Relevant
      <4>. QED  BY <4>1, <4>3, <3>3 DEF Watched, watches, get_all_reverse_watches
    <3>5. \A tx \in Range(block) : Inputs[tx] \cap watches # {} => tx \in txs
      BY <1>9 DEF ProofCovers
    <3>6. FundingTx \in Range(block) => FundingTx \in txs
      BY <2>3, <1>3 DEF block, txs
    <3>7. p.funding_inputs \cap SpentIn(txs) \subseteq Spent(p.decode_state.changes)
      BY <3>2 DEF Same
    <3>8. /\ Told(p, Range(block))
          /\ p.funding_inputs \cap SpentIn(Range(block)) \subseteq Spent(p.decode_state.changes)
      BY <1>3, <1>4, <3>2, <3>4, <3>5, <3>6, <3>7, ProofTold DEF block, txs
    <3>9. Retract(p, less)
      BY <2>1, <2>3
    <3>10. block = Last(chain)
      BY <1>3 DEF block
    <3>. QED  BY <1>2, <1>3, <1>6, <1>9, <2>3, <3>2, <3>8, <3>9, <3>10, RetractStep
  <2>. QED  BY <2>2, <2>3
<1>. QED  BY <1>7, <1>9, <1>8

LEMMA StreamBlockStep ==
    ASSUME IInv, NEW direction \in Streaming, NEW block \in Blocks, StreamBlock(direction, block)
    PROVE  IInv'
<1>. DEFINE hash == IF direction = "add" THEN Append(chain, block) ELSE chain
            stream == [sent |-> 0, hash |-> hash]
            u == [tracker EXCEPT !.stream = stream]
            m == IF monitor = None THEN None ELSE on_block_start(monitor, hash)
<1>1. /\ TypeOK /\ Valid(chain) /\ Good(chain, tracker, monitor) /\ Good(chain, disk.tracker, disk.monitor)
      /\ chain \in Seq(Blocks) /\ tracker \in Trackers
  BY DEF IInv, TypeOK
<1>2. /\ status = "up" /\ tracker' = u /\ monitor' = m /\ UNCHANGED <<chain, disk, status>>
      /\ message' = [kind |-> direction, block |-> block, txs |-> Range(block)]
  BY DEF StreamBlock, TipHash
<1>3. direction \in {"add", "remove"}
  BY ChainTrackerAssumption
<1>4. /\ direction = "add" => ValidOn(chain, block)
      /\ direction = "remove" => chain # <<>> /\ block = Last(chain)
  BY DEF StreamBlock
<1>5. hash \in Seq(Blocks)
  BY <1>1
<1>6. stream \in [sent : Nat, hash : Seq(Blocks) \cup {None}] /\ stream.sent = 0 /\ stream.hash = hash
  BY <1>5
<1>. HIDE DEF hash
<1>7. u \in Trackers /\ u.stream = stream /\ u.watches = tracker.watches
      /\ u.seen = tracker.seen /\ u.txid_watches = tracker.txid_watches
  <2>. HIDE DEF stream
  <2>. QED  BY <1>1, <1>6 DEF Trackers
<1>8. message' \in Messages /\ message'.kind = direction /\ message'.block = block
  BY <1>2, <1>3, BlockTxs DEF Messages
<1>9. monitor # None =>
        /\ m \in Monitors
        /\ Same(monitor, m)
        /\ m.decode_state \in Decodes
        /\ m.decode_state.block_hash = hash
        /\ Told(m, {})
  BY <1>1, <1>5, StartedMonitor DEF TypeOK
<1>10. Good(chain, u, m) /\ m \in Monitors \cup {None} /\ (m # None <=> monitor # None)
  <2>1. CASE monitor = None
    BY <2>1 DEF Good
  <2>2. CASE monitor # None
    <3>1. m \in Monitors
      BY <2>2, <1>9
    <3>2. m # None
      BY <3>1, NoneAssumption
    <3>3. Good(chain, u, m)
      <4>. HIDE DEF m, u
      <4>. QED  BY <2>2, <1>1, <1>7, <1>9, GoodSame
    <3>. QED  BY <2>2, <3>1, <3>2, <3>3
  <2>. QED  BY <2>1, <2>2
<1>. HIDE DEF m, u, stream
<1>11. TypeOK'
  BY <1>1, <1>2, <1>7, <1>8, <1>10 DEF TypeOK
<1>12. message' # None
  BY <1>8, NoneAssumption
<1>13. MessageOK'
  <2>1. direction = "add" => ValidOn(chain', block)
    BY <1>2, <1>4
  <2>. QED  BY <1>2, <1>3, <1>4, <1>8, <2>1 DEF MessageOK
<1>14. StreamOK'
  <2>1. {block[k] : k \in 1..0} = {}
    OBVIOUS
  <2>2. 0 \in 0..Len(block)
    BY BlockTxs
  <2>3. hash = IF direction = "add" THEN Append(chain, block) ELSE chain
    BY DEF hash
  <2>4. monitor' # None => m.decode_state # None
    BY <1>2, <1>9, <1>10, NoneAssumption
  <2>5. /\ tracker'.stream.sent = 0 /\ tracker'.stream.hash = hash
        /\ message'.kind = direction /\ message'.block = block
        /\ monitor' = m /\ chain' = chain
    BY <1>2, <1>6, <1>7, <1>8
  <2>6. monitor' # None => m.decode_state.block_hash = hash /\ Told(m, {block[k] : k \in 1..0})
    BY <2>1, <1>2, <1>9, <1>10
  <2>. QED  BY <2>2, <2>3, <2>4, <2>5, <2>6, <1>3, <1>12 DEF StreamOK
<1>. QED  BY <1>1, <1>2, <1>7, <1>10, <1>11, <1>13, <1>14 DEF IInv

LEMMA BlockChunkStep == ASSUME IInv, BlockChunk PROVE IInv'
<1>. DEFINE block == message.block  sent == tracker.stream.sent
            tx == block[sent + 1]
            asserts == monitor # None => on_transaction_asserts(monitor, tx)
<1>. SUFFICES ASSUME asserts PROVE IInv'
  <2>1. CASE ~asserts
    <3>1. Panic("monitor")
      BY <2>1 DEF BlockChunk
    <3>. QED  BY <3>1, StopStep DEF Panic
  <2>. QED  BY <2>1
<1>. DEFINE u == [tracker EXCEPT !.stream.sent = @ + 1]
            m == IF monitor = None THEN None ELSE on_transaction(monitor, tx)
            txs == {block[k] : k \in 1..sent}
<1>1. /\ TypeOK /\ Valid(chain) /\ Good(chain, tracker, monitor) /\ Good(chain, disk.tracker, disk.monitor)
      /\ chain \in Seq(Blocks) /\ tracker \in Trackers /\ MessageOK /\ StreamOK
  BY DEF IInv, TypeOK
<1>2. /\ status = "up" /\ tracker.stream # NoStream /\ sent < Len(block)
      /\ tracker' = u /\ monitor' = m /\ UNCHANGED <<chain, message, disk, status>>
  BY DEF BlockChunk
<1>3. /\ message # None
      /\ message.kind \in {"add", "remove"}
      /\ sent \in 0..Len(block)
      /\ tracker.stream.hash = IF message.kind = "add" THEN Append(chain, block) ELSE chain
      /\ monitor # None =>
            IF monitor.decode_state = None
            THEN ~monitor.saw_block /\ Untouched(monitor, TxsIn(chain) \cup Range(block))
            ELSE monitor.decode_state.block_hash = tracker.stream.hash /\ Told(monitor, txs)
  BY <1>1, <1>2 DEF StreamOK
<1>4. block \in Blocks /\ block \in Seq(Txs) /\ Len(block) \in Nat
  BY <1>3, MessageFacts, BlockTxs
<1>5. sent \in Nat /\ sent + 1 \in 1..Len(block) /\ sent + 1 \in 0..Len(block)
  BY <1>2, <1>3, <1>4
<1>6. tx \in Txs /\ txs \in SUBSET Txs
  <2>1. \A k \in 1..sent : k \in 1..Len(block)
    BY <1>4, <1>5
  <2>2. \A k \in 1..Len(block) : block[k] \in Txs
    BY <1>4
  <2>. QED  BY <2>1, <2>2, <1>5
<1>7. txs \cup {tx} = {block[k] : k \in 1..(sent + 1)}
  <2>1. \A k : k \in 1..(sent + 1) <=> k \in 1..sent \/ k = sent + 1
    BY <1>5
  <2>. QED  BY <2>1
<1>8. /\ u \in Trackers /\ u.stream.sent = sent + 1 /\ u.stream.hash = tracker.stream.hash
      /\ u.watches = tracker.watches /\ u.seen = tracker.seen /\ u.txid_watches = tracker.txid_watches
  <2>. DEFINE stream == [tracker.stream EXCEPT !.sent = sent + 1]
  <2>1. tracker.stream \in [sent : Nat, hash : Seq(Blocks) \cup {None}]
    BY <1>1 DEF Trackers
  <2>2. /\ stream \in [sent : Nat, hash : Seq(Blocks) \cup {None}]
        /\ stream.sent = sent + 1 /\ stream.hash = tracker.stream.hash
    BY <2>1, <1>5
  <2>3. u = [tracker EXCEPT !.stream = stream]
    OBVIOUS
  <2>. HIDE DEF stream, u
  <2>. QED  BY <2>2, <2>3, <1>1 DEF Trackers
<1>9. tracker.stream.hash # None /\ tracker.stream.hash \in Seq(Blocks)
  <2>1. tracker.stream.hash \in Seq(Blocks)
    BY <1>1, <1>3, <1>4
  <2>. QED  BY <2>1, NoneAssumption
<1>. HIDE DEF u, tx, txs, sent, block
<1>10. CASE monitor = None
  <2>1. m = None
    BY <1>10
  <2>2. TypeOK'
    BY <1>1, <1>2, <1>8, <2>1 DEF TypeOK
  <2>3. MessageOK'
    BY <1>1, <1>2, <1>3 DEF MessageOK
  <2>4. StreamOK'
    BY <1>2, <1>3, <1>5, <1>8, <2>1 DEF StreamOK, block
  <2>5. Good(chain, u, m)
    BY <2>1 DEF Good
  <2>. QED  BY <1>1, <1>2, <2>2, <2>3, <2>4, <2>5 DEF IInv
<1>11. CASE monitor # None
  <2>1. monitor \in Monitors /\ m = on_transaction(monitor, tx)
    BY <1>1, <1>11 DEF TypeOK
  <2>. HIDE DEF m
  <2>2. /\ m \in Monitors /\ Same(monitor, m)
        /\ IF m.decode_state = None
           THEN ~m.saw_block /\ Untouched(m, TxsIn(chain) \cup Range(block))
           ELSE m.decode_state.block_hash = tracker.stream.hash /\ Told(m, txs \cup {tx})
    <3>1. CASE monitor.decode_state = None
      <4>1. m = monitor
        BY <3>1, <2>1, <1>3, <1>11 DEF on_transaction, is_not_ready_for_push
      <4>. QED  BY <3>1, <4>1, <2>1, <1>3, <1>11 DEF Same
    <3>2. CASE monitor.decode_state # None
      <4>1. monitor.decode_state \in Decodes /\ Told(monitor, txs)
        BY <3>2, <2>1, <1>3, <1>11 DEF Monitors
      <4>2. /\ m \in Monitors /\ Same(monitor, m) /\ m.decode_state \in Decodes
            /\ m.decode_state.block_hash = monitor.decode_state.block_hash
            /\ Told(m, txs \cup {tx})
        BY <4>1, <2>1, <1>6, MonitorAfterTx
      <4>3. m.decode_state # None
        BY <4>2, NoneAssumption
      <4>. QED  BY <4>2, <4>3, <3>2, <1>3, <1>11
    <3>. QED  BY <3>1, <3>2
  <2>3. m # None
    BY <2>2, NoneAssumption
  <2>4. Good(chain, u, m)
    BY <2>2, <1>1, <1>8, <1>11, GoodSame
  <2>5. TypeOK'
    BY <1>1, <1>2, <1>8, <2>2 DEF TypeOK
  <2>6. MessageOK'
    BY <1>1, <1>2, <1>3 DEF MessageOK
  <2>7. StreamOK'
    <3>1. Told(m, txs \cup {tx}) <=> Told(m, {block[k] : k \in 1..(sent + 1)})
      BY <1>7
    <3>2. tracker'.stream.sent = sent + 1 /\ tracker'.stream.hash = tracker.stream.hash
      BY <1>2, <1>8
    <3>. QED  BY <1>2, <1>3, <1>5, <2>2, <3>1, <3>2 DEF StreamOK, block
  <2>. QED  BY <1>1, <1>2, <2>4, <2>5, <2>6, <2>7 DEF IInv
<1>. QED  BY <1>10, <1>11

LEMMA AddStreamedBlockStep ==
    ASSUME IInv, \A block \in Blocks : ClosesLater(block), AddStreamedBlock
    PROVE  IInv' /\ status' # "monitor"
<1>. DEFINE block == message.block
<1>1. /\ TypeOK /\ chain \in Seq(Blocks) /\ MessageOK /\ StreamOK
  BY DEF IInv, TypeOK
<1>2. /\ status = "up" /\ tracker.stream # NoStream /\ tracker.stream.sent = Len(block)
      /\ message.kind = "add" /\ Extend(monitor, block)
  BY DEF AddStreamedBlock, Streamed
<1>3. /\ message # None
      /\ tracker.stream.hash = Append(chain, block)
      /\ monitor # None =>
            IF monitor.decode_state = None
            THEN ~monitor.saw_block /\ Untouched(monitor, TxsIn(chain) \cup Range(block))
            ELSE /\ monitor.decode_state.block_hash = tracker.stream.hash
                 /\ Told(monitor, {block[k] : k \in 1..Len(block)})
  BY <1>1, <1>2 DEF StreamOK
<1>4. block \in Blocks /\ Range(block) = {block[k] : k \in 1..Len(block)}
  BY <1>3, MessageFacts, BlockTxs
<1>5. Fits(chain, block)
  BY <1>1, <1>2, <1>3, <1>4, ValidOnFits DEF MessageOK
<1>6. monitor # None => monitor \in Monitors /\ Same(monitor, monitor)
  BY <1>1 DEF TypeOK, Same
<1>7. monitor # None =>
          \/ /\ monitor.decode_state \in Decodes
             /\ monitor.decode_state.block_hash = Append(chain, block)
             /\ Told(monitor, Range(block))
          \/ /\ is_not_ready_for_push(monitor)
             /\ Untouched(monitor, TxsIn(chain) \cup Range(block))
  BY <1>3, <1>4, <1>6 DEF Monitors, is_not_ready_for_push
<1>. HIDE DEF block
<1>. QED  BY <1>2, <1>4, <1>5, <1>6, <1>7, ExtendStep

\* The hash of the chunks is the tip's, and never that of the header before it.
LEMMA StreamedRemovalStops ==
    ASSUME IInv, RemoveStreamedBlock
    PROVE  Refuse \/ Panic("wrong block")
<1>1. /\ status = "up" /\ tracker.stream # NoStream /\ message.kind = "remove"
  BY DEF RemoveStreamedBlock, Streamed
<1>2. message # None /\ tracker.stream.hash = chain /\ chain # <<>>
  BY <1>1 DEF IInv, StreamOK, MessageOK
<1>3. Front(chain) # chain
  BY <1>2, FrontAndLast DEF IInv, TypeOK
<1>. QED  BY <1>2, <1>3 DEF RemoveStreamedBlock, tip_block_hash

LEMMA RestartStep == ASSUME IInv, Restart PROVE IInv'
<1>. DEFINE u == [disk.tracker EXCEPT !.stream = NoStream]
            m == IF disk.monitor = None THEN None ELSE [disk.monitor EXCEPT !.decode_state = None]
<1>1. /\ TypeOK /\ Valid(chain) /\ Good(chain, disk.tracker, disk.monitor) /\ MessageOK
      /\ disk.tracker \in Trackers /\ disk.monitor \in Monitors \cup {None}
  BY DEF IInv, TypeOK
<1>2. /\ status # "up" /\ status' = "up" /\ tracker' = u /\ monitor' = m /\ UNCHANGED <<chain, message, disk>>
  BY DEF Restart
<1>3. message' = None
  BY <1>1, <1>2 DEF MessageOK
<1>4. /\ u \in Trackers /\ u.stream = NoStream /\ u.watches = disk.tracker.watches
      /\ u.seen = disk.tracker.seen /\ u.txid_watches = disk.tracker.txid_watches
  <2>1. NoStream \in [sent : Nat, hash : Seq(Blocks) \cup {None}]
    BY DEF NoStream
  <2>. QED  BY <2>1, <1>1 DEF Trackers
<1>5. m \in Monitors \cup {None} /\ Good(chain, u, m)
  <2>1. CASE disk.monitor = None
    BY <2>1 DEF Good
  <2>2. CASE disk.monitor # None
    <3>1. m \in Monitors /\ Same(disk.monitor, m)
      BY <2>2, <1>1 DEF Monitors, Same
    <3>. HIDE DEF m, u
    <3>2. Good(chain, u, m)
      BY <2>2, <3>1, <1>1, <1>4, GoodSame
    <3>. QED  BY <3>1, <3>2
  <2>. QED  BY <2>1, <2>2
<1>. HIDE DEF m, u
<1>6. TypeOK'
  BY <1>1, <1>2, <1>4, <1>5 DEF TypeOK
<1>. QED  BY <1>1, <1>2, <1>3, <1>4, <1>5, <1>6 DEF IInv, MessageOK, StreamOK

LEMMA NextIInv ==
    ASSUME \A block \in Blocks : ClosesLater(block)
    PROVE  IInv /\ [Next]_vars => IInv'
<1>. SUFFICES ASSUME IInv, [Next]_vars PROVE IInv'
  OBVIOUS
<1>1. CASE \E vout \in Vouts : ReadyChannel(vout)
  BY <1>1, ReadyChannelStep
<1>2. CASE FundingSigned
  BY <1>2, FundingSignedStep
<1>3. CASE \E block \in Blocks : ProveAdd(block)
  BY <1>3, ProveAddStep
<1>4. CASE ProveRemove
  BY <1>4, ProveRemoveStep
<1>5. CASE AddBlock
  BY <1>5, AddBlockStep
<1>6. CASE RemoveBlock
  BY <1>6, RemoveBlockStep
<1>7. CASE \E direction \in Streaming, block \in Blocks : StreamBlock(direction, block)
  BY <1>7, StreamBlockStep
<1>8. CASE BlockChunk
  BY <1>8, BlockChunkStep
<1>9. CASE AddStreamedBlock
  BY <1>9, AddStreamedBlockStep
<1>10. CASE RemoveStreamedBlock
  BY <1>10, StreamedRemovalStops, StopStep DEF Refuse, Panic
<1>11. CASE Crash
  BY <1>11, StopStep DEF Crash, Refuse
<1>12. CASE Restart
  BY <1>12, RestartStep
<1>13. CASE UNCHANGED vars
  <2>1. TypeOK' /\ Valid(chain)' /\ Good(chain, tracker, monitor)' /\ Good(chain, disk.tracker, disk.monitor)'
    BY <1>13 DEF vars, IInv, TypeOK, Valid, Good, Matches, Watched, Relevant
  <2>2. MessageOK' /\ StreamOK'
    BY <1>13 DEF vars, IInv, MessageOK, StreamOK
  <2>. QED  BY <2>1, <2>2, <1>13 DEF vars, IInv
<1>. QED  BY <1>1, <1>2, <1>3, <1>4, <1>5, <1>6, <1>7, <1>8, <1>9, <1>10, <1>11, <1>12, <1>13 DEF Next

------------------------------------------------------------------------------
(* The theorems                                                             *)

\* Where no block both funds the channel and closes it, the chain, the memory and the disk of
\* the tracker go together (ChainTracker::add_block, remove_block, block_chunk and their
\* persistence).
THEOREM TrackerInvariant ==
    ASSUME \A block \in Blocks : ClosesLater(block)
    PROVE  Spec => []IInv
<1>. QED  BY InitIInv, NextIInv, PTL DEF Spec

\* The type invariant (chain/tracker.rs and monitor.rs: the State of each).
THEOREM TrackerTypes ==
    ASSUME \A block \in Blocks : ClosesLater(block)
    PROVE  Spec => []TypeOK
<1>1. IInv => TypeOK
  BY DEF IInv
<1>. QED  BY <1>1, TrackerInvariant, PTL

\* The depths of funding, double spend and closing that validation reads
\* (State::as_chain_state through ChainMonitorBase) are those of the chain, whatever blocks
\* were added, streamed and removed, with crashes and with requests between the messages.
THEOREM MonitorFollowsTheChain ==
    ASSUME \A block \in Blocks : ClosesLater(block)
    PROVE  Spec => []MonitorMatchesChain
<1>1. ASSUME IInv PROVE MonitorMatchesChain
  <2>. SUFFICES ASSUME monitor # None PROVE as_chain_state(monitor) = ChainSays
    BY DEF MonitorMatchesChain
  <2>1. monitor \in Monitors /\ chain \in Seq(Blocks) /\ Matches(chain, monitor)
    BY <1>1 DEF IInv, TypeOK, Good
  <2>2. /\ monitor.funding_height \in Heights
        /\ monitor.funding_double_spent_height \in Heights
        /\ monitor.closing_height \in Heights
    BY <2>1 DEF Monitors
  <2>3. Depth(monitor, monitor.funding_height) = DepthOf({FundingTx})
    BY <2>1, <2>2, OldestDepth DEF Matches
  <2>4. Depth(monitor, monitor.funding_double_spent_height) = DepthOf(DoubleSpends(monitor.funding_inputs))
    BY <2>1, <2>2, OldestDepth DEF Matches
  <2>5. Depth(monitor, monitor.closing_height) = DepthOf(Closings)
    BY <2>1, <2>2, OldestDepth DEF Matches
  <2>. QED  BY <2>3, <2>4, <2>5 DEF as_chain_state, ChainSays
<1>. QED  BY <1>1, TrackerInvariant, PTL

\* The watches that the follower's next proof is made with show every spend that matters, and
\* those of the reverse direction every one that can be undone (get_all_forward_watches,
\* get_all_reverse_watches, notify_listeners_add and notify_listeners_remove).
THEOREM WatchesAlwaysSuffice ==
    ASSUME \A block \in Blocks : ClosesLater(block)
    PROVE  Spec => []WatchesSuffice
<1>1. ASSUME IInv PROVE WatchesSuffice
  <2>. SUFFICES ASSUME monitor # None
                PROVE  /\ Relevant(chain, monitor) \ SpentIn(TxsIn(chain)) \subseteq get_all_forward_watches
                       /\ Relevant(chain, monitor) \cap SpentIn(TxsIn(chain)) \subseteq get_all_reverse_watches
    BY DEF WatchesSuffice, Relevant, SpentIn
  <2>1. Watched(chain, tracker, monitor)
    BY <1>1 DEF IInv, Good
  <2>. QED  BY <2>1 DEF Watched, get_all_forward_watches, get_all_reverse_watches
<1>. QED  BY <1>1, TrackerInvariant, PTL

\* The transactions of a block whose closings are commitments satisfy the monitor.
LEMMA TransactionAssertsHold ==
    ASSUME NEW m \in Monitors, NEW block \in Blocks, CommitmentShaped(block), NEW tx \in Range(block),
           m.funding_vout < Outputs[FundingTx]
    PROVE  TransactionAsserts(m, tx)
<1>1. tx \in Txs
  BY BlockTxs
<1>2. m.funding_outpoint \in {None, FundingOutpoint}
  BY DEF Monitors
<1>3. None \notin Inputs[tx]
  BY <1>1, ChainMonitorAssumption
<1>. QED  BY <1>1, <1>2, <1>3 DEF TransactionAsserts, CommitmentShaped, Closings

\* If besides no block double spends two funding inputs and what closes the channel has the
\* shape of a commitment, no assert of on_transaction_input, on_transaction_output,
\* on_transaction_end, on_add_block_end or on_remove_block_end fails, unless the setup of the
\* channel names an output that its funding transaction does not have.
THEOREM MonitorNeverPanics ==
    ASSUME \A block \in Blocks : Quiet(block)
    PROVE  Spec => []MonitorAssertsHold
<1>. USE DEF MonitorAssertsHold
<1>1. /\ \A block \in Blocks : ClosesLater(block)
      /\ \A block \in Blocks : SpendsOne(block)
      /\ \A block \in Blocks : CommitmentShaped(block)
  BY DEF Quiet
<1>2. Init => MonitorAssertsHold
  BY DEF Init
<1>3. IInv /\ MonitorAssertsHold /\ [Next]_vars => MonitorAssertsHold'
  <2>. SUFFICES ASSUME IInv, MonitorAssertsHold, Next, status' = "monitor"
                PROVE  monitor' # None /\ monitor'.funding_vout >= Outputs[FundingTx]
    BY DEF vars
  <2>1. ASSUME NEW block \in Blocks, NEW tx \in Range(block), monitor # None,
               ~TransactionAsserts(monitor, tx), Panic("monitor")
        PROVE  monitor' # None /\ monitor'.funding_vout >= Outputs[FundingTx]
    <3>1. monitor' = monitor /\ monitor \in Monitors
      BY <2>1 DEF Panic, IInv, TypeOK
    <3>2. monitor.funding_vout \in Nat /\ Outputs[FundingTx] \in Nat
      BY <3>1, ChainTrackerAssumption, ChainMonitorAssumption DEF Monitors
    <3>3. ~(monitor.funding_vout < Outputs[FundingTx])
      BY <2>1, <3>1, <1>1, TransactionAssertsHold
    <3>. QED  BY <2>1, <3>1, <3>2, <3>3
  <2>2. CASE (\E vout \in Vouts : ReadyChannel(vout)) \/ FundingSigned
             \/ (\E block \in Blocks : ProveAdd(block)) \/ ProveRemove
             \/ (\E direction \in Streaming, block \in Blocks : StreamBlock(direction, block))
             \/ Crash \/ Restart
    BY <2>2 DEF ReadyChannel, FundingSigned, ProveAdd, ProveRemove, StreamBlock, Crash, Refuse, Restart
  <2>3. CASE AddBlock
    <3>1. ~Digests(monitor, message.txs)
      BY <2>3, <1>1, AddBlockStep
    <3>2. message # None /\ message.kind = "AddBlock" /\ Panic("monitor")
      BY <2>3, <3>1 DEF AddBlock, Refuse
    <3>3. message.block \in Blocks /\ message.txs \subseteq Range(message.block)
      BY <3>2, MessageFacts DEF IInv, MessageOK
    <3>. QED  BY <3>1, <3>2, <3>3, <2>1 DEF Digests
  <2>4. CASE RemoveBlock
    <3>1. ~Digests(monitor, message.txs)
      BY <2>4, <1>1, RemoveBlockStep
    <3>2. message # None /\ message.kind = "RemoveBlock" /\ Panic("monitor")
      BY <2>4, <3>1 DEF RemoveBlock, Refuse
    <3>3. message.block \in Blocks /\ message.txs \subseteq Range(message.block)
      BY <3>2, MessageFacts DEF IInv, MessageOK
    <3>. QED  BY <3>1, <3>2, <3>3, <2>1 DEF Digests
  <2>5. CASE BlockChunk
    <3>. DEFINE tx == message.block[tracker.stream.sent + 1]
    <3>1. /\ status = "up" /\ tracker.stream # NoStream
          /\ tracker.stream.sent < Len(message.block)
      BY <2>5 DEF BlockChunk
    <3>2. message # None /\ tracker.stream.sent \in 0..Len(message.block)
      BY <3>1 DEF IInv, StreamOK
    <3>3. message.block \in Blocks
      BY <3>2, MessageFacts
    <3>4. tx \in Range(message.block)
      BY <3>1, <3>2, <3>3, BlockTxs
    <3>5. monitor # None /\ ~on_transaction_asserts(monitor, tx) /\ Panic("monitor")
      BY <2>5, <3>1 DEF BlockChunk
    <3>. QED  BY <3>3, <3>4, <3>5, <2>1 DEF on_transaction_asserts
  <2>6. CASE AddStreamedBlock
    BY <2>6, <1>1, AddStreamedBlockStep
  <2>7. CASE RemoveStreamedBlock
    BY <2>7, StreamedRemovalStops DEF Refuse, Panic
  <2>. QED  BY <2>2, <2>3, <2>4, <2>5, <2>6, <2>7 DEF Next
<1>4. Spec => []IInv
  BY <1>1, TrackerInvariant
<1>. QED  BY <1>2, <1>3, <1>4, PTL DEF Spec

\* A block that was streamed for its removal is never removed: the signer stops
\* (maybe_finish_decoding_block compares with the header before the tip).
THEOREM StreamedBlocksAreNotRemoved ==
    ASSUME \A block \in Blocks : ClosesLater(block)
    PROVE  Spec => [][RemoveStreamedBlock => status' # "up" /\ UNCHANGED chain]_vars
<1>1. IInv /\ [Next]_vars => [RemoveStreamedBlock => status' # "up" /\ UNCHANGED chain]_vars
  BY StreamedRemovalStops DEF Refuse, Panic
<1>. QED  BY <1>1, TrackerInvariant, PTL DEF Spec

==============================================================================
