-------------------------- MODULE NodePaymentsProofs --------------------------
(***************************************************************************)
(* What the node keeps on record of the payments in its channels, for any  *)
(* number of channels, hashes, invoices and amounts, over prunings and     *)
(* restarts.                                                               *)
(***************************************************************************)
EXTENDS NodePayments, SumTheorems

------------------------------------------------------------------------------
(* The inductive invariant                                                  *)

Maps(K, V) == UNION {[D -> V] : D \in SUBSET K}

Payments ==
    [incoming : [Channels -> Nat], outgoing : [Channels -> Nat], preimage : BOOLEAN]

Typed ==
    /\ node \in [invoices : Maps(Hashes, InvoiceAmounts), issued_invoices : SUBSET Hashes,
                 payments : Maps(Hashes, Payments)]
    /\ channels \in [Channels -> [holder : Commitments, counterparty : Commitments]]
    /\ disk \in [invoices : Maps(Hashes, InvoiceAmounts), issued_invoices : SUBSET Hashes,
                 preimages : SUBSET Hashes]
    /\ paid \in SUBSET Hashes
    /\ status = "up"

\* Every invoice has a payment.
InvoicesHavePayments == DOMAIN node.invoices \subseteq DOMAIN node.payments

\* A preimage that the node or the disk has was given.
PreimagesWereGiven ==
    /\ \A h \in DOMAIN node.payments : node.payments[h].preimage => h \in paid
    /\ disk.preimages \subseteq paid

\* Until a payment is paid, the node knows exactly what may be lost for it in each channel,
\* and does not count on more than the channel is sure to get; no entry means nothing.
Counted ==
    \A h \in Hashes \ paid, c \in Channels :
        /\ PaymentOf(node.payments, h).outgoing[c] = MayLose(c, h)
        /\ PaymentOf(node.payments, h).incoming[c] <= SureToGet(c, h)

IInv ==
    /\ Typed
    /\ InvoicesHavePayments
    /\ PreimagesWereGiven
    /\ Counted

------------------------------------------------------------------------------
(* Maps, and the amounts of a channel                                       *)

\* A map has its keys and values where it should.
LEMMA MapType ==
    ASSUME NEW K, NEW V, NEW f \in Maps(K, V)
    PROVE  /\ DOMAIN f \subseteq K
           /\ \A x \in DOMAIN f : f[x] \in V
<1>1. PICK D \in SUBSET K : f \in [D -> V]
  BY DEF Maps
<1>. QED  BY <1>1

\* Whatever is a function on some of the keys is a map.
LEMMA MapFrom ==
    ASSUME NEW K, NEW V, NEW D, NEW f \in [D -> V], D \subseteq K
    PROVE  f \in Maps(K, V)
BY DEF Maps

\* Put keeps a map a map.
LEMMA PutMap ==
    ASSUME NEW K, NEW V, NEW f \in Maps(K, V), NEW k \in K, NEW v \in V
    PROVE  Put(f, k, v) \in Maps(K, V)
<1>. DEFINE D == {k} \cup DOMAIN f
<1>1. DOMAIN f \subseteq K /\ \A x \in DOMAIN f : f[x] \in V
  BY MapType
<1>2. D \subseteq K
  BY <1>1
<1>3. Put(f, k, v) \in [D -> V]
  BY <1>1 DEF Put
<1>. HIDE DEF D
<1>. QED  BY <1>2, <1>3, MapFrom

\* Restrict keeps a map a map.
LEMMA RestrictMap ==
    ASSUME NEW K, NEW V, NEW f \in Maps(K, V), NEW S \in SUBSET DOMAIN f
    PROVE  /\ Restrict(f, S) \in Maps(K, V)
           /\ DOMAIN Restrict(f, S) = S
           /\ \A x \in S : Restrict(f, S)[x] = f[x]
<1>1. DOMAIN f \subseteq K /\ \A x \in DOMAIN f : f[x] \in V
  BY MapType
<1>2. Restrict(f, S) \in [S -> V]
  BY <1>1 DEF Restrict
<1>. QED  BY <1>1, <1>2, MapFrom DEF Restrict

\* The empty function is a map.
LEMMA EmptyMap ==
    ASSUME NEW K, NEW V
    PROVE  <<>> \in Maps(K, V) /\ DOMAIN <<>> = {}
<1>1. <<>> \in [{} -> V] /\ DOMAIN <<>> = {}
  OBVIOUS
<1>2. {} \in SUBSET K
  OBVIOUS
<1>. QED  BY <1>1, <1>2 DEF Maps

\* Max and Min of two numbers.
LEMMA MaxMin ==
    ASSUME NEW a \in Nat, NEW b \in Nat
    PROVE  /\ Max({a, b}) = IF a >= b THEN a ELSE b
           /\ Min({a, b}) = IF a <= b THEN a ELSE b
<1>1. CASE a >= b
  <2>1. \A x \in {a, b} : (\A y \in {a, b} : x >= y) => x = a
    BY <1>1
  <2>2. a \in {a, b} /\ \A y \in {a, b} : a >= y
    BY <1>1
  <2>3. \A x \in {a, b} : (\A y \in {a, b} : x <= y) => x = b
    BY <1>1
  <2>4. b \in {a, b} /\ \A y \in {a, b} : b <= y
    BY <1>1
  <2>5. Max({a, b}) = a
    BY <2>1, <2>2 DEF Max
  <2>6. Min({a, b}) = b
    BY <2>3, <2>4 DEF Min
  <2>. QED  BY <1>1, <2>5, <2>6
<1>2. CASE b >= a
  <2>1. \A x \in {a, b} : (\A y \in {a, b} : x >= y) => x = b
    BY <1>2
  <2>2. b \in {a, b} /\ \A y \in {a, b} : b >= y
    BY <1>2
  <2>3. \A x \in {a, b} : (\A y \in {a, b} : x <= y) => x = a
    BY <1>2
  <2>4. a \in {a, b} /\ \A y \in {a, b} : a <= y
    BY <1>2
  <2>5. Max({a, b}) = b
    BY <2>1, <2>2 DEF Max
  <2>6. Min({a, b}) = a
    BY <2>3, <2>4 DEF Min
  <2>. QED  BY <1>2, <2>5, <2>6
<1>. QED  BY <1>1, <1>2

States == [holder : Commitments, counterparty : Commitments]

\* The summaries are naturals.
LEMMA SummaryType ==
    ASSUME NEW new \in States, NEW h \in Hashes
    PROVE  /\ payments_summary(new, h) \in Nat
           /\ incoming_payments_summary(new, h) \in Nat
           /\ \A tx \in {new.holder, new.counterparty} :
                 tx.offered[h] \in Nat /\ tx.received[h] \in Nat
BY NodePaymentsAssumption
   DEF States, Commitments, payments_summary, incoming_payments_summary

\* What may be lost and what is sure to come are what the summaries say.
LEMMA Summaries ==
    ASSUME NEW new \in States, NEW h \in Hashes
    PROVE  /\ Max({new.holder.offered[h], new.counterparty.offered[h]})
                 = payments_summary(new, h)
           /\ Min({new.holder.received[h], new.counterparty.received[h]})
                 = incoming_payments_summary(new, h)
BY SummaryType, MaxMin DEF payments_summary, incoming_payments_summary

\* A hash that is not summarized has nothing in the channel, before or after.
LEMMA NotSummarized ==
    ASSUME NEW cur \in States, NEW new \in States, NEW h \in Hashes \ Summarized(cur, new)
    PROVE  /\ payments_summary(cur, h) = 0 /\ incoming_payments_summary(cur, h) = 0
           /\ payments_summary(new, h) = 0 /\ incoming_payments_summary(new, h) = 0
<1>1. /\ ~(payments_summary(new, h) > 0)
      /\ ~(incoming_payments_summary(new, h) > 0)
      /\ ~(cur.holder.offered[h] + cur.holder.received[h] > 0)
      /\ ~(cur.counterparty.offered[h] + cur.counterparty.received[h] > 0)
  BY DEF Summarized
<1>2. payments_summary(new, h) = 0 /\ incoming_payments_summary(new, h) = 0
  BY <1>1, SummaryType
<1>3. /\ cur.holder.offered[h] = 0 /\ cur.holder.received[h] = 0
      /\ cur.counterparty.offered[h] = 0 /\ cur.counterparty.received[h] = 0
  BY <1>1, SummaryType
<1>. QED  BY <1>2, <1>3 DEF payments_summary, incoming_payments_summary

\* Counted for one hash, in any payments and commitments.
CountedIn(payments, chs, h) ==
    \A c \in Channels :
        /\ PaymentOf(payments, h).outgoing[c] = payments_summary(chs[c], h)
        /\ PaymentOf(payments, h).incoming[c] <= incoming_payments_summary(chs[c], h)

\* Counted says that of every hash that is not paid.
LEMMA CountedEach ==
    ASSUME Typed
    PROVE  Counted <=> \A h \in Hashes \ paid : CountedIn(node.payments, channels, h)
<1>1. ASSUME NEW h \in Hashes, NEW c \in Channels
      PROVE  /\ MayLose(c, h) = payments_summary(channels[c], h)
             /\ SureToGet(c, h) = incoming_payments_summary(channels[c], h)
  <2>1. channels[c] \in States
    BY DEF Typed, States
  <2>. QED  BY <2>1, Summaries DEF MayLose, SureToGet
<1>. QED  BY <1>1 DEF Counted, CountedIn

\* The same after a step.
LEMMA CountedEachNext ==
    ASSUME Typed'
    PROVE  Counted' <=> \A h \in Hashes \ paid' : CountedIn(node'.payments, channels', h)
<1>1. ASSUME NEW h \in Hashes, NEW c \in Channels
      PROVE  /\ MayLose(c, h)' = payments_summary(channels'[c], h)
             /\ SureToGet(c, h)' = incoming_payments_summary(channels'[c], h)
  <2>1. channels'[c] \in States
    BY DEF Typed, States
  <2>. QED  BY <2>1, Summaries DEF MayLose, SureToGet
<1>. QED  BY <1>1 DEF Counted, CountedIn

\* An empty payment, and the payment of a hash, are payments.
LEMMA PaymentType ==
    ASSUME NEW payments \in Maps(Hashes, Payments), NEW h
    PROVE  RoutedPayment_new \in Payments /\ PaymentOf(payments, h) \in Payments
<1>1. RoutedPayment_new \in Payments
  BY DEF RoutedPayment_new, Payments
<1>2. \A g \in DOMAIN payments : payments[g] \in Payments
  BY MapType
<1>. QED  BY <1>1, <1>2 DEF PaymentOf

\* The sum over the channels is 0 if and only if nothing goes in any of them.
LEMMA TotalZero ==
    ASSUME NEW f \in [Channels -> Nat]
    PROVE  Total(f) = 0 <=> \A c \in Channels : f[c] = 0
<1>1. IsFiniteSet(Channels) /\ \A c \in Channels : f[c] \in Nat
  BY NodePaymentsAssumption
<1>2. ASSUME Total(f) = 0, NEW c \in Channels PROVE f[c] = 0
  <2>1. f[c] <= SumFunctionOnSet(f, Channels)
    BY <1>1, SumBounds
  <2>. QED  BY <1>1, <1>2, <2>1 DEF Total
<1>3. ASSUME \A c \in Channels : f[c] = 0 PROVE Total(f) = 0
  BY <1>1, <1>3, SumZeros DEF Total
<1>. QED  BY <1>2, <1>3

\* A new commitment is entered for what it is.
LEMMA ApplyCounts ==
    ASSUME NEW payments \in Maps(Hashes, Payments), NEW chs \in [Channels -> States],
           NEW c \in Channels, NEW new \in States
    PROVE  LET after == apply_payments(payments, c, chs[c], new)
           IN  /\ after \in Maps(Hashes, Payments)
               /\ DOMAIN payments \subseteq DOMAIN after
               /\ \A h \in DOMAIN after : after[h].preimage = PaymentOf(payments, h).preimage
               /\ \A h \in Hashes : CountedIn(payments, chs, h) =>
                     CountedIn(after, [chs EXCEPT ![c] = new], h)
<1>. DEFINE cur == chs[c]
            S == Summarized(cur, new)
            D == DOMAIN payments \cup S
            after == apply_payments(payments, c, cur, new)
            Entered(p, h) == [p EXCEPT !.incoming[c] = incoming_payments_summary(new, h),
                                       !.outgoing[c] = payments_summary(new, h)]
<1>1. cur \in States
  OBVIOUS
<1>2. DOMAIN payments \subseteq Hashes /\ S \subseteq Hashes
  BY MapType DEF Summarized
<1>3. ASSUME NEW h \in Hashes, NEW p \in Payments
      PROVE  /\ Entered(p, h) \in Payments
             /\ Entered(p, h).preimage = p.preimage
             /\ Entered(p, h).incoming
                    = [p.incoming EXCEPT ![c] = incoming_payments_summary(new, h)]
             /\ Entered(p, h).outgoing = [p.outgoing EXCEPT ![c] = payments_summary(new, h)]
  <2>1. incoming_payments_summary(new, h) \in Nat /\ payments_summary(new, h) \in Nat
    BY SummaryType
  <2>. QED  BY <2>1 DEF Payments
<1>. HIDE DEF Entered
<1>4. after = [h \in D |-> IF h \in S THEN Entered(PaymentOf(payments, h), h)
                                      ELSE PaymentOf(payments, h)]
  BY DEF apply_payments, Entered
<1>. HIDE DEF after, S, D, cur
<1>5. D \subseteq Hashes
  BY <1>2 DEF D
<1>6. \A h : PaymentOf(payments, h) \in Payments
  BY PaymentType
<1>7. DOMAIN after = D
  BY <1>4
<1>8. \A h \in D : after[h] \in Payments /\ after[h].preimage = PaymentOf(payments, h).preimage
  <2>1. ASSUME NEW h \in D
        PROVE  after[h] \in Payments /\ after[h].preimage = PaymentOf(payments, h).preimage
    <3>1. h \in Hashes /\ PaymentOf(payments, h) \in Payments
      BY <1>5, <1>6
    <3>2. after[h] = IF h \in S THEN Entered(PaymentOf(payments, h), h)
                                ELSE PaymentOf(payments, h)
      BY <1>4
    <3>3. /\ Entered(PaymentOf(payments, h), h) \in Payments
          /\ Entered(PaymentOf(payments, h), h).preimage = PaymentOf(payments, h).preimage
      BY <1>3, <3>1
    <3>. QED  BY <3>1, <3>2, <3>3
  <2>. QED  BY <2>1
<1>9. after \in [D -> Payments]
  <2>1. after = [h \in D |-> after[h]]
    BY <1>4
  <2>. QED  BY <1>8, <2>1
<1>10. after \in Maps(Hashes, Payments)
  BY <1>5, <1>9, MapFrom
<1>11. ASSUME NEW h \in Hashes, CountedIn(payments, chs, h), NEW d \in Channels
       PROVE  LET n == [chs EXCEPT ![c] = new][d]
              IN  /\ PaymentOf(after, h).outgoing[d] = payments_summary(n, h)
                  /\ PaymentOf(after, h).incoming[d] <= incoming_payments_summary(n, h)
  <2>. DEFINE n == [chs EXCEPT ![c] = new][d]
              p == PaymentOf(payments, h)
              q == PaymentOf(after, h)
  <2>1. n = IF d = c THEN new ELSE chs[d]
    OBVIOUS
  <2>2. /\ p.outgoing[d] = payments_summary(chs[d], h)
        /\ p.incoming[d] <= incoming_payments_summary(chs[d], h)
    BY <1>11 DEF CountedIn
  <2>3. q = IF h \in S THEN Entered(p, h) ELSE p
    <3>1. CASE h \in D
      BY <1>4, <1>7, <3>1 DEF PaymentOf
    <3>2. CASE h \notin D
      <4>1. h \notin S /\ h \notin DOMAIN payments /\ h \notin DOMAIN after
        BY <1>7, <3>2 DEF D
      <4>. QED  BY <4>1 DEF PaymentOf
    <3>. QED  BY <3>1, <3>2
  <2>4. p \in Payments
    BY <1>6
  <2>5. p.incoming \in [Channels -> Nat] /\ p.outgoing \in [Channels -> Nat]
    BY <2>4 DEF Payments
  <2>6. incoming_payments_summary(new, h) \in Nat
    BY SummaryType
  <2>. HIDE DEF n, p, q
  <2>7. CASE h \in S
    <3>1. /\ q.incoming = [p.incoming EXCEPT ![c] = incoming_payments_summary(new, h)]
          /\ q.outgoing = [p.outgoing EXCEPT ![c] = payments_summary(new, h)]
      BY <1>3, <2>3, <2>4, <2>7
    <3>2. CASE d = c
      BY <2>1, <2>5, <2>6, <3>1, <3>2 DEF n, q
    <3>3. CASE d # c
      BY <2>1, <2>2, <2>5, <3>1, <3>3 DEF n, q
    <3>. QED  BY <3>2, <3>3
  <2>8. CASE h \notin S
    <3>1. q = p
      BY <2>3, <2>8
    <3>2. /\ payments_summary(cur, h) = 0 /\ incoming_payments_summary(cur, h) = 0
          /\ payments_summary(new, h) = 0 /\ incoming_payments_summary(new, h) = 0
      <4>1. h \in Hashes \ Summarized(cur, new)
        BY <2>8 DEF S
      <4>. QED  BY <1>1, <4>1, NotSummarized
    <3>3. CASE d = c
      BY <2>1, <2>2, <3>1, <3>2, <3>3 DEF n, q, cur
    <3>4. CASE d # c
      BY <2>1, <2>2, <3>1, <3>4 DEF n, q
    <3>. QED  BY <3>3, <3>4
  <2>. QED  BY <2>7, <2>8
<1>12. \A h \in Hashes : CountedIn(payments, chs, h) =>
                             CountedIn(after, [chs EXCEPT ![c] = new], h)
  BY <1>11 DEF CountedIn
<1>13. DOMAIN payments \subseteq DOMAIN after
  BY <1>7 DEF D
<1>. QED  BY <1>7, <1>8, <1>10, <1>12, <1>13 DEF after, cur

\* The entry of an empty payment, and of one whose preimage is known.
LEMMA RestoredType ==
    ASSUME NEW entry \in [invoices : Maps(Hashes, InvoiceAmounts),
                          issued_invoices : SUBSET Hashes, preimages : SUBSET Hashes]
    PROVE  /\ RestoredPayments(entry) \in Maps(Hashes, Payments)
           /\ DOMAIN RestoredPayments(entry) = entry.preimages \cup DOMAIN entry.invoices
           /\ \A h \in DOMAIN RestoredPayments(entry) :
                 RestoredPayments(entry)[h].preimage => h \in entry.preimages
           /\ \A h \in Hashes, c \in Channels :
                 /\ PaymentOf(RestoredPayments(entry), h).incoming[c] = 0
                 /\ PaymentOf(RestoredPayments(entry), h).outgoing[c] = 0
<1>. DEFINE D == entry.preimages \cup DOMAIN entry.invoices
            Known == [RoutedPayment_new EXCEPT !.preimage = TRUE]
            ps == RestoredPayments(entry)
<1>1. entry.preimages \subseteq Hashes /\ DOMAIN entry.invoices \subseteq Hashes
  <2>1. entry.preimages \subseteq Hashes /\ entry.invoices \in Maps(Hashes, InvoiceAmounts)
    OBVIOUS
  <2>. QED  BY <2>1, MapType
<1>2. /\ Known \in Payments
      /\ \A c \in Channels : Known.incoming[c] = 0 /\ Known.outgoing[c] = 0
  BY DEF RoutedPayment_new, Payments
<1>3. /\ RoutedPayment_new \in Payments /\ ~RoutedPayment_new.preimage
      /\ \A c \in Channels :
            RoutedPayment_new.incoming[c] = 0 /\ RoutedPayment_new.outgoing[c] = 0
  BY DEF RoutedPayment_new, Payments
<1>4. ps = [h \in D |-> IF h \in DOMAIN entry.invoices THEN RoutedPayment_new ELSE Known]
  BY DEF RestoredPayments
<1>. HIDE DEF ps, Known
<1>5. \A h \in D : ps[h] \in {RoutedPayment_new, Known}
  BY <1>4
<1>6. ps \in [D -> Payments] /\ DOMAIN ps = D
  BY <1>2, <1>3, <1>4
<1>7. D \subseteq Hashes
  BY <1>1
<1>8. ps \in Maps(Hashes, Payments)
  <2>. HIDE DEF D
  <2>. QED  BY <1>6, <1>7, MapFrom
<1>9. \A h : PaymentOf(ps, h) \in {RoutedPayment_new, Known}
  BY <1>5, <1>6 DEF PaymentOf
<1>10. \A h \in DOMAIN ps : ps[h].preimage => h \in entry.preimages
  BY <1>3, <1>4, <1>6
<1>11. \A h \in Hashes, c \in Channels :
          PaymentOf(ps, h).incoming[c] = 0 /\ PaymentOf(ps, h).outgoing[c] = 0
  BY <1>2, <1>3, <1>9
<1>. QED  BY <1>6, <1>8, <1>10, <1>11 DEF ps

\* The payments in flight are entered again from the channels.
LEMMA RestoreCounts ==
    ASSUME channels \in [Channels -> States],
           NEW payments \in Maps(Hashes, Payments),
           \A h \in Hashes, c \in Channels :
              /\ PaymentOf(payments, h).incoming[c] = 0
              /\ PaymentOf(payments, h).outgoing[c] = 0
    PROVE  LET after == restore_payments(payments)
           IN  /\ after \in Maps(Hashes, Payments)
               /\ DOMAIN payments \subseteq DOMAIN after
               /\ \A h \in DOMAIN after : after[h].preimage = PaymentOf(payments, h).preimage
               /\ \A h \in Hashes : CountedIn(after, channels, h)
<1>. DEFINE Has(c, h) == h \in Summarized(channels[c], channels[c])
            D == DOMAIN payments \cup {g \in Hashes : \E c \in Channels : Has(c, g)}
            In(p, h) == [c \in Channels |->
                IF Has(c, h) THEN incoming_payments_summary(channels[c], h) ELSE p.incoming[c]]
            Out(p, h) == [c \in Channels |->
                IF Has(c, h) THEN payments_summary(channels[c], h) ELSE p.outgoing[c]]
            Entered(p, h) == [p EXCEPT !.incoming = In(p, h), !.outgoing = Out(p, h)]
            after == restore_payments(payments)
<1>1. after = [h \in D |-> Entered(PaymentOf(payments, h), h)]
  BY DEF restore_payments
<1>2. \A h : PaymentOf(payments, h) \in Payments
  BY PaymentType
<1>3. ASSUME NEW c \in Channels, NEW h \in Hashes
      PROVE  /\ payments_summary(channels[c], h) \in Nat
             /\ incoming_payments_summary(channels[c], h) \in Nat
             /\ ~Has(c, h) => /\ payments_summary(channels[c], h) = 0
                              /\ incoming_payments_summary(channels[c], h) = 0
  <2>1. channels[c] \in States
    OBVIOUS
  <2>. QED  BY <2>1, SummaryType, NotSummarized
<1>. HIDE DEF after, Has
<1>4. D \subseteq Hashes
  BY MapType
<1>5. ASSUME NEW h \in Hashes, NEW p \in Payments
      PROVE  In(p, h) \in [Channels -> Nat] /\ Out(p, h) \in [Channels -> Nat]
  <2>1. p.incoming \in [Channels -> Nat] /\ p.outgoing \in [Channels -> Nat]
    BY DEF Payments
  <2>. QED  BY <1>3, <2>1
<1>6. ASSUME NEW h \in Hashes, NEW p \in Payments
      PROVE  /\ Entered(p, h) \in Payments
             /\ Entered(p, h).preimage = p.preimage
             /\ Entered(p, h).incoming = In(p, h)
             /\ Entered(p, h).outgoing = Out(p, h)
  <2>1. In(p, h) \in [Channels -> Nat] /\ Out(p, h) \in [Channels -> Nat]
    BY <1>5
  <2>. HIDE DEF In, Out
  <2>. QED  BY <2>1 DEF Payments
<1>. HIDE DEF D, Entered, In, Out
<1>7. DOMAIN after = D /\ after = [h \in D |-> after[h]]
  BY <1>1
<1>8. ASSUME NEW h \in D
      PROVE  after[h] \in Payments /\ after[h].preimage = PaymentOf(payments, h).preimage
  <2>1. h \in Hashes /\ PaymentOf(payments, h) \in Payments
    BY <1>2, <1>4
  <2>2. after[h] = Entered(PaymentOf(payments, h), h)
    BY <1>1
  <2>. QED  BY <1>6, <2>1, <2>2
<1>9. after \in Maps(Hashes, Payments)
  <2>1. after \in [D -> Payments]
    BY <1>7, <1>8
  <2>. QED  BY <1>4, <2>1, MapFrom
<1>10. ASSUME NEW h \in Hashes, NEW c \in Channels
       PROVE  /\ PaymentOf(after, h).outgoing[c] = payments_summary(channels[c], h)
              /\ PaymentOf(after, h).incoming[c] <= incoming_payments_summary(channels[c], h)
  <2>. DEFINE p == PaymentOf(payments, h)
  <2>1. p \in Payments /\ p.incoming[c] = 0 /\ p.outgoing[c] = 0
    BY <1>2
  <2>. HIDE DEF p
  <2>2. CASE h \in D
    <3>1. PaymentOf(after, h) = Entered(p, h)
      BY <1>1, <1>7, <2>2 DEF PaymentOf, p
    <3>2. /\ PaymentOf(after, h).outgoing[c]
                = IF Has(c, h) THEN payments_summary(channels[c], h) ELSE p.outgoing[c]
          /\ PaymentOf(after, h).incoming[c]
                = IF Has(c, h) THEN incoming_payments_summary(channels[c], h)
                               ELSE p.incoming[c]
      <4>1. PaymentOf(after, h).outgoing = Out(p, h) /\ PaymentOf(after, h).incoming = In(p, h)
        BY <1>6, <2>1, <3>1
      <4>. QED  BY <4>1 DEF In, Out
    <3>. QED  BY <1>3, <2>1, <3>2
  <2>3. CASE h \notin D
    <3>1. ~Has(c, h) /\ PaymentOf(after, h) = p
      BY <1>7, <2>3 DEF D, PaymentOf, p
    <3>. QED  BY <1>3, <2>1, <3>1
  <2>. QED  BY <2>2, <2>3
<1>11. \A h \in Hashes : CountedIn(after, channels, h)
  BY <1>10 DEF CountedIn
<1>12. DOMAIN payments \subseteq DOMAIN after
  BY <1>7 DEF D
<1>. QED  BY <1>7, <1>8, <1>9, <1>11, <1>12 DEF after

------------------------------------------------------------------------------
(* The invariant is kept                                                    *)

\* At the start nothing is in flight.
LEMMA InitIInv == Init => IInv
<1>. SUFFICES ASSUME Init PROVE IInv
  OBVIOUS
<1>1. /\ <<>> \in Maps(Hashes, InvoiceAmounts) /\ <<>> \in Maps(Hashes, Payments)
      /\ DOMAIN <<>> = {}
  BY EmptyMap
<1>2. NoHtlcs \in Commitments /\ [holder |-> NoHtlcs, counterparty |-> NoHtlcs] \in States
  BY NodePaymentsAssumption DEF NoHtlcs, Commitments, States
<1>3. Typed
  BY <1>1, <1>2 DEF Init, Typed, States
<1>4. node.invoices = <<>> /\ node.payments = <<>> /\ disk.preimages = {}
  BY DEF Init
<1>5. InvoicesHavePayments /\ PreimagesWereGiven
  BY <1>1, <1>4 DEF InvoicesHavePayments, PreimagesWereGiven
<1>6. ASSUME NEW h \in Hashes, NEW c \in Channels
      PROVE  /\ PaymentOf(node.payments, h).outgoing[c] = payments_summary(channels[c], h)
             /\ PaymentOf(node.payments, h).incoming[c]
                    <= incoming_payments_summary(channels[c], h)
  <2>1. PaymentOf(node.payments, h) = RoutedPayment_new
    BY <1>1, <1>4 DEF PaymentOf
  <2>2. PaymentOf(node.payments, h).outgoing[c] = 0 /\ PaymentOf(node.payments, h).incoming[c] = 0
    BY <2>1 DEF RoutedPayment_new
  <2>3. channels[c] = [holder |-> NoHtlcs, counterparty |-> NoHtlcs]
    BY DEF Init
  <2>4. payments_summary(channels[c], h) = 0 /\ incoming_payments_summary(channels[c], h) = 0
    BY <2>3 DEF payments_summary, incoming_payments_summary, NoHtlcs
  <2>. QED  BY <2>2, <2>4
<1>7. Counted
  BY <1>3, <1>6, CountedEach DEF CountedIn
<1>. QED  BY <1>3, <1>5, <1>7 DEF IInv

\* A commitment is entered as it is taken.
LEMMA NewCommitmentIInv ==
    ASSUME IInv, NEW c \in Channels, NEW new \in States, NewCommitment(c, new)
    PROVE  IInv'
<1>. DEFINE after == apply_payments(node.payments, c, channels[c], new)
<1>1. /\ node.payments \in Maps(Hashes, Payments)
      /\ node.invoices \in Maps(Hashes, InvoiceAmounts)
      /\ node.issued_invoices \in SUBSET Hashes
      /\ channels \in [Channels -> States]
  BY DEF IInv, Typed, States
<1>2. /\ after \in Maps(Hashes, Payments)
      /\ DOMAIN node.payments \subseteq DOMAIN after
      /\ \A h \in DOMAIN after : after[h].preimage = PaymentOf(node.payments, h).preimage
      /\ \A h \in Hashes : CountedIn(node.payments, channels, h) =>
            CountedIn(after, [channels EXCEPT ![c] = new], h)
  BY <1>1, ApplyCounts
<1>. HIDE DEF after
<1>3. /\ node' = [node EXCEPT !.payments = after]
      /\ channels' = [channels EXCEPT ![c] = new]
      /\ UNCHANGED <<disk, paid, status>>
  BY DEF NewCommitment, after
<1>4. /\ node'.payments = after /\ node'.invoices = node.invoices
      /\ node'.issued_invoices = node.issued_invoices
  BY <1>3 DEF IInv, Typed
<1>5. Typed'
  <2>1. channels' \in [Channels -> States]
    BY <1>1, <1>3
  <2>2. node' \in [invoices : Maps(Hashes, InvoiceAmounts), issued_invoices : SUBSET Hashes,
                    payments : Maps(Hashes, Payments)]
    BY <1>2, <1>3 DEF IInv, Typed
  <2>. QED  BY <1>3, <2>1, <2>2 DEF IInv, Typed, States
<1>6. InvoicesHavePayments'
  BY <1>2, <1>4 DEF IInv, InvoicesHavePayments
<1>7. PreimagesWereGiven'
  <2>1. ASSUME NEW h \in DOMAIN after, after[h].preimage PROVE h \in paid
    <3>1. PaymentOf(node.payments, h).preimage
      BY <1>2, <2>1
    <3>2. ~RoutedPayment_new.preimage
      BY DEF RoutedPayment_new
    <3>. QED  BY <3>1, <3>2 DEF PaymentOf, IInv, PreimagesWereGiven
  <2>. QED  BY <1>3, <1>4, <2>1 DEF IInv, PreimagesWereGiven
<1>8. Counted'
  <2>1. \A h \in Hashes \ paid : CountedIn(node.payments, channels, h)
    BY CountedEach DEF IInv
  <2>. QED  BY <1>2, <1>3, <1>4, <1>5, <2>1, CountedEachNext
<1>. QED  BY <1>5, <1>6, <1>7, <1>8 DEF IInv

\* Counted stays when the payments of what is not paid stay.
LEMMA CountedStays ==
    ASSUME IInv, Typed', UNCHANGED channels, paid \subseteq paid',
           \A h \in Hashes \ paid' :
              \/ PaymentOf(node'.payments, h).outgoing = PaymentOf(node.payments, h).outgoing
                 /\ PaymentOf(node'.payments, h).incoming = PaymentOf(node.payments, h).incoming
              \/ /\ PaymentOf(node'.payments, h) = RoutedPayment_new
                 /\ \A c \in Channels : PaymentOf(node.payments, h).outgoing[c] = 0
    PROVE  Counted'
<1>1. ASSUME NEW h \in Hashes \ paid' PROVE CountedIn(node'.payments, channels', h)
  <2>1. CountedIn(node.payments, channels, h)
    BY CountedEach DEF IInv
  <2>2. ASSUME NEW c \in Channels
        PROVE  /\ PaymentOf(node'.payments, h).outgoing[c] = payments_summary(channels[c], h)
               /\ PaymentOf(node'.payments, h).incoming[c]
                      <= incoming_payments_summary(channels[c], h)
    <3>1. /\ PaymentOf(node.payments, h).outgoing[c] = payments_summary(channels[c], h)
          /\ PaymentOf(node.payments, h).incoming[c]
                <= incoming_payments_summary(channels[c], h)
      BY <2>1 DEF CountedIn
    <3>2. RoutedPayment_new.outgoing[c] = 0 /\ RoutedPayment_new.incoming[c] = 0
      BY DEF RoutedPayment_new
    <3>3. incoming_payments_summary(channels[c], h) \in Nat
      <4>1. channels[c] \in States
        BY DEF IInv, Typed, States
      <4>. QED  BY <4>1, SummaryType
    <3>. QED  BY <3>1, <3>2, <3>3
  <2>. QED  BY <2>2 DEF CountedIn
<1>. QED  BY <1>1, CountedEachNext

\* What is written has no preimage that was not given.
LEMMA EntryType ==
    ASSUME NEW n \in [invoices : Maps(Hashes, InvoiceAmounts), issued_invoices : SUBSET Hashes,
                      payments : Maps(Hashes, Payments)]
    PROVE  Entry(n) \in [invoices : Maps(Hashes, InvoiceAmounts),
                         issued_invoices : SUBSET Hashes, preimages : SUBSET Hashes]
<1>1. n.payments \in Maps(Hashes, Payments)
  OBVIOUS
<1>2. DOMAIN n.payments \subseteq Hashes
  BY <1>1, MapType
<1>. QED  BY <1>2 DEF Entry

\* A new invoice comes with a payment of its own.
LEMMA AddInvoiceIInv ==
    ASSUME IInv, NEW h \in Hashes, NEW amount \in InvoiceAmounts, AddInvoice(h, amount)
    PROVE  IInv'
<1>. DEFINE inv == Put(node.invoices, h, amount)
            ps == Put(node.payments, h, PaymentOf(node.payments, h))
<1>1. /\ node.payments \in Maps(Hashes, Payments)
      /\ node.invoices \in Maps(Hashes, InvoiceAmounts)
      /\ node.issued_invoices \in SUBSET Hashes
  BY DEF IInv, Typed
<1>2. inv \in Maps(Hashes, InvoiceAmounts) /\ DOMAIN inv = {h} \cup DOMAIN node.invoices
  <2>1. inv \in Maps(Hashes, InvoiceAmounts)
    BY <1>1, PutMap, Zenon
  <2>2. DOMAIN inv = {h} \cup DOMAIN node.invoices
    BY DEF Put
  <2>. QED  BY <2>1, <2>2
<1>3. PaymentOf(node.payments, h) \in Payments
  BY <1>1, PaymentType
<1>4. /\ ps \in Maps(Hashes, Payments)
      /\ DOMAIN ps = {h} \cup DOMAIN node.payments
      /\ \A x \in {h} \cup DOMAIN node.payments :
            ps[x] = IF x = h THEN PaymentOf(node.payments, h) ELSE node.payments[x]
  <2>1. ps \in Maps(Hashes, Payments)
    BY <1>1, <1>3, PutMap, Zenon
  <2>2. /\ DOMAIN ps = {h} \cup DOMAIN node.payments
        /\ \A x \in {h} \cup DOMAIN node.payments :
              ps[x] = IF x = h THEN PaymentOf(node.payments, h) ELSE node.payments[x]
    BY DEF Put
  <2>. HIDE DEF ps
  <2>. QED  BY <2>1, <2>2
<1>. HIDE DEF inv, ps
<1>5. /\ node' = [node EXCEPT !.invoices = inv, !.payments = ps]
      /\ disk' = Entry(node')
      /\ UNCHANGED <<channels, paid, status>>
  BY DEF AddInvoice, inv, ps
<1>6. /\ node'.payments = ps /\ node'.invoices = inv
      /\ node' \in [invoices : Maps(Hashes, InvoiceAmounts), issued_invoices : SUBSET Hashes,
                     payments : Maps(Hashes, Payments)]
  BY <1>2, <1>4, <1>5 DEF IInv, Typed
<1>7. \A x : PaymentOf(ps, x) = PaymentOf(node.payments, x)
  BY <1>4 DEF PaymentOf
<1>8. Typed'
  BY <1>5, <1>6, EntryType DEF IInv, Typed
<1>9. InvoicesHavePayments'
  BY <1>2, <1>4, <1>6 DEF IInv, InvoicesHavePayments
<1>10. \A x \in DOMAIN ps : ps[x].preimage => x \in paid
  <2>1. ~RoutedPayment_new.preimage
    BY DEF RoutedPayment_new
  <2>. QED  BY <1>4, <2>1 DEF PaymentOf, IInv, PreimagesWereGiven
<1>11. PreimagesWereGiven'
  <2>1. disk'.preimages = {x \in DOMAIN ps : ps[x].preimage}
    BY <1>5, <1>6 DEF Entry
  <2>. QED  BY <1>5, <1>6, <1>10, <2>1 DEF PreimagesWereGiven
<1>12. Counted'
  BY <1>5, <1>6, <1>7, <1>8, CountedStays
<1>. QED  BY <1>8, <1>9, <1>11, <1>12 DEF IInv

\* An invoice of one's own says nothing of what is sent.
LEMMA SignInvoiceIInv ==
    ASSUME IInv, NEW h \in Hashes, SignInvoice(h)
    PROVE  IInv'
<1>1. /\ node' = [node EXCEPT !.issued_invoices = @ \cup {h}]
      /\ UNCHANGED <<channels, disk, paid, status>>
  BY DEF SignInvoice
<1>2. node'.payments = node.payments /\ node'.invoices = node.invoices
  BY <1>1 DEF IInv, Typed
<1>3. Typed'
  BY <1>1 DEF IInv, Typed
<1>4. InvoicesHavePayments' /\ PreimagesWereGiven'
  BY <1>1, <1>2 DEF IInv, InvoicesHavePayments, PreimagesWereGiven
<1>5. Counted'
  BY <1>1, <1>2, <1>3, CountedStays
<1>. QED  BY <1>3, <1>4, <1>5 DEF IInv

\* A preimage: the payment is no longer counted.
LEMMA FulfilledIInv ==
    ASSUME IInv, NEW h \in Hashes, htlc_fulfilled(h)
    PROVE  IInv'
<1>. DEFINE q == [node.payments[h] EXCEPT !.preimage = TRUE]
            ps == [node.payments EXCEPT ![h] = q]
<1>1. /\ node.payments \in Maps(Hashes, Payments) /\ h \in DOMAIN node.payments
      /\ node.payments[h] \in Payments
  <2>1. node.payments \in Maps(Hashes, Payments) /\ h \in DOMAIN node.payments
    BY DEF IInv, Typed, htlc_fulfilled
  <2>. QED  BY <2>1, MapType
<1>2. q \in Payments
  BY <1>1 DEF Payments
<1>. HIDE DEF q
<1>3. /\ node' = [node EXCEPT !.payments = ps]
      /\ paid' = paid \cup {h}
      /\ UNCHANGED <<channels, disk, status>>
  BY DEF htlc_fulfilled, q
<1>4. /\ ps \in Maps(Hashes, Payments) /\ DOMAIN ps = DOMAIN node.payments
      /\ \A x \in DOMAIN node.payments : x # h => ps[x] = node.payments[x]
  <2>1. PICK D \in SUBSET Hashes : node.payments \in [D -> Payments]
    BY <1>1 DEF Maps
  <2>2. ps \in [D -> Payments] /\ DOMAIN ps = D /\ \A x \in D : x # h => ps[x] = node.payments[x]
    BY <1>2, <2>1
  <2>. HIDE DEF ps
  <2>. QED  BY <2>1, <2>2, MapFrom
<1>. HIDE DEF ps
<1>5. node'.payments = ps /\ node'.invoices = node.invoices
  BY <1>3 DEF IInv, Typed
<1>6. Typed'
  BY <1>3, <1>4 DEF IInv, Typed
<1>7. InvoicesHavePayments'
  BY <1>4, <1>5 DEF IInv, InvoicesHavePayments
<1>8. PreimagesWereGiven'
  BY <1>3, <1>4, <1>5 DEF IInv, PreimagesWereGiven
<1>9. Counted'
  <2>1. ASSUME NEW x \in Hashes \ paid' PROVE PaymentOf(ps, x) = PaymentOf(node.payments, x)
    BY <1>3, <1>4 DEF PaymentOf
  <2>. QED  BY <1>3, <1>5, <1>6, <2>1, CountedStays
<1>. QED  BY <1>6, <1>7, <1>8, <1>9 DEF IInv

\* Pruning: an invoice that is paid or of which nothing goes out, and a payment of which
\* nothing goes in or out.
LEMMA GetHeartbeatIInv ==
    ASSUME IInv, NEW overdue, NEW overdue_issued, GetHeartbeat(overdue, overdue_issued)
    PROVE  IInv'
<1>. DEFINE prune == {h \in DOMAIN node.invoices : is_invoice_prunable(overdue, h)}
            invoices == Restrict(node.invoices, DOMAIN node.invoices \ prune)
            issued == node.issued_invoices \ overdue_issued
            payments == Restrict(node.payments, DOMAIN node.payments \ prune)
            ended == {h \in DOMAIN payments :
                         is_forwarded_payment_prunable(invoices, issued, payments, h)}
            rest == Restrict(payments, DOMAIN payments \ ended)
<1>1. /\ node' = [invoices |-> invoices, issued_invoices |-> issued, payments |-> rest]
      /\ UNCHANGED <<channels, disk, paid, status>>
  <2>1. DOMAIN node.invoices \subseteq DOMAIN node.payments
    BY DEF IInv, InvoicesHavePayments
  <2>. QED  BY <2>1 DEF GetHeartbeat
<1>2. /\ node.payments \in Maps(Hashes, Payments)
      /\ node.invoices \in Maps(Hashes, InvoiceAmounts)
      /\ node.issued_invoices \in SUBSET Hashes
  BY DEF IInv, Typed
<1>3. \A h \in prune : h \in DOMAIN node.invoices /\ is_invoice_prunable(overdue, h)
  OBVIOUS
<1>. HIDE DEF prune
<1>4. /\ invoices \in Maps(Hashes, InvoiceAmounts)
      /\ DOMAIN invoices = DOMAIN node.invoices \ prune
  <2>. DEFINE S == DOMAIN node.invoices \ prune
  <2>1. S \in SUBSET DOMAIN node.invoices
    OBVIOUS
  <2>. HIDE DEF S
  <2>. QED  BY <1>2, <2>1, RestrictMap DEF S
<1>5. /\ payments \in Maps(Hashes, Payments)
      /\ DOMAIN payments = DOMAIN node.payments \ prune
      /\ \A h \in DOMAIN payments : payments[h] = node.payments[h]
  <2>. DEFINE S == DOMAIN node.payments \ prune
  <2>1. S \in SUBSET DOMAIN node.payments
    OBVIOUS
  <2>. HIDE DEF S
  <2>. QED  BY <1>2, <2>1, RestrictMap DEF S
<1>. HIDE DEF invoices, payments
<1>6. \A h \in ended : h \in DOMAIN payments /\ h \notin DOMAIN invoices /\ is_no_outgoing(payments[h])
  BY DEF is_forwarded_payment_prunable
<1>. HIDE DEF ended
<1>7. /\ rest \in Maps(Hashes, Payments)
      /\ DOMAIN rest = DOMAIN payments \ ended
      /\ \A h \in DOMAIN rest : rest[h] = payments[h]
  <2>. DEFINE S == DOMAIN payments \ ended
  <2>1. S \in SUBSET DOMAIN payments
    OBVIOUS
  <2>. HIDE DEF S
  <2>. QED  BY <1>5, <2>1, RestrictMap DEF S
<1>. HIDE DEF rest
<1>8. issued \in SUBSET Hashes
  BY <1>2
<1>. HIDE DEF issued
<1>9. node'.invoices = invoices /\ node'.payments = rest
  BY <1>1
<1>10. Typed'
  BY <1>1, <1>4, <1>7, <1>8 DEF IInv, Typed
<1>11. InvoicesHavePayments'
  BY <1>4, <1>5, <1>6, <1>7, <1>9 DEF IInv, InvoicesHavePayments
<1>12. PreimagesWereGiven'
  BY <1>1, <1>5, <1>7, <1>9 DEF IInv, PreimagesWereGiven
<1>13. ASSUME NEW h \in Hashes \ paid'
       PROVE  \/ PaymentOf(rest, h) = PaymentOf(node.payments, h)
              \/ /\ PaymentOf(rest, h) = RoutedPayment_new
                 /\ \A c \in Channels : PaymentOf(node.payments, h).outgoing[c] = 0
  <2>1. CASE h \in DOMAIN rest
    BY <1>5, <1>7, <2>1 DEF PaymentOf
  <2>2. CASE h \notin DOMAIN node.payments
    BY <1>5, <1>7, <2>2 DEF PaymentOf
  <2>3. CASE h \notin DOMAIN rest /\ h \in DOMAIN node.payments
    <3>1. PaymentOf(rest, h) = RoutedPayment_new
      BY <2>3 DEF PaymentOf
    <3>2. is_no_outgoing(node.payments[h])
      <4>1. CASE h \in prune
        <5>1. node.payments[h].preimage \/ is_no_outgoing(node.payments[h])
          BY <1>3, <4>1 DEF is_invoice_prunable
        <5>2. ~node.payments[h].preimage
          BY <1>1, <2>3 DEF IInv, PreimagesWereGiven
        <5>. QED  BY <5>1, <5>2
      <4>2. CASE h \in ended
        BY <1>5, <1>6, <4>2
      <4>. QED  BY <1>5, <1>7, <2>3, <4>1, <4>2
    <3>3. node.payments[h].outgoing \in [Channels -> Nat]
      <4>1. node.payments[h] \in Payments
        BY <1>2, <2>3, MapType
      <4>. QED  BY <4>1 DEF Payments
    <3>4. \A c \in Channels : node.payments[h].outgoing[c] = 0
      BY <3>2, <3>3, TotalZero DEF is_no_outgoing
    <3>. QED  BY <2>3, <3>1, <3>4 DEF PaymentOf
  <2>. QED  BY <2>1, <2>2, <2>3
<1>14. Counted'
  BY <1>1, <1>9, <1>10, <1>13, CountedStays
<1>. QED  BY <1>10, <1>11, <1>12, <1>14 DEF IInv

\* The restart takes the invoices from the disk and the payments from the channels.
LEMMA RestartIInv ==
    ASSUME IInv, Restart
    PROVE  IInv'
<1>. DEFINE old == RestoredPayments(disk)
            after == restore_payments(old)
<1>1. /\ node' = [invoices |-> disk.invoices, issued_invoices |-> disk.issued_invoices,
                  payments |-> after]
      /\ status' = "up"
      /\ UNCHANGED <<channels, disk, paid>>
  BY DEF Restart
<1>2. disk \in [invoices : Maps(Hashes, InvoiceAmounts), issued_invoices : SUBSET Hashes,
                preimages : SUBSET Hashes]
  BY DEF IInv, Typed
<1>3. /\ old \in Maps(Hashes, Payments)
      /\ DOMAIN old = disk.preimages \cup DOMAIN disk.invoices
      /\ \A h \in DOMAIN old : old[h].preimage => h \in disk.preimages
      /\ \A h \in Hashes, c \in Channels :
            PaymentOf(old, h).incoming[c] = 0 /\ PaymentOf(old, h).outgoing[c] = 0
  BY <1>2, RestoredType
<1>. HIDE DEF old
<1>4. channels \in [Channels -> States]
  BY DEF IInv, Typed, States
<1>5. /\ after \in Maps(Hashes, Payments)
      /\ DOMAIN old \subseteq DOMAIN after
      /\ \A h \in DOMAIN after : after[h].preimage = PaymentOf(old, h).preimage
      /\ \A h \in Hashes : CountedIn(after, channels, h)
  BY <1>3, <1>4, RestoreCounts
<1>. HIDE DEF after
<1>6. node'.invoices = disk.invoices /\ node'.payments = after
  BY <1>1
<1>7. Typed'
  BY <1>1, <1>2, <1>5 DEF IInv, Typed
<1>8. InvoicesHavePayments'
  BY <1>3, <1>5, <1>6 DEF InvoicesHavePayments
<1>9. PreimagesWereGiven'
  <2>1. ~RoutedPayment_new.preimage
    BY DEF RoutedPayment_new
  <2>2. \A h \in DOMAIN after : after[h].preimage => h \in disk.preimages
    BY <1>3, <1>5, <2>1 DEF PaymentOf
  <2>. QED  BY <1>1, <1>6, <2>2 DEF IInv, PreimagesWereGiven
<1>10. Counted'
  BY <1>1, <1>5, <1>6, <1>7, CountedEachNext
<1>. QED  BY <1>7, <1>8, <1>9, <1>10 DEF IInv

\* A request for a commitment changes one of the two of its channel.
LEMMA CommitmentRequest ==
    ASSUME IInv, NEW c \in Channels, NEW tx \in Commitments,
           ValidateHolderCommitmentTx(c, tx) \/ SignCounterpartyCommitmentTx(c, tx)
    PROVE  \E new \in States : NewCommitment(c, new)
<1>1. channels[c] \in States
  BY DEF IInv, Typed, States
<1>2. CASE ValidateHolderCommitmentTx(c, tx)
  <2>1. [channels[c] EXCEPT !.holder = tx] \in States
    BY <1>1 DEF States
  <2>. QED  BY <1>2, <2>1 DEF ValidateHolderCommitmentTx
<1>3. CASE SignCounterpartyCommitmentTx(c, tx)
  <2>1. [channels[c] EXCEPT !.counterparty = tx] \in States
    BY <1>1 DEF States
  <2>. QED  BY <1>3, <2>1 DEF SignCounterpartyCommitmentTx
<1>. QED  BY <1>2, <1>3

\* Every step keeps the invariant.
LEMMA NextIInv == IInv /\ [Next]_vars => IInv'
<1>. SUFFICES ASSUME IInv, [Next]_vars PROVE IInv'
  OBVIOUS
<1>1. CASE \E c \in Channels, tx \in Commitments :
              ValidateHolderCommitmentTx(c, tx) \/ SignCounterpartyCommitmentTx(c, tx)
  BY <1>1, CommitmentRequest, NewCommitmentIInv
<1>2. CASE \E h \in Hashes, amount \in InvoiceAmounts : AddInvoice(h, amount)
  BY <1>2, AddInvoiceIInv
<1>3. CASE \E h \in Hashes : SignInvoice(h) \/ htlc_fulfilled(h)
  BY <1>3, SignInvoiceIInv, FulfilledIInv
<1>4. CASE \E overdue \in SUBSET DOMAIN node.invoices,
              overdue_issued \in SUBSET node.issued_invoices :
              GetHeartbeat(overdue, overdue_issued)
  BY <1>4, GetHeartbeatIInv
<1>5. CASE Restart
  BY <1>5, RestartIInv
<1>6. CASE UNCHANGED vars
  <2>1. UNCHANGED <<node, channels, disk, paid, status>>
    BY <1>6 DEF vars
  <2>2. Typed' /\ InvoicesHavePayments' /\ PreimagesWereGiven'
    BY <2>1 DEF IInv, Typed, InvoicesHavePayments, PreimagesWereGiven
  <2>3. Counted'
    BY <2>1, <2>2, CountedStays
  <2>. QED  BY <2>2, <2>3 DEF IInv
<1>. QED  BY <1>1, <1>2, <1>3, <1>4, <1>5, <1>6 DEF Next

\* The inductive invariant holds throughout.
THEOREM PaymentsInvariant == Spec => []IInv
<1>. QED  BY InitIInv, NextIInv, PTL DEF Spec

------------------------------------------------------------------------------
(* The properties                                                           *)

\* prune_invoices finds a payment for every invoice.
THEOREM PruningIsSafe == Spec => []PruningNeverPanics
<1>1. IInv => PruningNeverPanics
  BY DEF IInv, Typed, PruningNeverPanics
<1>. QED  BY <1>1, PaymentsInvariant, PTL

\* What is in flight is on record, over every pruning and every restart.
THEOREM InFlightIsAlwaysRecorded == Spec => []InFlightIsRecorded
<1>1. ASSUME IInv PROVE InFlightIsRecorded
  <2>1. ASSUME NEW h \in Hashes \ paid, NEW c \in Channels, MayLose(c, h) > 0
        PROVE  h \in DOMAIN node.payments /\ node.payments[h].outgoing[c] = MayLose(c, h)
    <3>1. PaymentOf(node.payments, h).outgoing[c] = MayLose(c, h)
      BY <1>1 DEF IInv, Counted
    <3>2. RoutedPayment_new.outgoing[c] = 0
      BY DEF RoutedPayment_new
    <3>3. h \in DOMAIN node.payments
      BY <2>1, <3>1, <3>2 DEF PaymentOf
    <3>. QED  BY <3>1, <3>3 DEF PaymentOf
  <2>. QED  BY <2>1 DEF InFlightIsRecorded
<1>. QED  BY <1>1, PaymentsInvariant, PTL

\* What is spent over all channels, in terms of the summaries.
SpentIn(chs, h) ==
    Total([c \in Channels |-> payments_summary(chs[c], h)])
      - Total([c \in Channels |-> incoming_payments_summary(chs[c], h)])

\* It is a number.
LEMMA SpentType ==
    ASSUME NEW chs \in [Channels -> States], NEW h \in Hashes
    PROVE  SpentIn(chs, h) \in Int
<1>. DEFINE f == [d \in Channels |-> payments_summary(chs[d], h)]
            g == [d \in Channels |-> incoming_payments_summary(chs[d], h)]
<1>1. IsFiniteSet(Channels) /\ \A d \in Channels : f[d] \in Nat /\ g[d] \in Nat
  BY SummaryType, NodePaymentsAssumption
<1>. HIDE DEF f, g
<1>2. Total(f) \in Nat /\ Total(g) \in Nat
  BY <1>1, SumType DEF Total
<1>3. SpentIn(chs, h) = Total(f) - Total(g)
  BY DEF SpentIn, f, g
<1>. QED  BY <1>2, <1>3

\* NetInFlight is that, now and after a step.
LEMMA SpentIs ==
    ASSUME channels \in [Channels -> States], channels' \in [Channels -> States],
           NEW h \in Hashes
    PROVE  NetInFlight(h) = SpentIn(channels, h) /\ NetInFlight(h)' = SpentIn(channels', h)
<1>1. ASSUME NEW c \in Channels
      PROVE  /\ MayLose(c, h) = payments_summary(channels[c], h)
             /\ SureToGet(c, h) = incoming_payments_summary(channels[c], h)
             /\ MayLose(c, h)' = payments_summary(channels'[c], h)
             /\ SureToGet(c, h)' = incoming_payments_summary(channels'[c], h)
  <2>1. channels[c] \in States /\ channels'[c] \in States
    OBVIOUS
  <2>. QED  BY <2>1, Summaries DEF MayLose, SureToGet
<1>2. /\ [c \in Channels |-> MayLose(c, h)]
            = [c \in Channels |-> payments_summary(channels[c], h)]
      /\ [c \in Channels |-> SureToGet(c, h)]
            = [c \in Channels |-> incoming_payments_summary(channels[c], h)]
  BY <1>1
<1>3. /\ [c \in Channels |-> MayLose(c, h)']
            = [c \in Channels |-> payments_summary(channels'[c], h)]
      /\ [c \in Channels |-> SureToGet(c, h)']
            = [c \in Channels |-> incoming_payments_summary(channels'[c], h)]
  BY <1>1
<1>4. NetInFlight(h) = SpentIn(channels, h)
  BY <1>2 DEF NetInFlight, SpentIn
<1>5. NetInFlight(h)' = SpentIn(channels', h)
  BY <1>3 DEF NetInFlight, SpentIn, Total
<1>. QED  BY <1>4, <1>5

\* A commitment that is taken raises what is spent on an invoice to at most its amount and
\* the fee: the balance was validated over what is counted in all channels.
LEMMA CommitmentWithinInvoice ==
    ASSUME IInv, IInv', NEW c \in Channels, NEW new \in States, NewCommitment(c, new),
           NEW h \in DOMAIN node.invoices \ paid,
           SpentIn(channels', h) > SpentIn(channels, h)
    PROVE  SpentIn(channels', h) <= node.invoices[h] + MaxRoutingFee
<1>. DEFINE p == PaymentOf(node.payments, h)
            loss == [d \in Channels |-> payments_summary(channels'[d], h)]
            gain == [d \in Channels |-> incoming_payments_summary(channels'[d], h)]
            out == [p.outgoing EXCEPT ![c] = payments_summary(new, h)]
            in == [p.incoming EXCEPT ![c] = incoming_payments_summary(new, h)]
<1>1. /\ channels \in [Channels -> States] /\ channels' \in [Channels -> States]
      /\ channels' = [channels EXCEPT ![c] = new]
      /\ node.payments \in Maps(Hashes, Payments)
      /\ node.invoices \in Maps(Hashes, InvoiceAmounts)
  BY DEF IInv, Typed, States, NewCommitment
<1>2. h \in Hashes /\ node.invoices[h] \in Nat /\ MaxRoutingFee \in Nat
  <2>1. h \in Hashes /\ node.invoices[h] \in InvoiceAmounts
    BY <1>1, MapType
  <2>. QED  BY <2>1, NodePaymentsAssumption
<1>3. h \in Summarized(channels[c], new)
  <2>1. SUFFICES ASSUME h \notin Summarized(channels[c], new)
                 PROVE  SpentIn(channels', h) = SpentIn(channels, h)
    <3>1. SpentIn(channels, h) \in Int /\ SpentIn(channels', h) \in Int
      BY <1>1, <1>2, SpentType
    <3>. QED  BY <3>1
  <2>2. channels[c] \in States
    BY <1>1
  <2>3. /\ payments_summary(channels[c], h) = payments_summary(new, h)
        /\ incoming_payments_summary(channels[c], h) = incoming_payments_summary(new, h)
    BY <1>2, <2>1, <2>2, NotSummarized
  <2>4. \A d \in Channels :
           /\ payments_summary(channels[d], h) = payments_summary(channels'[d], h)
           /\ incoming_payments_summary(channels[d], h)
                 = incoming_payments_summary(channels'[d], h)
    BY <1>1, <2>3
  <2>5. /\ loss = [d \in Channels |-> payments_summary(channels[d], h)]
        /\ gain = [d \in Channels |-> incoming_payments_summary(channels[d], h)]
    BY <2>4
  <2>. QED  BY <2>5 DEF SpentIn
<1>4. updated_incoming(p, c, incoming_payments_summary(new, h))
        + (node.invoices[h] + MaxRoutingFee) >= updated_outgoing(p, c, payments_summary(new, h))
  BY <1>3 DEF NewCommitment, validate_payments, validate_payment_balance, Invoiced
<1>5. p \in Payments
  BY <1>1, PaymentType
<1>6. \A d \in Channels :
         /\ p.outgoing[d] = payments_summary(channels[d], h)
         /\ p.incoming[d] <= incoming_payments_summary(channels[d], h)
  <2>1. CountedIn(node.payments, channels, h)
    BY <1>2, CountedEach DEF IInv
  <2>. QED  BY <2>1 DEF CountedIn
<1>. HIDE DEF p
<1>7. p.incoming \in [Channels -> Nat] /\ p.outgoing \in [Channels -> Nat]
  BY <1>5 DEF Payments
<1>8. \A d \in Channels :
         /\ payments_summary(channels'[d], h) \in Nat
         /\ incoming_payments_summary(channels'[d], h) \in Nat
  BY <1>1, <1>2, SummaryType
<1>9. \A d \in Channels : loss[d] \in Nat /\ out[d] = loss[d]
  BY <1>1, <1>6, <1>7, <1>8
<1>10. \A d \in Channels : in[d] \in Nat /\ gain[d] \in Nat /\ in[d] <= gain[d]
  <2>1. ASSUME NEW d \in Channels
        PROVE  in[d] \in Nat /\ gain[d] \in Nat /\ in[d] <= gain[d]
    <3>1. CASE d = c
      <4>1. in[d] = incoming_payments_summary(new, h) /\ channels'[d] = new
        BY <1>1, <1>7, <3>1
      <4>. QED  BY <1>8, <4>1
    <3>2. CASE d # c
      <4>1. in[d] = p.incoming[d] /\ channels'[d] = channels[d] /\ p.incoming[d] \in Nat
        BY <1>1, <1>7, <3>2
      <4>. QED  BY <1>6, <1>8, <4>1
    <3>. QED  BY <3>1, <3>2
  <2>. QED  BY <2>1
<1>11. SpentIn(channels', h) = Total(loss) - Total(gain)
  BY DEF SpentIn
<1>12. Total(in) + (node.invoices[h] + MaxRoutingFee) >= Total(out)
  BY <1>4 DEF updated_incoming, updated_outgoing
<1>. HIDE DEF loss, gain, in, out
<1>13. IsFiniteSet(Channels)
  BY NodePaymentsAssumption
<1>14. Total(out) = Total(loss)
  BY <1>9, <1>13, SumSame DEF Total
<1>15. Total(in) <= Total(gain)
  BY <1>10, <1>13, SumMonotone DEF Total
<1>16. Total(in) \in Nat /\ Total(gain) \in Nat /\ Total(loss) \in Nat
  BY <1>9, <1>10, <1>13, SumType DEF Total
<1>. QED  BY <1>2, <1>11, <1>12, <1>14, <1>15, <1>16

\* No commitment raises what is in flight at once, in the current commitments of all channels,
\* for an unpaid invoice above its amount and the routing fee, after any prunings and restarts
\* (NodeState::validate_payments).
THEOREM InFlightStaysWithinInvoice == Spec => InFlightWithinInvoice
<1>1. ASSUME IInv, IInv', [Next]_vars
      PROVE  [\A h \in DOMAIN node.invoices \ paid :
                 NetInFlight(h)' > NetInFlight(h) => NetInFlight(h)' <= node.invoices[h] + MaxRoutingFee]_vars
  <2>1. SUFFICES ASSUME NEW h \in DOMAIN node.invoices \ paid, NetInFlight(h)' > NetInFlight(h)
                 PROVE  NetInFlight(h)' <= node.invoices[h] + MaxRoutingFee
    OBVIOUS
  <2>2. /\ channels \in [Channels -> States] /\ channels' \in [Channels -> States]
        /\ node.invoices \in Maps(Hashes, InvoiceAmounts)
    BY <1>1 DEF IInv, Typed, States
  <2>3. h \in Hashes
    BY <2>2, MapType
  <2>4. NetInFlight(h) = SpentIn(channels, h) /\ NetInFlight(h)' = SpentIn(channels', h)
    BY <2>2, <2>3, SpentIs
  <2>. HIDE DEF NetInFlight
  <2>5. CASE \E c \in Channels, tx \in Commitments :
                ValidateHolderCommitmentTx(c, tx) \/ SignCounterpartyCommitmentTx(c, tx)
    <3>1. PICK c \in Channels, new \in States : NewCommitment(c, new)
      BY <1>1, <2>5, CommitmentRequest
    <3>. QED  BY <1>1, <2>1, <2>4, <3>1, CommitmentWithinInvoice
  <2>6. CASE UNCHANGED channels
    <3>1. SpentIn(channels, h) \in Int
      BY <2>2, <2>3, SpentType
    <3>. QED  BY <2>1, <2>4, <2>6, <3>1
  <2>7. CASE Next
    <3>1. UNCHANGED channels \/ \E c \in Channels, tx \in Commitments :
                ValidateHolderCommitmentTx(c, tx) \/ SignCounterpartyCommitmentTx(c, tx)
      BY <2>7 DEF Next, AddInvoice, SignInvoice, htlc_fulfilled, GetHeartbeat, Restart
    <3>. QED  BY <2>5, <2>6, <3>1
  <2>8. CASE UNCHANGED vars
    BY <2>6, <2>8 DEF vars
  <2>. QED  BY <1>1, <2>7, <2>8
<1>. QED  BY <1>1, PaymentsInvariant, PTL DEF Spec, InFlightWithinInvoice

==============================================================================
