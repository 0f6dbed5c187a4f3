---------------------------- MODULE SpendingProofs ----------------------------
(***************************************************************************)
(* What a node may spend, for any amounts, any policy and any requests.    *)
(*                                                                         *)
(* A velocity control: its buckets hold what was spent in their intervals, *)
(* and so no window of time holds more than the limit.  The approvals, in  *)
(* which an approver and the node each keep one.  The funds of a channel   *)
(* and of the wallet: each theorem on them names the checks of the policy  *)
(* it rests on, which the policy's filter must not turn into warnings.     *)
(***************************************************************************)
EXTENDS Approvals, Funds, SumTheorems

------------------------------------------------------------------------------
(* Intervals of time                                                        *)

\* The number of the interval that a second is in.
IntervalOf(t) == t \div BucketInterval

\* The seconds of the intervals from number a to number b.
Slice(a, b) == {t \in Seconds : a <= IntervalOf(t) /\ IntervalOf(t) <= b}

\* Division with remainder.
LEMMA Divides ==
    ASSUME NEW t \in Nat, NEW b \in Nat \ {0}
    PROVE  /\ t \div b \in Nat
           /\ t % b \in 0..(b - 1)
           /\ t = b * (t \div b) + (t % b)
OBVIOUS

\* A multiple of b that is not larger is at most the quotient.
LEMMA QuotientLeast ==
    ASSUME NEW t \in Nat, NEW b \in Nat \ {0}, NEW m \in Int
    PROVE  b * m <= t <=> m <= t \div b
<1>. DEFINE q == t \div b
            r == t % b
<1>1. q \in Nat /\ r \in 0..(b - 1) /\ t = b * q + r
  BY Divides
<1>. HIDE DEF q, r
<1>2. CASE m <= q
  <2>1. b * (q - m) >= 0
    BY <1>1, <1>2
  <2>2. b * (q - m) = b * q - b * m /\ b * q \in Int /\ b * m \in Int
    BY <1>1
  <2>. QED  BY <1>1, <1>2, <2>1, <2>2 DEF q
<1>3. CASE m > q
  <2>1. b * (m - q - 1) >= 0
    BY <1>1, <1>3
  <2>2. b * (m - q - 1) = b * m - b * q - b /\ b * q \in Int /\ b * m \in Int
    BY <1>1
  <2>3. b * m > t
    BY <1>1, <2>1, <2>2
  <2>. QED  BY <1>1, <1>3, <2>2, <2>3 DEF q
<1>. QED  BY <1>1, <1>2, <1>3

\* What is left after a multiple of b.
LEMMA QuotientRest ==
    ASSUME NEW t \in Nat, NEW b \in Nat \ {0}, NEW m \in Nat, b * m <= t
    PROVE  /\ t - b * m \in Nat
           /\ (t - b * m) \div b = t \div b - m
<1>. DEFINE q == t \div b
            r == t % b
<1>1. q \in Nat /\ r \in 0..(b - 1) /\ t = b * q + r
  BY Divides
<1>2. b * m \in Nat /\ b * q \in Nat
  BY <1>1
<1>3. m <= q
  BY QuotientLeast
<1>. HIDE DEF q, r
<1>4. t - b * m = b * (q - m) + r
  BY <1>1
<1>5. t - b * m \in Nat
  BY <1>2
<1>. DEFINE s == t - b * m
            k == s \div b
<1>. HIDE DEF s, k
<1>6. k \in Nat /\ q - m \in Nat /\ s \in Nat
  BY <1>1, <1>3, <1>5, Divides DEF s, k
<1>7. k >= q - m
  <2>1. b * (q - m) <= s
    <3>1. b * (q - m) \in Int
      BY <1>1
    <3>. QED  BY <1>1, <1>4, <3>1 DEF s
  <2>. QED  BY <1>6, <2>1, QuotientLeast DEF k
<1>8. k <= q - m
  <2>1. ~(b * (q - m + 1) <= s)
    <3>1. b * (q - m + 1) = b * (q - m) + b /\ b * (q - m) \in Int
      BY <1>1
    <3>. QED  BY <1>1, <1>4, <3>1 DEF s
  <2>2. q - m + 1 \in Int
    BY <1>6
  <2>3. ~(q - m + 1 <= k)
    BY <1>6, <2>1, <2>2, QuotientLeast DEF k
  <2>. QED  BY <1>6, <2>3
<1>. QED  BY <1>5, <1>6, <1>7, <1>8 DEF s, k, q

\* The seconds are finitely many.
LEMMA SecondsFinite == ASSUME NEW S \in SUBSET Seconds PROVE IsFiniteSet(S)
<1>1. IsFiniteSet(Seconds)
  BY FS_Interval, SpendingLogAssumption, VelocityControlAssumption DEF Seconds
<1>. QED  BY <1>1, FS_Subset

\* The interval of a second, in order.
LEMMA Intervals ==
    ASSUME NEW t \in Nat
    PROVE  /\ IntervalOf(t) \in Nat
           /\ t - (t % BucketInterval) = BucketInterval * IntervalOf(t)
           /\ BucketInterval * IntervalOf(t) <= t
           /\ \A u \in Nat : u <= t => IntervalOf(u) <= IntervalOf(t)
<1>1. BucketInterval \in Nat \ {0}
  BY VelocityControlAssumption
<1>2. \A u \in Nat : /\ IntervalOf(u) \in Nat
                    /\ u % BucketInterval \in Nat
                    /\ u = BucketInterval * IntervalOf(u) + (u % BucketInterval)
                    /\ BucketInterval * IntervalOf(u) \in Nat
  BY <1>1, Divides DEF IntervalOf
<1>3. \A u \in Nat : BucketInterval * IntervalOf(u) <= u
  BY <1>2
<1>4. ASSUME NEW u \in Nat, u <= t PROVE IntervalOf(u) <= IntervalOf(t)
  <2>1. BucketInterval * IntervalOf(u) <= t
    BY <1>2, <1>3, <1>4
  <2>. QED  BY <1>1, <1>2, <2>1, QuotientLeast DEF IntervalOf
<1>. QED  BY <1>2, <1>3, <1>4

\* The buckets together hold what their intervals hold.
LEMMA BucketsSum ==
    ASSUME NEW f \in [Buckets -> Nat], NEW log \in [Seconds -> Nat], NEW n \in Int,
           \A i \in Buckets : f[i] = SumFunctionOnSet(log, Slice(n - i + 1, n - i + 1))
    PROVE  SumFunctionOnSet(f, Buckets) = SumFunctionOnSet(log, Slice(n - NumBuckets + 1, n))
<1>. DEFINE SumOf(S) == SumFunctionOnSet(log, S)
            Of(k) == Slice(n - k + 1, n)
            G == {k \in Nat : k <= NumBuckets => SumFunctionOnSet(f, 1..k) = SumOf(Of(k))}
<1>1. NumBuckets \in Nat /\ Buckets = 1..NumBuckets
  BY VelocityControlAssumption DEF Buckets
<1>2. \A t \in Seconds : t \in Nat /\ IntervalOf(t) \in Nat
  BY Intervals DEF Seconds
<1>3. 0 \in G
  <2>1. 1..0 = {}
    OBVIOUS
  <2>2. Of(0) = {}
    BY <1>2 DEF Slice
  <2>. QED  BY <2>1, <2>2, SumEmpty
<1>4. ASSUME NEW k \in Nat, k \in G PROVE k + 1 \in G
  <2>1. SUFFICES ASSUME k + 1 <= NumBuckets
                 PROVE  SumFunctionOnSet(f, 1..(k + 1)) = SumOf(Of(k + 1))
    OBVIOUS
  <2>2. SumFunctionOnSet(f, 1..k) = SumOf(Of(k))
    BY <1>1, <1>4, <2>1
  <2>3. SumFunctionOnSet(f, 1..(k + 1)) = f[k + 1] + SumFunctionOnSet(f, 1..k)
    <3>. DEFINE D == 1..(k + 1)
    <3>1. IsFiniteSet(D) /\ k + 1 \in D /\ D \ {k + 1} = 1..k
      BY FS_Interval
    <3>2. \A i \in D : f[i] \in Nat
      BY <1>1, <2>1
    <3>. HIDE DEF D
    <3>3. SumFunctionOnSet(f, D) = f[k + 1] + SumFunctionOnSet(f, D \ {k + 1})
      BY <3>1, <3>2, SumRemove
    <3>. QED  BY <3>1, <3>3 DEF D
  <2>. DEFINE A == Slice(n - (k + 1) + 1, n - (k + 1) + 1)
  <2>4. f[k + 1] = SumOf(A)
    <3>1. k + 1 \in Buckets
      BY <1>1, <2>1
    <3>. QED  BY <3>1
  <2>5. A \cup Of(k) = Of(k + 1) /\ A \cap Of(k) = {}
    BY <1>2 DEF Slice
  <2>6. IsFiniteSet(A) /\ IsFiniteSet(Of(k)) /\ \A t \in A \cup Of(k) : log[t] \in Nat
    <3>1. A \in SUBSET Seconds /\ Of(k) \in SUBSET Seconds
      BY DEF Slice
    <3>. HIDE DEF A, Of
    <3>. QED  BY <3>1, SecondsFinite
  <2>. HIDE DEF A, Of
  <2>7. SumOf(A \cup Of(k)) = SumOf(A) + SumOf(Of(k))
    BY <2>5, <2>6, SumUnion
  <2>. HIDE DEF SumOf
  <2>. QED  BY <2>2, <2>3, <2>4, <2>5, <2>7
<1>5. Nat \subseteq G
  <2>. HIDE DEF G
  <2>. QED  BY <1>3, <1>4, SetInduction
<1>. QED  BY <1>1, <1>5


\* What is smaller than b is its own remainder.
LEMMA SmallMod == ASSUME NEW b \in Nat \ {0}, NEW x \in 0..(b - 1) PROVE x % b = x
<1>1. x \in Nat /\ x \div b \in Nat /\ x % b \in Nat /\ x = b * (x \div b) + (x % b)
  BY Divides
<1>2. ~(1 <= x \div b)
  <2>1. ~(b * 1 <= x)
    OBVIOUS
  <2>. QED  BY <1>1, <2>1, QuotientLeast
<1>3. x \div b = 0
  BY <1>1, <1>2
<1>4. b * 0 = 0
  OBVIOUS
<1>. QED  BY <1>1, <1>3, <1>4

------------------------------------------------------------------------------
(* A control follows a log                                                  *)

Controls(limit) == [start_sec : Nat, buckets : [Buckets -> Nat], limit : {limit}]

\* Bucket i is that of the interval i - 1 before number n.
BucketsHold(buckets, log, n) ==
    \A i \in Buckets : buckets[i] = SumFunctionOnSet(log, Slice(n - i + 1, n - i + 1))

\* The control, when it is second sec, holds what the log says of the intervals of its
\* buckets, unless it has no limit; nothing is logged after its interval, or after sec.
Follows(c, log, limit, sec) ==
    /\ c \in Controls(limit)
    /\ log \in [Seconds -> Nat]
    /\ c.start_sec <= sec
    /\ c.start_sec = BucketInterval * IntervalOf(c.start_sec)
    /\ limit < U64Max => BucketsHold(c.buckets, log, IntervalOf(c.start_sec))
    /\ \A t \in Seconds : IntervalOf(t) > IntervalOf(c.start_sec) \/ t > sec => log[t] = 0

\* A new control follows an empty log.
LEMMA NewFollows ==
    ASSUME NEW limit \in 0..U64Max, NEW sec \in Seconds
    PROVE  Follows(new_with_intervals(limit), Nothing, limit, sec)
<1>. DEFINE c == new_with_intervals(limit)
<1>1. c \in Controls(limit) /\ c.start_sec = 0 /\ \A i \in Buckets : c.buckets[i] = 0
  BY DEF new_with_intervals, Controls
<1>. HIDE DEF c
<1>2. Nothing \in [Seconds -> Nat] /\ \A t \in Seconds : Nothing[t] = 0
  BY DEF Nothing
<1>3. 0 = BucketInterval * IntervalOf(0)
  <2>1. BucketInterval * IntervalOf(0) <= 0 /\ IntervalOf(0) \in Nat
    BY Intervals
  <2>2. BucketInterval * IntervalOf(0) \in Nat
    BY <2>1, VelocityControlAssumption
  <2>. QED  BY <2>1, <2>2
<1>4. BucketsHold(c.buckets, Nothing, IntervalOf(0))
  <2>1. ASSUME NEW a PROVE SumFunctionOnSet(Nothing, Slice(a, a)) = 0
    <3>. DEFINE S == Slice(a, a)
    <3>1. S \in SUBSET Seconds
      BY DEF Slice
    <3>. HIDE DEF S
    <3>2. IsFiniteSet(S) /\ \A t \in S : Nothing[t] = 0
      BY <1>2, <3>1, SecondsFinite
    <3>3. SumFunctionOnSet(Nothing, S) = 0
      BY <3>2, SumZeros
    <3>. QED  BY <3>3 DEF S
  <2>. QED  BY <1>1, <2>1 DEF BucketsHold
<1>5. 0 <= sec
  BY DEF Seconds
<1>. QED  BY <1>1, <1>2, <1>3, <1>4, <1>5 DEF Follows, c

\* Time alone changes nothing.
LEMMA LaterFollows ==
    ASSUME NEW c, NEW log, NEW limit, NEW sec \in Nat, NEW later \in Nat, sec <= later,
           Follows(c, log, limit, sec)
    PROVE  Follows(c, log, limit, later)
<1>1. c.start_sec \in Nat
  BY DEF Follows, Controls
<1>2. \A t \in Seconds : t \in Nat
  BY DEF Seconds
<1>. QED  BY <1>1, <1>2 DEF Follows

\* The buckets that move on are those of the intervals up to the present one.
LEMMA ShiftedFollows ==
    ASSUME NEW c, NEW log, NEW limit \in 0..U64Max, NEW sec \in Seconds,
           Follows(c, log, limit, sec)
    PROVE  /\ Follows(Shifted(c, sec), log, limit, sec)
           /\ Shifted(c, sec).start_sec = BucketInterval * IntervalOf(sec)
           /\ IntervalOf(Shifted(c, sec).start_sec) = IntervalOf(sec)
<1>. DEFINE m == IntervalOf(c.start_sec)
            n == IntervalOf(sec)
            b == BucketInterval
            elapsed == (sec - c.start_sec) % (U64Max + 1)
            nshift == IF elapsed \div b > NumBuckets THEN NumBuckets ELSE elapsed \div b
            moved == [i \in Buckets |-> IF i <= nshift THEN 0 ELSE c.buckets[i - nshift]]
            s == Shifted(c, sec)
<1>1. /\ c \in Controls(limit) /\ log \in [Seconds -> Nat]
      /\ c.start_sec \in Nat /\ c.start_sec <= sec
      /\ c.start_sec = b * m
      /\ c.buckets \in [Buckets -> Nat]
  BY DEF Follows, Controls
<1>2. sec \in Nat /\ sec <= U64Max /\ U64Max \in Nat
  BY SpendingLogAssumption, VelocityControlAssumption DEF Seconds
<1>3. b \in Nat \ {0} /\ NumBuckets \in Nat /\ Buckets = 1..NumBuckets
  BY VelocityControlAssumption DEF Buckets
<1>4. m \in Nat /\ n \in Nat /\ m <= n
  BY <1>1, <1>2, Intervals
<1>5. s = [c EXCEPT !.start_sec = sec - (sec % b), !.buckets = moved]
  BY DEF Shifted
<1>6. sec - (sec % b) = b * n
  BY <1>2, Intervals
<1>7. elapsed \div b = n - m
  <2>1. elapsed = sec - c.start_sec
    <3>. DEFINE x == sec - c.start_sec
    <3>1. x \in 0..((U64Max + 1) - 1) /\ U64Max + 1 \in Nat \ {0}
      BY <1>1, <1>2
    <3>. HIDE DEF x
    <3>2. x % (U64Max + 1) = x
      BY <3>1, SmallMod
    <3>. QED  BY <3>2 DEF x
  <2>. HIDE DEF elapsed
  <2>2. b * m <= sec
    BY <1>1
  <2>. HIDE DEF m, b
  <2>3. (sec - b * m) \div b = sec \div b - m
    BY <1>2, <1>3, <1>4, <2>2, QuotientRest
  <2>. QED  BY <1>1, <2>1, <2>3 DEF IntervalOf, b
<1>8. nshift = IF n - m > NumBuckets THEN NumBuckets ELSE n - m
  BY <1>7
<1>. HIDE DEF elapsed, nshift
<1>9. moved \in [Buckets -> Nat]
  <2>1. nshift \in Nat
    BY <1>3, <1>4, <1>8
  <2>2. \A i \in Buckets : ~(i <= nshift) => i - nshift \in Buckets
    BY <1>3, <2>1
  <2>. QED  BY <1>1, <2>2
<1>10. b * n \in Nat
  BY <1>3, <1>4
<1>11. /\ s \in Controls(limit)
       /\ s.start_sec = b * n /\ s.buckets = moved
  <2>. HIDE DEF moved, n, b, m, s
  <2>. QED  BY <1>1, <1>5, <1>6, <1>9, <1>10 DEF Controls
<1>12. IntervalOf(b * n) = n
  <2>1. b * n <= sec
    BY <1>2, Intervals
  <2>2. n <= (b * n) \div b
    BY <1>3, <1>4, <1>10, QuotientLeast
  <2>3. IntervalOf(b * n) <= n
    BY <1>2, <1>10, <2>1, Intervals
  <2>4. IntervalOf(b * n) \in Nat
    BY <1>10, Intervals
  <2>. HIDE DEF n
  <2>. QED  BY <1>4, <2>2, <2>3, <2>4 DEF IntervalOf
<1>13. \A t \in Seconds : t \in Nat /\ IntervalOf(t) \in Nat
  BY Intervals DEF Seconds
<1>14. \A t \in Seconds : IntervalOf(t) > m \/ t > sec => log[t] = 0
  BY DEF Follows
<1>15. ASSUME limit < U64Max PROVE BucketsHold(moved, log, n)
  <2>1. ASSUME NEW i \in Buckets
        PROVE  moved[i] = SumFunctionOnSet(log, Slice(n - i + 1, n - i + 1))
    <3>. HIDE DEF m, n
    <3>1. CASE i <= nshift
      <4>. DEFINE S == Slice(n - i + 1, n - i + 1)
      <4>1. S \in SUBSET Seconds
        BY DEF Slice
      <4>2. \A t \in S : IntervalOf(t) = n - i + 1
        BY <1>3, <1>4, <1>13 DEF Slice
      <4>. HIDE DEF S
      <4>3. n - i + 1 > m
        BY <1>3, <1>4, <1>8, <3>1
      <4>4. \A t \in S : log[t] = 0
        BY <1>14, <4>1, <4>2, <4>3
      <4>5. SumFunctionOnSet(log, S) = 0
        BY <4>1, <4>4, SecondsFinite, SumZeros
      <4>. QED  BY <3>1, <4>5 DEF S
    <3>2. CASE ~(i <= nshift)
      <4>1. nshift = n - m /\ i - nshift \in Buckets
        BY <1>3, <1>4, <1>8, <3>2
      <4>2. m - (i - nshift) + 1 = n - i + 1
        BY <1>3, <1>4, <4>1
      <4>3. c.buckets[i - nshift]
              = SumFunctionOnSet(log, Slice(m - (i - nshift) + 1, m - (i - nshift) + 1))
        BY <1>15, <4>1 DEF Follows, BucketsHold, m
      <4>. QED  BY <3>2, <4>2, <4>3
    <3>. QED  BY <3>1, <3>2
  <2>. QED  BY <2>1 DEF BucketsHold
<1>16. \A t \in Seconds : IntervalOf(t) > n \/ t > sec => log[t] = 0
  <2>. HIDE DEF m, n
  <2>. QED  BY <1>4, <1>13, <1>14
<1>17. b * n <= sec
  BY <1>2, Intervals
<1>. HIDE DEF moved, s, n, m
<1>18. Follows(s, log, limit, sec)
  BY <1>1, <1>11, <1>12, <1>15, <1>16, <1>17 DEF Follows
<1>. QED  BY <1>11, <1>12, <1>18 DEF s, n


\* The seconds that the buckets stand for at second sec.
Kept(sec) == Slice(IntervalOf(sec) - NumBuckets + 1, IntervalOf(sec))

\* They are those since the bucket of NumBuckets - 1 intervals ago began.
LEMMA KeptIs ==
    ASSUME NEW sec \in Seconds, NEW t \in Seconds
    PROVE  /\ t >= (sec - (sec % BucketInterval)) - Window
                 <=> IntervalOf(t) >= IntervalOf(sec) - NumBuckets + 1
           /\ t <= sec => IntervalOf(t) <= IntervalOf(sec)
<1>. DEFINE b == BucketInterval
            n == IntervalOf(sec)
<1>1. sec \in Nat /\ t \in Nat /\ b \in Nat \ {0} /\ NumBuckets \in Nat
  BY VelocityControlAssumption DEF Seconds
<1>2. n \in Nat /\ sec - (sec % b) = b * n
  BY <1>1, Intervals
<1>. HIDE DEF n, b
<1>3. (sec - (sec % b)) - Window = b * (n - NumBuckets + 1)
  BY <1>1, <1>2 DEF Window, b
<1>4. b * (n - NumBuckets + 1) <= t <=> n - NumBuckets + 1 <= t \div b
  BY <1>1, <1>2, QuotientLeast
<1>5. t \div b \in Nat /\ b * (n - NumBuckets + 1) \in Int
  <2>1. t \div b \in Nat
    BY <1>1, Divides
  <2>2. b * (n - NumBuckets + 1) \in Int
    BY <1>1, <1>2
  <2>. QED  BY <2>1, <2>2
<1>6. t <= sec => IntervalOf(t) <= IntervalOf(sec)
  BY <1>1, Intervals
<1>. QED  BY <1>1, <1>2, <1>3, <1>4, <1>5, <1>6 DEF n, b, IntervalOf

\* The velocity is what was logged since then.
LEMMA VelocityIs ==
    ASSUME NEW c, NEW log, NEW limit \in 0..U64Max, NEW sec \in Seconds,
           Follows(c, log, limit, sec)
    PROVE  /\ limit < U64Max =>
                 SumFunctionOnSet(Shifted(c, sec).buckets, Buckets)
                   = SumFunctionOnSet(log, Kept(sec))
           /\ SumFunctionOnSet(Shifted(c, sec).buckets, Buckets) \in Nat
           /\ SumFunctionOnSet(log, Kept(sec)) \in Nat
           /\ SumIn(log, (sec - (sec % BucketInterval)) - Window, sec)
                 = SumFunctionOnSet(log, Kept(sec))
<1>. DEFINE s == Shifted(c, sec)
            n == IntervalOf(sec)
            S == Kept(sec)
            T == {t \in Seconds : (sec - (sec % BucketInterval)) - Window <= t /\ t <= sec}
<1>1. Follows(s, log, limit, sec) /\ IntervalOf(s.start_sec) = n
  BY ShiftedFollows
<1>. HIDE DEF s
<1>2. /\ s.buckets \in [Buckets -> Nat] /\ log \in [Seconds -> Nat]
      /\ limit < U64Max => BucketsHold(s.buckets, log, n)
      /\ \A t \in Seconds : t > sec => log[t] = 0
  BY <1>1 DEF Follows, Controls
<1>3. sec \in Nat /\ \A t \in Seconds : t \in Nat /\ IntervalOf(t) \in Nat
  BY Intervals DEF Seconds
<1>4. n \in Int
  BY <1>3, Intervals
<1>5. limit < U64Max => SumFunctionOnSet(s.buckets, Buckets) = SumFunctionOnSet(log, S)
  <2>. HIDE DEF n
  <2>. QED  BY <1>2, <1>4, BucketsSum DEF BucketsHold, Kept, n
<1>6. SumFunctionOnSet(s.buckets, Buckets) \in Nat
  <2>1. IsFiniteSet(Buckets)
    BY FS_Interval, VelocityControlAssumption DEF Buckets
  <2>. QED  BY <1>2, <2>1, SumType
<1>7. S \in SUBSET Seconds
  BY DEF Kept, Slice
<1>8. T \in SUBSET S /\ \A t \in S \ T : t > sec
  <2>1. ASSUME NEW t \in T PROVE t \in S
    <3>1. t \in Seconds /\ t >= (sec - (sec % BucketInterval)) - Window /\ t <= sec
      <4>1. /\ t \in Seconds /\ (sec - (sec % BucketInterval)) - Window <= t /\ t <= sec
        OBVIOUS
      <4>. QED  BY <4>1
    <3>. QED  BY <3>1, KeptIs DEF Kept, Slice
  <2>2. ASSUME NEW t \in S \ T PROVE t > sec
    <3>1. t \in Seconds /\ IntervalOf(t) >= IntervalOf(sec) - NumBuckets + 1
      BY DEF Kept, Slice
    <3>2. (sec - (sec % BucketInterval)) - Window <= t
      BY <3>1, KeptIs
    <3>. QED  BY <1>3, <3>1, <3>2
  <2>. QED  BY <2>1, <2>2
<1>9. SumIn(log, (sec - (sec % BucketInterval)) - Window, sec) = SumFunctionOnSet(log, T)
  BY DEF SumIn
<1>. HIDE DEF S, T
<1>10. IsFiniteSet(S) /\ \A t \in S : log[t] \in Nat
  BY <1>2, <1>7, SecondsFinite
<1>11. SumFunctionOnSet(log, T) = SumFunctionOnSet(log, S)
  <2>1. \A t \in S \ T : log[t] = 0
    BY <1>2, <1>7, <1>8
  <2>. QED  BY <1>8, <1>10, <2>1, SumPart
<1>12. SumFunctionOnSet(log, S) \in Nat
  BY <1>10, SumType
<1>. QED  BY <1>5, <1>6, <1>9, <1>11, <1>12 DEF s, S

\* An amount is taken exactly when it fits.
LEMMA TakesExactly ==
    ASSUME NEW c, NEW log, NEW limit \in 0..U64Max, NEW sec \in Seconds, NEW amount \in Nat,
           Follows(c, log, limit, sec)
    PROVE  insert_ok(c, sec, amount)
             <=> limit = U64Max \/ SumFunctionOnSet(log, Kept(sec)) + amount <= limit
<1>. DEFINE sum == SumFunctionOnSet(Shifted(c, sec).buckets, Buckets)
            kept == SumFunctionOnSet(log, Kept(sec))
<1>1. (limit < U64Max => sum = kept) /\ sum \in Nat /\ kept \in Nat
  BY VelocityIs
<1>2. c.limit = limit
  BY DEF Follows, Controls
<1>3. insert_ok(c, sec, amount)
        <=> saturating_add(IF sum > U64Max THEN U64Max ELSE sum, amount) <= limit
  BY <1>2 DEF insert_ok, velocity
<1>. HIDE DEF sum, kept
<1>4. limit \in Nat /\ U64Max \in Nat /\ limit <= U64Max
  BY VelocityControlAssumption
<1>5. insert_ok(c, sec, amount) <=> limit = U64Max \/ kept + amount <= limit
  BY <1>1, <1>3, <1>4 DEF saturating_add
<1>. QED  BY <1>5 DEF kept

\* A control that refuses moves on, and follows the same log.
LEMMA RefusedFollows ==
    ASSUME NEW c, NEW log, NEW limit \in 0..U64Max, NEW sec \in Seconds, NEW amount,
           Follows(c, log, limit, sec), ~insert_ok(c, sec, amount)
    PROVE  Follows(insert(c, sec, amount), log, limit, sec)
BY ShiftedFollows DEF insert

\* A control that takes an amount follows the log with it, and stays under the limit.
LEMMA TakenFollows ==
    ASSUME NEW c, NEW log, NEW limit \in 0..U64Max, NEW sec \in Seconds, NEW amount \in Nat,
           Follows(c, log, limit, sec), insert_ok(c, sec, amount), UnderLimit(log, limit)
    PROVE  LET more == [log EXCEPT ![sec] = @ + amount]
           IN  Follows(insert(c, sec, amount), more, limit, sec) /\ UnderLimit(more, limit)
<1>. DEFINE more == [log EXCEPT ![sec] = @ + amount]
            s == Shifted(c, sec)
            n == IntervalOf(sec)
            d == insert(c, sec, amount)
            SumOf(f, S) == SumFunctionOnSet(f, S)
<1>1. /\ Follows(s, log, limit, sec)
      /\ s.start_sec = BucketInterval * n /\ IntervalOf(s.start_sec) = n
  BY ShiftedFollows
<1>2. d = [s EXCEPT !.buckets[1] = saturating_add(@, amount)]
  BY DEF insert
<1>. HIDE DEF s, d
<1>3. /\ s \in Controls(limit) /\ s.buckets \in [Buckets -> Nat] /\ s.start_sec \in Nat
      /\ log \in [Seconds -> Nat]
      /\ s.start_sec <= sec
      /\ limit < U64Max => BucketsHold(s.buckets, log, n)
      /\ \A t \in Seconds : IntervalOf(t) > n \/ t > sec => log[t] = 0
  BY <1>1 DEF Follows, Controls
<1>4. U64Max \in Nat /\ limit \in Nat /\ limit <= U64Max /\ NumBuckets \in Nat \ {0}
      /\ 1 \in Buckets
  BY VelocityControlAssumption DEF Buckets
<1>5. sec \in Nat /\ n \in Nat /\ \A t \in Seconds : t \in Nat /\ IntervalOf(t) \in Nat
  BY Intervals DEF Seconds
<1>6. /\ more \in [Seconds -> Nat] /\ more[sec] = log[sec] + amount
      /\ \A t \in Seconds : t # sec => more[t] = log[t]
  BY <1>3
<1>. HIDE DEF more
<1>7. ASSUME NEW S \in SUBSET Seconds
      PROVE  /\ SumOf(log, S) \in Nat /\ SumOf(more, S) \in Nat
             /\ sec \in S => SumOf(more, S) = SumOf(log, S) + amount
             /\ sec \notin S => SumOf(more, S) = SumOf(log, S)
  <2>1. IsFiniteSet(S) /\ \A t \in S : log[t] \in Nat /\ more[t] \in Nat
    BY <1>3, <1>6, SecondsFinite
  <2>2. \A t \in S : t # sec => more[t] = log[t]
    BY <1>6
  <2>3. sec \in S => SumOf(more, S) = SumOf(log, S) + amount
    BY <1>6, <2>1, <2>2, SumGrows
  <2>4. sec \notin S => SumOf(more, S) = SumOf(log, S)
    <3>1. sec \notin S => \A t \in S : log[t] \in Nat /\ log[t] = more[t]
      BY <2>1, <2>2
    <3>. QED  BY <2>1, <3>1, SumSame
  <2>5. SumOf(log, S) \in Nat /\ SumOf(more, S) \in Nat
    BY <2>1, SumType
  <2>. QED  BY <2>3, <2>4, <2>5
<1>8. limit = U64Max \/ SumOf(log, Kept(sec)) + amount <= limit
  BY TakesExactly
<1>9. Kept(sec) \in SUBSET Seconds /\ sec \in Kept(sec)
  BY <1>4, <1>5 DEF Kept, Slice
<1>10. SumOf(log, Kept(sec)) \in Nat /\ SumOf(more, Kept(sec)) = SumOf(log, Kept(sec)) + amount
  BY <1>7, <1>9
<1>11. d.start_sec = s.start_sec /\ d.buckets = [s.buckets EXCEPT ![1] = saturating_add(@, amount)]
       /\ d.limit = limit /\ d \in Controls(limit)
  <2>1. \A x \in Nat : saturating_add(x, amount) \in Nat
    BY <1>4 DEF saturating_add
  <2>. QED  BY <1>2, <1>3, <1>4, <2>1 DEF Controls
<1>12. ASSUME limit < U64Max PROVE BucketsHold(d.buckets, more, n)
  <2>1. s.buckets[1] + amount <= limit
    <3>1. s.buckets[1] = SumOf(log, Slice(n, n))
      <4>1. n - 1 + 1 = n
        BY <1>5
      <4>2. s.buckets[1] = SumOf(log, Slice(n - 1 + 1, n - 1 + 1))
        BY <1>3, <1>4, <1>12 DEF BucketsHold
      <4>. QED  BY <4>1, <4>2
    <3>2. Slice(n, n) \in SUBSET Kept(sec)
      <4>1. ASSUME NEW t \in Slice(n, n) PROVE t \in Kept(sec)
        <5>1. t \in Seconds /\ n <= IntervalOf(t) /\ IntervalOf(t) <= n
          BY DEF Slice
        <5>2. n - NumBuckets + 1 <= IntervalOf(t)
          <6>. HIDE DEF n
          <6>. QED  BY <1>4, <1>5, <5>1
        <5>. QED  BY <5>1, <5>2 DEF Kept, Slice
      <4>. QED  BY <4>1
    <3>3. IsFiniteSet(Kept(sec)) /\ \A t \in Kept(sec) : log[t] \in Nat
      BY <1>3, <1>9, SecondsFinite
    <3>4. SumOf(log, Slice(n, n)) <= SumOf(log, Kept(sec))
      BY <3>2, <3>3, SumPart
    <3>5. s.buckets[1] \in Nat
      BY <1>3, <1>4
    <3>6. SumOf(log, Kept(sec)) + amount <= limit
      BY <1>4, <1>8, <1>12
    <3>. HIDE DEF SumOf
    <3>. QED  BY <1>4, <1>10, <3>1, <3>4, <3>5, <3>6
  <2>2. d.buckets[1] = s.buckets[1] + amount
    <3>1. d.buckets[1] = saturating_add(s.buckets[1], amount) /\ s.buckets[1] \in Nat
      BY <1>3, <1>4, <1>11
    <3>. QED  BY <1>4, <2>1, <3>1 DEF saturating_add
  <2>3. ASSUME NEW i \in Buckets
        PROVE  d.buckets[i] = SumOf(more, Slice(n - i + 1, n - i + 1))
    <3>. DEFINE S == Slice(n - i + 1, n - i + 1)
    <3>1. S \in SUBSET Seconds
      BY DEF Slice
    <3>2. i \in Nat /\ (sec \in S <=> i = 1)
      BY <1>4, <1>5 DEF Slice, Buckets
    <3>3. s.buckets[i] = SumOf(log, S)
      BY <1>3, <1>12 DEF BucketsHold
    <3>. HIDE DEF S
    <3>4. CASE i = 1
      BY <1>7, <2>2, <3>1, <3>2, <3>3, <3>4 DEF S
    <3>5. CASE i # 1
      <4>1. d.buckets[i] = s.buckets[i]
        BY <1>3, <1>11, <3>5
      <4>. QED  BY <1>7, <3>1, <3>2, <3>3, <3>5, <4>1 DEF S
    <3>. QED  BY <3>4, <3>5
  <2>. QED  BY <2>3 DEF BucketsHold
<1>13. \A t \in Seconds : IntervalOf(t) > n \/ t > sec => more[t] = 0
  BY <1>3, <1>5, <1>6
<1>14. Follows(d, more, limit, sec)
  <2>. HIDE DEF n
  <2>. QED  BY <1>1, <1>3, <1>6, <1>11, <1>12, <1>13 DEF Follows
<1>15. ASSUME limit < U64Max, NEW t \in Seconds PROVE SumIn(more, t - Window, t) <= limit
  <2>. DEFINE S == {u \in Seconds : t - Window <= u /\ u <= t}
  <2>1. SumIn(log, t - Window, t) <= limit
    BY <1>15 DEF UnderLimit
  <2>2. SumIn(log, t - Window, t) = SumOf(log, S) /\ SumIn(more, t - Window, t) = SumOf(more, S)
    BY DEF SumIn
  <2>3. S \in SUBSET Seconds
    OBVIOUS
  <2>4. CASE t < sec
    <3>1. sec \notin S
      BY <1>5, <2>4
    <3>. HIDE DEF S
    <3>. QED  BY <1>7, <2>1, <2>2, <2>3, <3>1
  <2>5. CASE t >= sec
    <3>. DEFINE T == {u \in S : u <= sec}
    <3>1. T \in SUBSET S /\ \A u \in S \ T : u > sec
      BY <1>5
    <3>2. T \in SUBSET Kept(sec)
      <4>1. ASSUME NEW u \in T PROVE u \in Kept(sec)
        <5>1. u \in Seconds /\ t - Window <= u /\ u <= sec /\ u \in Nat
          BY <1>5
        <5>2. Window \in Int /\ sec % BucketInterval \in Nat
          <6>1. BucketInterval \in Nat \ {0} /\ NumBuckets \in Nat
            BY VelocityControlAssumption
          <6>2. sec % BucketInterval \in Nat
            BY <1>5, <6>1, Divides
          <6>. QED  BY <6>1, <6>2 DEF Window
        <5>3. u >= (sec - (sec % BucketInterval)) - Window
          BY <1>5, <2>5, <5>1, <5>2
        <5>. QED  BY <5>1, <5>3, KeptIs, <1>5, <1>4 DEF Kept, Slice
      <4>. QED  BY <4>1
    <3>. HIDE DEF S, T
    <3>3. \A u \in Seconds : more[u] \in Nat
      BY <1>6
    <3>4. SumOf(more, T) = SumOf(more, S)
      <4>1. IsFiniteSet(S) /\ \A u \in S : more[u] \in Nat
        BY <2>3, <3>3, SecondsFinite
      <4>2. \A u \in S \ T : more[u] = 0
        BY <1>13, <2>3, <3>1
      <4>. QED  BY <3>1, <4>1, <4>2, SumPart
    <3>5. SumOf(more, T) <= SumOf(more, Kept(sec))
      <4>1. IsFiniteSet(Kept(sec)) /\ \A u \in Kept(sec) : more[u] \in Nat
        BY <1>9, <3>3, SecondsFinite
      <4>. QED  BY <3>2, <4>1, SumPart
    <3>6. SumOf(more, S) \in Nat
      BY <1>7, <2>3
    <3>7. SumOf(log, Kept(sec)) + amount <= limit
      BY <1>4, <1>8, <1>15
    <3>. HIDE DEF SumOf
    <3>. QED  BY <1>4, <1>10, <2>2, <3>4, <3>5, <3>6, <3>7
  <2>. QED  BY <1>5, <2>4, <2>5
<1>16. UnderLimit(more, limit)
  BY <1>15 DEF UnderLimit
<1>. QED  BY <1>14, <1>16 DEF d, more


\* A control that is cleared follows an empty log.
LEMMA ClearFollows ==
    ASSUME NEW c, NEW log, NEW limit \in 0..U64Max, NEW sec \in Seconds,
           Follows(c, log, limit, sec)
    PROVE  Follows(clear(c), Nothing, limit, sec)
<1>. DEFINE d == clear(c)
<1>1. c \in Controls(limit)
  BY DEF Follows
<1>2. d \in Controls(limit) /\ d.start_sec = c.start_sec /\ \A i \in Buckets : d.buckets[i] = 0
  BY <1>1 DEF clear, Controls
<1>. HIDE DEF d
<1>3. Nothing \in [Seconds -> Nat] /\ \A t \in Seconds : Nothing[t] = 0
  BY DEF Nothing
<1>4. ASSUME NEW a PROVE SumFunctionOnSet(Nothing, Slice(a, a)) = 0
  <2>. DEFINE S == Slice(a, a)
  <2>1. S \in SUBSET Seconds
    BY DEF Slice
  <2>. HIDE DEF S
  <2>2. IsFiniteSet(S) /\ \A t \in S : Nothing[t] = 0
    BY <1>3, <2>1, SecondsFinite
  <2>3. SumFunctionOnSet(Nothing, S) = 0
    BY <2>2, SumZeros
  <2>. QED  BY <2>3 DEF S
<1>5. BucketsHold(d.buckets, Nothing, IntervalOf(d.start_sec))
  BY <1>2, <1>4 DEF BucketsHold
<1>. QED  BY <1>2, <1>3, <1>5 DEF Follows, d

\* Nothing is under any limit.
LEMMA NothingUnder == ASSUME NEW limit \in 0..U64Max PROVE UnderLimit(Nothing, limit)
<1>1. ASSUME NEW t \in Seconds PROVE SumIn(Nothing, t - Window, t) <= limit
  <2>. DEFINE S == {u \in Seconds : t - Window <= u /\ u <= t}
  <2>1. S \in SUBSET Seconds
    OBVIOUS
  <2>. HIDE DEF S
  <2>2. IsFiniteSet(S) /\ \A u \in S : Nothing[u] = 0
    BY <2>1, SecondsFinite DEF Nothing
  <2>3. SumFunctionOnSet(Nothing, S) = 0
    BY <2>2, SumZeros
  <2>4. limit \in Nat
    BY VelocityControlAssumption
  <2>. QED  BY <2>3, <2>4 DEF SumIn, S
<1>. QED  BY <1>1 DEF UnderLimit

------------------------------------------------------------------------------
(* The inductive invariant                                                  *)

Payments ==
    {Invoice(h, id, amount) : h \in Hashes, id \in InvoiceIds, amount \in Amounts}
      \cup {Keysend(h, amount) : h \in Hashes, amount \in Amounts}

Approving ==
    /\ now \in Seconds
    /\ node \in [control : Controls(NodeLimit), invoices : SUBSET Payments]
    /\ disk \in SUBSET Payments
    /\ memo = given
    /\ Follows(node.control, remembered, NodeLimit, now)
    /\ UnderLimit(remembered, NodeLimit)
    /\ Follows(approver, auto, ApproverLimit, now)
    /\ UnderLimit(auto, ApproverLimit)

\* The limits are u64.
LEMMA Limits == NodeLimit \in 0..U64Max /\ ApproverLimit \in 0..U64Max
BY ApprovalsAssumption

\* At the start nothing is spent.
LEMMA InitApproving == ApprovalsInit => Approving
<1>. SUFFICES ASSUME ApprovalsInit PROVE Approving
  OBVIOUS
<1>1. now \in Seconds
  BY SpendingLogAssumption DEF ApprovalsInit, Seconds
<1>2. /\ Follows(new_with_intervals(NodeLimit), Nothing, NodeLimit, now)
      /\ Follows(new_with_intervals(ApproverLimit), Nothing, ApproverLimit, now)
      /\ UnderLimit(Nothing, NodeLimit) /\ UnderLimit(Nothing, ApproverLimit)
  BY <1>1, Limits, NewFollows, NothingUnder
<1>3. new_with_intervals(NodeLimit) \in Controls(NodeLimit)
  BY <1>2 DEF Follows
<1>. QED  BY <1>1, <1>2, <1>3 DEF ApprovalsInit, Approving

\* What the node takes or refuses.
LEMMA AddPayment ==
    ASSUME Approving, NEW p \in Payments, NEW ok \in BOOLEAN, add_payment(p, ok), UNCHANGED now
    PROVE  /\ node' \in [control : Controls(NodeLimit), invoices : SUBSET Payments]
           /\ disk' \in SUBSET Payments
           /\ Follows(node'.control, remembered', NodeLimit, now)
           /\ UnderLimit(remembered', NodeLimit)
<1>. DEFINE after == insert(node.control, now, p.amount)
<1>1. /\ now \in Seconds
      /\ node \in [control : Controls(NodeLimit), invoices : SUBSET Payments]
      /\ disk \in SUBSET Payments
      /\ Follows(node.control, remembered, NodeLimit, now)
      /\ UnderLimit(remembered, NodeLimit)
  BY DEF Approving
<1>2. p.amount \in Nat
  BY ApprovalsAssumption DEF Payments, Invoice, Keysend
<1>3. CASE UNCHANGED <<node, disk, remembered>>
  BY <1>1, <1>3
<1>4. CASE /\ insert_ok(node.control, now, p.amount)
           /\ node' = [control |-> after, invoices |-> node.invoices \cup {p}]
           /\ disk' = node'.invoices
           /\ remembered' = Log(remembered, p.amount)
  <2>1. /\ Follows(after, Log(remembered, p.amount), NodeLimit, now)
        /\ UnderLimit(Log(remembered, p.amount), NodeLimit)
    BY <1>1, <1>2, <1>4, Limits, TakenFollows DEF Log
  <2>2. after \in Controls(NodeLimit)
    BY <2>1 DEF Follows
  <2>. HIDE DEF after
  <2>3. node'.control = after /\ node'.invoices = node.invoices \cup {p}
    BY <1>4
  <2>4. node.invoices \cup {p} \in SUBSET Payments
    BY <1>1
  <2>5. node' \in [control : Controls(NodeLimit), invoices : SUBSET Payments]
    BY <1>4, <2>2, <2>4
  <2>. QED  BY <1>4, <2>1, <2>3, <2>4, <2>5
<1>5. CASE /\ ~insert_ok(node.control, now, p.amount)
           /\ node' = [node EXCEPT !.control = after]
           /\ UNCHANGED <<disk, remembered>>
  <2>1. Follows(after, remembered, NodeLimit, now)
    BY <1>1, <1>5, Limits, RefusedFollows
  <2>2. after \in Controls(NodeLimit)
    BY <2>1 DEF Follows
  <2>. HIDE DEF after
  <2>3. node'.control = after /\ node' \in [control : Controls(NodeLimit), invoices : SUBSET Payments]
    BY <1>1, <1>5, <2>2
  <2>. QED  BY <1>1, <1>5, <2>1, <2>3
<1>. QED  BY <1>3, <1>4, <1>5 DEF add_payment

\* What the approver lets pass, asks for or refuses.
LEMMA ApproveKeeps ==
    ASSUME Approving, NEW p \in Payments, NEW word \in BOOLEAN, approve(p, word), UNCHANGED now
    PROVE  /\ memo' = given'
           /\ Follows(approver', auto', ApproverLimit, now)
           /\ UnderLimit(auto', ApproverLimit)
<1>1. /\ now \in Seconds /\ memo = given
      /\ Follows(approver, auto, ApproverLimit, now)
      /\ UnderLimit(auto, ApproverLimit)
  BY DEF Approving
<1>2. p.amount \in Nat
  BY ApprovalsAssumption DEF Payments, Invoice, Keysend
<1>. DEFINE after == insert(approver, now, p.amount)
<1>3. CASE insert_ok(approver, now, p.amount)
  <2>1. /\ approver' = after /\ auto' = Log(auto, p.amount) /\ UNCHANGED <<memo, given>>
    BY <1>3 DEF approve
  <2>2. /\ Follows(after, Log(auto, p.amount), ApproverLimit, now)
        /\ UnderLimit(Log(auto, p.amount), ApproverLimit)
    BY <1>1, <1>2, <1>3, Limits, TakenFollows DEF Log
  <2>. QED  BY <1>1, <2>1, <2>2
<1>4. CASE ~insert_ok(approver, now, p.amount)
  <2>1. Follows(after, auto, ApproverLimit, now)
    BY <1>1, <1>4, Limits, RefusedFollows
  <2>. HIDE DEF after
  <2>2. /\ approver' = IF Delegated(p, word) THEN clear(after) ELSE after
        /\ auto' = IF word \/ p \in given THEN Nothing
                   ELSE IF Delegated(p, word) THEN Log(auto, p.amount) ELSE auto
        /\ memo' = {} /\ given' = {}
    BY <1>4 DEF approve, drain, after
  <2>3. Delegated(p, word) <=> word \/ p \in given
    BY <1>1 DEF Delegated
  <2>4. CASE Delegated(p, word)
    <3>1. approver' = clear(after) /\ auto' = Nothing
      BY <2>2, <2>3, <2>4
    <3>. QED  BY <1>1, <2>1, <2>2, <3>1, Limits, ClearFollows, NothingUnder
  <2>5. CASE ~Delegated(p, word)
    <3>1. approver' = after /\ auto' = auto
      BY <2>2, <2>3, <2>5
    <3>. QED  BY <1>1, <2>1, <2>2, <3>1
  <2>. QED  BY <2>4, <2>5
<1>. QED  BY <1>3, <1>4

\* What a request for a payment does to the approver and to the node.
LEMMA RequestApproving ==
    ASSUME Approving, NEW p \in Payments, NEW word \in BOOLEAN, NEW ok \in BOOLEAN, UNCHANGED now,
           UNCHANGED approvers \/ approve(p, word),
           add_payment(p, ok) \/ UNCHANGED <<node, disk, remembered>>
    PROVE  Approving'
<1>1. /\ memo' = given'
      /\ Follows(approver', auto', ApproverLimit, now)
      /\ UnderLimit(auto', ApproverLimit)
  BY ApproveKeeps DEF Approving, approvers
<1>2. /\ node' \in [control : Controls(NodeLimit), invoices : SUBSET Payments]
      /\ disk' \in SUBSET Payments
      /\ Follows(node'.control, remembered', NodeLimit, now)
      /\ UnderLimit(remembered', NodeLimit)
  BY AddPayment DEF Approving
<1>3. now' = now /\ now \in Seconds
  BY DEF Approving
<1>. QED  BY <1>1, <1>2, <1>3 DEF Approving

\* Every step keeps the invariant.
LEMMA NextApproving == Approving /\ [ApprovalsNext]_approvalsVars => Approving'
<1>. SUFFICES ASSUME Approving, [ApprovalsNext]_approvalsVars PROVE Approving'
  OBVIOUS
<1>1. ASSUME NEW h \in Hashes, NEW id \in InvoiceIds, NEW amount \in Amounts,
             NEW allowlisted \in BOOLEAN, NEW ok \in BOOLEAN, NEW word \in BOOLEAN,
             PreapproveInvoice(h, id, amount, allowlisted, word, ok)
      PROVE  Approving'
  <2>. DEFINE p == Invoice(h, id, amount)
  <2>1. p \in Payments
    BY DEF Payments
  <2>. HIDE DEF p
  <2>2. /\ UNCHANGED now
        /\ UNCHANGED approvers \/ approve(p, word)
        /\ add_payment(p, ok) \/ UNCHANGED <<node, disk, remembered>>
    <3>1. /\ UNCHANGED now
          /\ CASE has_payment(p) -> UNCHANGED <<approvers, node, disk, remembered>>
               [] ~has_payment(p) /\ allowlisted ->
                     add_payment(p, ok) /\ UNCHANGED approvers
               [] OTHER ->
                     /\ approve(p, word)
                     /\ IF Approved(p, word) THEN add_payment(p, ok)
                        ELSE UNCHANGED <<node, disk, remembered>>
      BY <1>1 DEF PreapproveInvoice, p
    <3>2. CASE has_payment(p)
      BY <3>1, <3>2
    <3>3. CASE ~has_payment(p) /\ allowlisted
      BY <3>1, <3>3
    <3>4. CASE ~has_payment(p) /\ ~allowlisted
      BY <3>1, <3>4
    <3>. QED  BY <3>2, <3>3, <3>4
  <2>. QED  BY <2>1, <2>2, RequestApproving
<1>2. ASSUME NEW h \in Hashes, NEW amount \in Amounts, NEW word \in BOOLEAN,
             PreapproveKeysend(h, amount, word)
      PROVE  Approving'
  <2>. DEFINE p == Keysend(h, amount)
  <2>1. p \in Payments
    BY DEF Payments
  <2>. HIDE DEF p
  <2>2. /\ UNCHANGED now
        /\ UNCHANGED approvers \/ approve(p, word)
        /\ add_payment(p, TRUE) \/ UNCHANGED <<node, disk, remembered>>
    BY <1>2 DEF PreapproveKeysend, p
  <2>. QED  BY <2>1, <2>2, RequestApproving
<1>3. CASE approve_onchain \/ \E p \in Memorized : Memorize({p})
  <2>1. memo' = given' /\ UNCHANGED <<now, approver, node, disk, auto, remembered>>
    BY <1>3 DEF approve_onchain, Memorize, drain
  <2>. QED  BY <2>1 DEF Approving
<1>4. ASSUME NEW t \in Seconds, SetClock(t) PROVE Approving'
  <2>1. /\ now' = t /\ now <= t
        /\ UNCHANGED <<approver, memo, given, auto, node, disk, remembered>>
    BY <1>4 DEF SetClock, approvers, Approving, Seconds
  <2>2. now \in Nat /\ t \in Nat
    BY DEF Approving, Seconds
  <2>3. /\ Follows(node.control, remembered, NodeLimit, t)
        /\ Follows(approver, auto, ApproverLimit, t)
    BY <2>1, <2>2, LaterFollows DEF Approving
  <2>. QED  BY <2>1, <2>3 DEF Approving
<1>5. CASE RestartSigner
  <2>1. /\ Follows(new_with_intervals(NodeLimit), Nothing, NodeLimit, now)
        /\ Follows(new_with_intervals(ApproverLimit), Nothing, ApproverLimit, now)
        /\ UnderLimit(Nothing, NodeLimit) /\ UnderLimit(Nothing, ApproverLimit)
    BY Limits, NewFollows, NothingUnder DEF Approving
  <2>2. new_with_intervals(NodeLimit) \in Controls(NodeLimit)
    BY <2>1 DEF Follows
  <2>. QED  BY <1>5, <2>1, <2>2 DEF RestartSigner, Approving
<1>6. CASE UNCHANGED approvalsVars
  BY <1>6 DEF approvalsVars, Approving
<1>7. \A word \in Words : word \in BOOLEAN
  BY DEF Words, PositiveApprover, WarningPositiveApprover, NegativeApprover, ScreenApprover
<1>. QED  BY <1>1, <1>2, <1>3, <1>4, <1>5, <1>6, <1>7 DEF ApprovalsNext

\* Both controls follow what was let pass, and are under their limits.
THEOREM ApprovalsInvariant == ApprovalsSpec => []Approving
<1>. QED  BY InitApproving, NextApproving, PTL DEF ApprovalsSpec

------------------------------------------------------------------------------
(* The properties                                                           *)

\* What the node takes stays within its limit in every window since it started.
THEOREM NodeStaysUnderLimit == ApprovalsSpec => []NodeUnderLimitSinceStart
<1>1. Approving => NodeUnderLimitSinceStart
  BY DEF Approving, NodeUnderLimitSinceStart
<1>. QED  BY <1>1, ApprovalsInvariant, PTL

\* What passes without a word stays within the approver's limit.
THEOREM AutoApprovedStaysUnderLimit == ApprovalsSpec => []AutoApprovedUnderLimit
<1>1. Approving => AutoApprovedUnderLimit
  BY DEF Approving, AutoApprovedUnderLimit
<1>. QED  BY <1>1, ApprovalsInvariant, PTL

\* The node takes an amount exactly when what it took leaves room for it.
THEOREM NodeTakesWhatFits == ApprovalsSpec => []TakesWhatFits
<1>1. ASSUME Approving PROVE TakesWhatFits
  <2>1. ASSUME NEW amount \in Amounts
        PROVE  insert_ok(node.control, now, amount)
                 <=> \/ NodeLimit = U64Max
                     \/ SumIn(remembered, (now - (now % BucketInterval)) - Window, now) + amount
                           <= NodeLimit
    <3>1. amount \in Nat /\ now \in Seconds /\ Follows(node.control, remembered, NodeLimit, now)
      BY <1>1, ApprovalsAssumption DEF Approving
    <3>2. SumIn(remembered, (now - (now % BucketInterval)) - Window, now)
            = SumFunctionOnSet(remembered, Kept(now))
      BY <3>1, Limits, VelocityIs
    <3>. QED  BY <3>1, <3>2, Limits, TakesExactly
  <2>. QED  BY <2>1 DEF TakesWhatFits
<1>. QED  BY <1>1, ApprovalsInvariant, PTL

------------------------------------------------------------------------------
(* Fees                                                                     *)

\* What a quotient is.
LEMMA Quotient ==
    ASSUME NEW a \in Nat, NEW b \in Nat \ {0}
    PROVE  /\ a \div b \in Nat
           /\ (a \div b) * b <= a
           /\ a < (a \div b + 1) * b
OBVIOUS

LEMMA QuotientBelow ==
    ASSUME NEW a \in Nat, NEW b \in Nat \ {0}, NEW q \in Nat, a < q * b
    PROVE  a \div b < q
OBVIOUS

LEMMA QuotientAbove ==
    ASSUME NEW a \in Nat, NEW b \in Nat \ {0}, NEW q \in Nat, q * b <= a
    PROVE  q <= a \div b
OBVIOUS

\* A fee whose feerate does not wrap and is allowed is no larger than MaxFee.
LEMMA FeeBound ==
    ASSUME NEW fee \in Nat, NEW w \in Nat \ {0}, fee * KW + (KW - 1) < U32 * w,
           estimate_feerate_per_kw(fee, w) <= MaxFeerate
    PROVE  fee <= MaxFee(w)
<1>. DEFINE a == fee * KW + (KW - 1)
            e == a \div w
            top == (MaxFeerate + 1) * w
<1>1. KW \in Nat \ {0} /\ U32 \in Nat \ {0} /\ MaxFeerate \in Nat
  BY TxPolicyAssumption DEF Numbers
<1>2. fee * KW \in Nat /\ a \in Nat /\ fee * KW <= a /\ a < U32 * w
  BY <1>1
<1>3. top \in Nat
  BY <1>1
<1>4. estimate_feerate_per_kw(fee, w) = e % U32
  BY DEF estimate_feerate_per_kw
<1>. HIDE DEF a
<1>5. e \in Nat /\ a < (e + 1) * w
  BY <1>2, Quotient
<1>6. e < U32
  BY <1>1, <1>2, QuotientBelow
<1>. HIDE DEF e
<1>7. e <= MaxFeerate
  <2>1. e % U32 = e
    BY <1>1, <1>5, <1>6
  <2>. QED  BY <1>4, <2>1
<1>8. (e + 1) * w <= top
  BY <1>1, <1>5, <1>7
<1>9. (e + 1) * w \in Nat
  BY <1>5
<1>10. fee * KW <= top
  BY <1>2, <1>3, <1>5, <1>8, <1>9
<1>. HIDE DEF top
<1>11. fee <= top \div KW
  BY <1>1, <1>3, <1>10, QuotientAbove
<1>. QED  BY <1>11 DEF MaxFee, top

\* A fee whose feerate is allowed, whether it wraps or not, is no smaller than MinFee.
LEMMA LeastFee ==
    ASSUME NEW fee \in Nat, NEW w \in Nat \ {0}, MinFeerate <= estimate_feerate_per_kw(fee, w)
    PROVE  MinFee(w) \in Nat /\ MinFee(w) <= fee
<1>. DEFINE a == fee * KW + (KW - 1)
            e == a \div w
            least == MinFeerate * w
<1>1. KW \in Nat \ {0} /\ U32 \in Nat \ {0} /\ MinFeerate \in Nat
  BY TxPolicyAssumption DEF Numbers
<1>2. fee * KW \in Nat /\ a \in Nat /\ least \in Nat /\ a < (fee + 1) * KW
  BY <1>1
<1>3. estimate_feerate_per_kw(fee, w) = e % U32
  BY DEF estimate_feerate_per_kw
<1>. HIDE DEF a
<1>4. e \in Nat /\ e * w <= a
  BY <1>2, Quotient
<1>. HIDE DEF e
<1>5. e % U32 <= e
  BY <1>1, <1>4
<1>6. MinFeerate <= e
  BY <1>1, <1>3, <1>4, <1>5
<1>7. least <= e * w /\ e * w \in Nat
  BY <1>1, <1>4, <1>6
<1>. HIDE DEF least
<1>8. least < (fee + 1) * KW /\ (fee + 1) * KW \in Nat
  BY <1>1, <1>2, <1>4, <1>7
<1>9. least \div KW < fee + 1 /\ least \div KW \in Nat
  BY <1>1, <1>2, <1>8, QuotientBelow, Quotient
<1>. QED  BY <1>9 DEF MinFee, least

\* The feerate that is estimated from the fee of an HTLC transaction gives the fee again, and
\* is at least the one it was built at; it exceeds that by no more than the slack.
LEMMA EstimateAgain ==
    ASSUME NEW f \in Nat, NEW w \in Nat \ {0}, f + (KW - 1) \div w <= MaxFeerate
    PROVE  LET fee == (f * w) \div KW
               e == estimate_feerate_per_kw(fee, w)
           IN  /\ e \in Nat /\ f <= e /\ e <= MaxFeerate
               /\ (e * w) \div KW = fee /\ fee \in Nat
<1>. DEFINE x == f * w
            fee == x \div KW
            a == fee * KW + (KW - 1)
            e == a \div w
            slack == (KW - 1) \div w
<1>1. KW \in Nat \ {0} /\ U32 \in Nat \ {0} /\ MaxFeerate \in Nat /\ MaxFeerate < U32
  BY TxPolicyAssumption, FeerateFits DEF Numbers
<1>2. x \in Nat /\ KW - 1 \in Nat
  BY <1>1
<1>. HIDE DEF x
<1>3. fee \in Nat /\ fee * KW <= x /\ x < (fee + 1) * KW
  BY <1>1, <1>2, Quotient
<1>. HIDE DEF fee
<1>4. fee * KW \in Nat /\ a \in Nat /\ a < (fee + 1) * KW /\ x <= a /\ a <= x + (KW - 1)
  <2>1. fee * KW \in Nat /\ (fee + 1) * KW = fee * KW + KW
    BY <1>1, <1>3
  <2>. QED  BY <1>1, <1>2, <1>3, <2>1
<1>5. estimate_feerate_per_kw(fee, w) = e % U32
  BY DEF estimate_feerate_per_kw
<1>. HIDE DEF a
<1>6. e \in Nat /\ e * w <= a /\ f <= e
  BY <1>2, <1>4, Quotient, QuotientAbove DEF x
<1>7. slack \in Nat /\ KW - 1 < (slack + 1) * w
  BY <1>2, Quotient
<1>8. e <= f + slack
  <2>. HIDE DEF slack
  <2>1. a < (f + slack + 1) * w
    <3>1. (f + slack + 1) * w = f * w + (slack + 1) * w /\ f * w \in Nat /\ (slack + 1) * w \in Nat
      BY <1>7
    <3>. QED  BY <1>1, <1>4, <1>7, <3>1 DEF x
  <2>2. a \div w < f + slack + 1
    BY <1>4, <1>7, <2>1, QuotientBelow
  <2>. QED  BY <1>6, <1>7, <2>2
<1>9. e <= MaxFeerate
  BY <1>1, <1>6, <1>7, <1>8
<1>. HIDE DEF e
<1>10. e % U32 = e
  BY <1>1, <1>6, <1>9
<1>11. (e * w) \div KW = fee
  <2>1. e * w \in Nat /\ fee * KW <= e * w /\ e * w < (fee + 1) * KW
    <3>1. e * w \in Nat /\ f * w <= e * w
      BY <1>6
    <3>. QED  BY <1>1, <1>3, <1>4, <1>6, <3>1 DEF x
  <2>2. (e * w) \div KW < fee + 1 /\ fee <= (e * w) \div KW
    BY <1>1, <1>3, <2>1, QuotientBelow, QuotientAbove
  <2>3. (e * w) \div KW \in Nat
    BY <1>1, <2>1, Quotient
  <2>. QED  BY <1>3, <2>2, <2>3
<1>. QED  BY <1>3, <1>5, <1>6, <1>9, <1>10, <1>11 DEF fee, x

------------------------------------------------------------------------------
(* Commitments and transactions                                             *)

\* The sums over the HTLCs of a commitment.
LEMMA InfoTypes ==
    ASSUME NEW info, IsInfo(info)
    PROVE  /\ Sum(info.offered) \in Nat /\ Sum(info.received) \in Nat
           /\ info.to_b \in Nat /\ info.to_c \in Nat
           /\ total_value(info) \in Nat /\ info.to_b + info.to_c <= total_value(info)
           /\ HtlcCount(info) \in Nat
           /\ HtlcCount(info) = 0 => total_value(info) = info.to_b + info.to_c
           /\ htlcs_is_empty(info) => total_value(info) = info.to_b + info.to_c
<1>1. /\ IsFiniteSet(info.offered) /\ IsFiniteSet(info.received)
      /\ info.to_b \in Nat /\ info.to_c \in Nat
      /\ \A h \in info.offered : h.value \in Nat
      /\ \A h \in info.received : h.value \in Nat
  BY DEF IsInfo
<1>2. ASSUME NEW S, IsFiniteSet(S), \A h \in S : h.value \in Nat PROVE Sum(S) \in Nat
  <2>. DEFINE f == [h \in S |-> h.value]
  <2>1. \A h \in S : f[h] \in Nat
    BY <1>2
  <2>. HIDE DEF f
  <2>2. SumFunctionOnSet(f, S) \in Nat
    BY <1>2, <2>1, SumType
  <2>. QED  BY <2>2 DEF Sum, f
<1>3. Sum({}) = 0
  BY SumEmpty DEF Sum
<1>4. Sum(info.offered) \in Nat /\ Sum(info.received) \in Nat
  BY <1>1, <1>2
<1>5. Cardinality(info.offered) \in Nat /\ Cardinality(info.received) \in Nat
  BY <1>1, FS_CardinalityType
<1>6. /\ Cardinality(info.offered) = 0 => info.offered = {}
      /\ Cardinality(info.received) = 0 => info.received = {}
  BY <1>1, FS_EmptySet
<1>7. total_value(info) \in Nat /\ info.to_b + info.to_c <= total_value(info)
  BY <1>1, <1>4 DEF total_value
<1>8. ASSUME info.offered = {}, info.received = {} PROVE total_value(info) = info.to_b + info.to_c
  BY <1>1, <1>3, <1>8 DEF total_value
<1>9. HtlcCount(info) \in Nat /\ (HtlcCount(info) = 0 => info.offered = {} /\ info.received = {})
  BY <1>5, <1>6 DEF HtlcCount
<1>10. htlcs_is_empty(info) => info.offered = {} /\ info.received = {}
  BY DEF htlcs_is_empty, Htlcs
<1>. QED  BY <1>1, <1>4, <1>7, <1>8, <1>9, <1>10

\* What is decoded from a transaction is an info.
LEMMA DecodedType ==
    ASSUME NEW tx, IsOutputs(tx.outs), NEW args, IsInfo(args)
    PROVE  IsInfo(DecodedInfo(tx, args)) /\ DecodedInfo(tx, args).counterparty = args.counterparty
<1>1. ASSUME NEW kinds PROVE ValueOf(tx, kinds) \in Nat
  <2>. DEFINE f == [i \in DOMAIN tx.outs |-> tx.outs[i].value]
              S == OfKind(tx, kinds)
  <2>1. IsFiniteSet(DOMAIN tx.outs)
    <3>. DEFINE n == Len(tx.outs)
    <3>1. DOMAIN tx.outs = 1..n /\ n \in Int
      BY DEF IsOutputs
    <3>. HIDE DEF n
    <3>2. IsFiniteSet(1..n)
      BY <3>1, FS_Interval
    <3>. QED  BY <3>1, <3>2
  <2>2. S \subseteq DOMAIN tx.outs /\ IsFiniteSet(S)
    BY <2>1, FS_Subset DEF OfKind
  <2>3. \A i \in S : f[i] \in Nat
    BY <2>2 DEF IsOutputs
  <2>. HIDE DEF f, S
  <2>4. SumFunctionOnSet(f, S) \in Nat
    BY <2>2, <2>3, SumType
  <2>. QED  BY <2>4 DEF ValueOf, f, S
<1>. DEFINE info == DecodedInfo(tx, args)
<1>2. /\ info.counterparty = args.counterparty /\ info.offered = args.offered
      /\ info.received = args.received /\ info.feerate = args.feerate
      /\ info.to_b = ValueOf(tx, ToBroadcaster) /\ info.to_c = ValueOf(tx, ToCountersigner)
  BY DEF DecodedInfo
<1>. HIDE DEF info
<1>3. IsInfo(info)
  BY <1>1, <1>2 DEF IsInfo
<1>. QED  BY <1>2, <1>3 DEF info

\* The weights of the channel's transactions.
LEMMA Weights ==
    ASSUME NEW s
    PROVE  /\ \A offered \in BOOLEAN : HtlcWeight(is_anchors(s), offered) \in Nat \ {0}
           /\ \A n \in 0..MaxHtlcs :
                 /\ CommitWeight(is_anchors(s), n) \in Nat \ {0}
                 /\ MaxChannelSize * KW + (KW - 1) < U32 * CommitWeight(is_anchors(s), n)
<1>1. is_anchors(s) \in BOOLEAN
  BY DEF is_anchors
<1>2. /\ \A a \in BOOLEAN : \A offered \in BOOLEAN : HtlcWeight(a, offered) \in Nat \ {0}
      /\ \A a \in BOOLEAN : \A n \in 0..MaxHtlcs : CommitWeight(a, n) \in Nat \ {0}
  BY TxPolicyAssumption, Zenon
<1>3. \A a \in BOOLEAN : \A n \in 0..MaxHtlcs :
         MaxChannelSize * KW + (KW - 1) < U32 * CommitWeight(a, n)
  BY FeerateFits, Zenon
<1>. QED  BY <1>1, <1>2, <1>3, Zenon

\* The second-level transaction of an HTLC at an allowed feerate passes.
LEMMA HtlcPasses ==
    ASSUME NEW info, IsInfo(info), NEW offered \in BOOLEAN, NEW h, h.value \in Nat, h.cltv # 0,
           MinFeerate <= info.feerate,
           info.feerate + (KW - 1) \div HtlcWeight(is_anchors(setup), offered) <= MaxFeerate
    PROVE  sign_htlc_tx(HtlcTx(setup, h, info.feerate, offered))
<1>. DEFINE tx == HtlcTx(setup, h, info.feerate, offered)
            w == HtlcWeight(is_anchors(setup), offered)
            f == info.feerate
            fee == (f * w) \div KW
<1>1. w \in Nat \ {0} /\ f \in Nat /\ MinFeerate \in Nat /\ MaxFeerate \in Nat
  BY Weights, TxPolicyAssumption DEF IsInfo, Numbers
<1>2. /\ tx.value = h.value /\ tx.offered = offered /\ tx.canonical
      /\ tx.paid = h.value - htlc_fee(setup, f, offered) /\ (offered => tx.lock_time = h.cltv)
  BY DEF HtlcTx
<1>. HIDE DEF tx, w, f
<1>3. CASE is_zero_fee_htlc(setup)
  <2>1. build_feerate(setup, tx) = 0 /\ \A r : htlc_fee(setup, r, offered) = 0
    BY <1>3 DEF build_feerate, htlc_fee
  <2>2. decode_and_validate_htlc_tx(setup, tx)
    BY <1>2, <2>1 DEF decode_and_validate_htlc_tx
  <2>3. validate_htlc_tx(setup, tx)
    BY <1>1, <1>2, <1>3, <2>1 DEF validate_htlc_tx, Holds
  <2>. QED  BY <2>2, <2>3 DEF sign_htlc_tx, tx, f
<1>4. CASE ~is_zero_fee_htlc(setup)
  <2>. DEFINE e == estimate_feerate_per_kw(fee, w)
  <2>1. e \in Nat /\ f <= e /\ e <= MaxFeerate /\ (e * w) \div KW = fee /\ fee \in Nat
    BY <1>1, EstimateAgain DEF f, w
  <2>2. htlc_fee(setup, f, offered) = fee
    BY <1>4 DEF htlc_fee, w
  <2>. HIDE DEF fee
  <2>3. tx.value - tx.paid = fee
    BY <1>2, <2>1, <2>2
  <2>4. build_feerate(setup, tx) = e
    BY <1>2, <1>4, <2>3 DEF build_feerate, w
  <2>. HIDE DEF e
  <2>5. htlc_fee(setup, e, offered) = fee
    BY <1>4, <2>1 DEF htlc_fee, w
  <2>6. decode_and_validate_htlc_tx(setup, tx)
    BY <1>2, <2>2, <2>4, <2>5 DEF decode_and_validate_htlc_tx
  <2>7. MinFeerate <= e
    BY <1>1, <2>1 DEF f
  <2>8. validate_htlc_tx(setup, tx)
    BY <1>2, <2>1, <2>4, <2>7 DEF validate_htlc_tx, Holds
  <2>. QED  BY <2>6, <2>8 DEF sign_htlc_tx, tx, f
<1>. QED  BY <1>3, <1>4

------------------------------------------------------------------------------
(* The inductive invariant                                                  *)

Typed ==
    /\ scenario \in Scenarios
    /\ setup # None => setup \in scenario.setups
    /\ setup = None => holder.next = 0 /\ holder.info = None /\ counterparty.info = None
    /\ holder.next \in Nat /\ counterparty.next \in Nat
    /\ holder.next >= 1 => IsInfo(holder.first) /\ ~holder.first.counterparty
    /\ holder.info # None => IsInfo(holder.info) /\ ~holder.info.counterparty
    /\ counterparty.info # None => IsInfo(counterparty.info) /\ counterparty.info.counterparty

\* A commitment within the channel, with the HTLCs and the fee that are enforced.
Covered(info) ==
    /\ total_value(info) <= setup.value
    /\ Enforces({"policy-commitment-htlc-count-limit"}) => HtlcCount(info) <= MaxHtlcs
    /\ Enforces({"policy-commitment-fee-range"}) =>
          LET feerate == estimate_feerate_per_kw(setup.value - total_value(info),
                                                 CommitWeight(is_anchors(setup), HtlcCount(info)))
          IN  MinFeerate <= feerate /\ feerate <= MaxFeerate

\* The first commitment gives the counterparty what was pushed, and no HTLCs.
Initial(info) ==
    /\ Covered(info)
    /\ Enforces({"policy-commitment-first-no-htlcs"}) => HtlcCount(info) = 0
    /\ Enforces({"policy-commitment-initial-funding-value"}) =>
          (setup.is_outbound => info.to_c <= setup.push \div KW)

Commitments ==
    /\ \A info \in StoredInfos : Covered(info)
    /\ holder.next >= 1 => Initial(holder.first)
    /\ Enforces({"policy-funding-max"}) =>
          (counterparty.info # None => setup.value <= MaxChannelSize)

\* What was removed is on the allowlist neither in memory nor on the disk.
Delisted ==
    /\ removed \cap allow = {} /\ removed \cap allowDisk = {}
    /\ allow \cup allowDisk \cup removed \subseteq Allowed \cup scenario.allowables

\* A script that neither is among off nor comes from an xpub that is.
Clean(script, off) ==
    /\ script \notin off
    /\ Xpub \in off => script \notin {XpubScript(p) : p \in scenario.paths}

ToFund(outs) == \E o \in Range(outs) : o.funds /\ o.script = FundingScript
MayFund == setup # None /\ holder.next >= 1 /\ setup.is_outbound /\ setup.push \div KW = 0

\* What was checked and is not signed yet stays good until it is.
Passed ==
    checked # None /\ ~checked.approved =>
        /\ ForeignAllowlist /\ Enforces(FundingTags) => (ToFund(checked.tx.outs) => MayFund)
        /\ ForeignAllowlist /\ Enforces(DestinationTags) =>
              \A o \in Range(checked.tx.outs) : Clean(o.script, checked.removed)

Signed ==
    /\ ForeignAllowlist /\ Enforces(FundingTags) =>
          (signed # None /\ signed.kind = "onchain" /\ ~signed.approved /\ signed.funds => MayFund)
    /\ ForeignAllowlist /\ Enforces(DestinationTags) => RemovedIsNotPaid
    /\ Enforces(CloseTags) => CloseIsFair

IInv == Typed /\ Commitments /\ Delisted /\ Passed /\ Signed

\* Steps that leave part of it alone.
LEMMA SameCommitments ==
    ASSUME Typed, Commitments, UNCHANGED <<scenario, setup, holder, counterparty>>
    PROVE  Typed' /\ Commitments'
<1>1. Typed'
  BY DEF Typed
<1>2. Commitments'
  BY DEF Commitments, StoredInfos, Initial, Covered
<1>. QED  BY <1>1, <1>2

LEMMA SameWallet ==
    ASSUME Delisted, UNCHANGED <<scenario, allow, allowDisk, removed>>
    PROVE  Delisted'
BY DEF Delisted

LEMMA SamePassed ==
    ASSUME Passed, scenario' = scenario, checked' = checked, MayFund => MayFund'
    PROVE  Passed'
BY DEF Passed, Clean

LEMMA NonePassed == ASSUME checked' = None PROVE Passed'
BY DEF Passed

LEMMA NothingSigned == ASSUME signed' = None PROVE Signed'
BY DEF Signed, RemovedIsNotPaid, CloseIsFair

------------------------------------------------------------------------------
(* Commitments are stored                                                   *)

\* What a commitment that is validated promises.
LEMMA ValidatedIsCovered ==
    ASSUME NEW info, NEW num, validate_commitment_tx(setup, info, num, height)
    PROVE  /\ Covered(info)
           /\ num = 0 /\ ~info.counterparty => Initial(info)
<1>1. total_value(info) <= setup.value
  BY DEF validate_commitment_tx, validate_fee
<1>2. ASSUME Enforces({"policy-commitment-htlc-count-limit"}) PROVE HtlcCount(info) <= MaxHtlcs
  BY <1>2 DEF validate_commitment_tx, Holds, Enforces
<1>3. ASSUME Enforces({"policy-commitment-fee-range"})
      PROVE  LET feerate == estimate_feerate_per_kw(setup.value - total_value(info),
                                                   CommitWeight(is_anchors(setup), HtlcCount(info)))
             IN  MinFeerate <= feerate /\ feerate <= MaxFeerate
  <2>1. validate_fee("policy-commitment-fee-range", setup.value, total_value(info),
                     CommitWeight(is_anchors(setup), HtlcCount(info)))
    BY DEF validate_commitment_tx
  <2>. QED  BY <1>3, <2>1 DEF validate_fee, Holds, Enforces
<1>4. Covered(info)
  BY <1>1, <1>2, <1>3 DEF Covered
<1>5. ASSUME num = 0, Enforces({"policy-commitment-first-no-htlcs"}) PROVE HtlcCount(info) = 0
  BY <1>5 DEF validate_commitment_tx, Holds, Enforces
<1>6. ASSUME num = 0, ~info.counterparty, Enforces({"policy-commitment-initial-funding-value"})
      PROVE  setup.is_outbound => info.to_c <= setup.push \div KW
  BY <1>6 DEF validate_commitment_tx, Holds, Enforces, ToCounterparty
<1>. QED  BY <1>4, <1>5, <1>6 DEF Initial

\* A holder's commitment is stored.
LEMMA HolderStored ==
    ASSUME IInv, setup # None, NEW num \in Nums(holder), NEW info, IsInfo(info),
           ~info.counterparty, validate_holder(num, info), StoreHolder(num, info),
           UNCHANGED <<scenario, setup, counterparty, allow, allowDisk, removed, checked>>,
           signed' = None
    PROVE  IInv'
<1>1. num \in Nat /\ (num = holder.next \/ num = holder.next - 1) /\ holder.next \in Nat
  BY DEF Nums, IInv, Typed
<1>2. Covered(info) /\ (num = 0 => Initial(info))
  BY ValidatedIsCovered DEF validate_holder
<1>3. /\ holder'.next = num + 1 /\ holder'.info = info
      /\ holder'.first = IF num = 0 THEN info ELSE holder.first
  BY DEF StoreHolder
<1>4. num # 0 => holder.next >= 1
  BY <1>1
<1>5. Typed'
  BY <1>1, <1>3, <1>4 DEF IInv, Typed
<1>6. Commitments'
  <2>1. \A i : Covered(i)' <=> Covered(i)
    BY DEF Covered
  <2>2. \A i : Initial(i)' <=> Initial(i)
    BY <2>1 DEF Initial
  <2>3. \A i \in StoredInfos' : Covered(i)
    BY <1>2, <1>3 DEF IInv, Commitments, StoredInfos
  <2>4. Initial(holder'.first)
    BY <1>2, <1>3, <1>4 DEF IInv, Commitments
  <2>5. (Enforces({"policy-funding-max"}) =>
            (counterparty.info # None => setup.value <= MaxChannelSize))'
    BY DEF IInv, Commitments
  <2>. QED  BY <2>1, <2>2, <2>3, <2>4, <2>5 DEF Commitments
<1>7. MayFund => MayFund'
  BY <1>1, <1>3 DEF MayFund
<1>. QED  BY <1>5, <1>6, <1>7, SameWallet, SamePassed, NothingSigned DEF IInv

\* A counterparty's commitment is stored, in a channel of allowed size.
LEMMA CounterpartyStored ==
    ASSUME IInv, setup # None, NEW num \in Nums(counterparty), NEW info, IsInfo(info),
           info.counterparty, validate_channel_value(setup), validate_counterparty(num, info),
           StoreCounterparty(num, info),
           UNCHANGED <<scenario, setup, holder, allow, allowDisk, removed, checked>>,
           signed' = None
    PROVE  IInv'
<1>1. num \in Nat
  BY DEF Nums, IInv, Typed
<1>2. Covered(info)
  BY ValidatedIsCovered DEF validate_counterparty
<1>3. counterparty'.next = num + 1 /\ counterparty'.info = info
  BY DEF StoreCounterparty
<1>4. Typed'
  BY <1>1, <1>3 DEF IInv, Typed
<1>5. Commitments'
  <2>1. \A i : Covered(i)' <=> Covered(i)
    BY DEF Covered
  <2>2. \A i : Initial(i)' <=> Initial(i)
    BY <2>1 DEF Initial
  <2>3. \A i \in StoredInfos' : Covered(i)
    BY <1>2, <1>3 DEF IInv, Commitments, StoredInfos
  <2>4. (holder.next >= 1 => Initial(holder.first))'
    BY <2>2 DEF IInv, Commitments
  <2>5. Enforces({"policy-funding-max"}) => setup.value <= MaxChannelSize
    BY DEF validate_channel_value, Holds, Enforces
  <2>6. Enforces({"policy-funding-max"})' <=> Enforces({"policy-funding-max"})
    BY DEF Enforces
  <2>. QED  BY <2>1, <2>3, <2>4, <2>5, <2>6 DEF Commitments
<1>6. MayFund => MayFund'
  BY DEF MayFund
<1>. QED  BY <1>4, <1>5, <1>6, SameWallet, SamePassed, NothingSigned DEF IInv

\* The channel is made ready.
LEMMA SetupIInv ==
    ASSUME IInv, NEW s \in scenario.setups, NEW path, SetupChannel(s, path)
    PROVE  IInv'
<1>1. /\ setup = None /\ setup' = s /\ signed' = None
      /\ UNCHANGED <<scenario, holder, counterparty, allow, allowDisk, removed, checked>>
  BY DEF SetupChannel, wallet, onchain
<1>2. holder.next = 0 /\ StoredInfos = {} /\ counterparty.info = None
  BY <1>1 DEF IInv, Typed, StoredInfos
<1>3. Typed'
  BY <1>1, <1>2 DEF IInv, Typed
<1>4. Commitments'
  BY <1>1, <1>2 DEF Commitments, StoredInfos
<1>5. MayFund => MayFund'
  BY <1>1 DEF MayFund
<1>. QED  BY <1>1, <1>3, <1>4, <1>5, SameWallet, SamePassed, NothingSigned DEF IInv

\* Nothing but the clock, the chain or a panic.
LEMMA SilentIInv ==
    ASSUME IInv, signed' = None,
           UNCHANGED <<scenario, setup, holder, counterparty, allow, allowDisk, removed, checked>>
    PROVE  IInv'
<1>1. MayFund => MayFund'
  BY DEF MayFund
<1>. QED  BY <1>1, SameCommitments, SameWallet, SamePassed, NothingSigned DEF IInv

------------------------------------------------------------------------------
(* The allowlist and the wallet                                             *)

LEMMA AddAllowlistIInv ==
    ASSUME IInv, NEW script \in scenario.allowables, NEW ok, AddAllowlist(script, ok)
    PROVE  IInv'
<1>1. /\ allow' = allow \cup {script} /\ allowDisk' = (IF ok THEN allow' ELSE allowDisk)
      /\ removed' = removed \ {script} /\ signed' = None
      /\ UNCHANGED <<scenario, setup, holder, counterparty, checked>>
  BY DEF AddAllowlist, commits, onchain
<1>2. Delisted'
  BY <1>1 DEF IInv, Delisted
<1>3. MayFund => MayFund'
  BY <1>1 DEF MayFund
<1>. QED  BY <1>1, <1>2, <1>3, SameCommitments, SamePassed, NothingSigned DEF IInv

LEMMA RemoveAllowlistIInv ==
    ASSUME IInv, NEW script \in scenario.allowables, NEW ok, RemoveAllowlist(script, ok)
    PROVE  IInv'
<1>1. /\ allow' = allow \ {script} /\ allowDisk' = (IF ok THEN allow' ELSE allowDisk)
      /\ removed' = (IF ok THEN removed \cup {script} ELSE removed) /\ signed' = None
      /\ UNCHANGED <<scenario, setup, holder, counterparty, checked>>
  BY DEF RemoveAllowlist, commits, onchain
<1>2. Delisted'
  BY <1>1 DEF IInv, Delisted
<1>3. MayFund => MayFund'
  BY <1>1 DEF MayFund
<1>. QED  BY <1>1, <1>2, <1>3, SameCommitments, SamePassed, NothingSigned DEF IInv

LEMMA SetAllowlistIInv ==
    ASSUME IInv, NEW script \in scenario.allowables, NEW ok, SetAllowlist({script}, ok)
    PROVE  IInv'
<1>1. /\ allow' = {script} /\ allowDisk' = (IF ok THEN allow' ELSE allowDisk)
      /\ removed' = (IF ok THEN (removed \cup allow \cup allowDisk) \ {script} ELSE removed \ {script})
      /\ signed' = None
      /\ UNCHANGED <<scenario, setup, holder, counterparty, checked>>
  BY DEF SetAllowlist, commits, onchain
<1>2. Delisted'
  BY <1>1 DEF IInv, Delisted
<1>3. MayFund => MayFund'
  BY <1>1 DEF MayFund
<1>. QED  BY <1>1, <1>2, <1>3, SameCommitments, SamePassed, NothingSigned DEF IInv

\* The allowlist is read from the disk, and what was not signed is forgotten.
LEMMA RestartIInv ==
    ASSUME IInv, Restart
    PROVE  IInv'
<1>1. /\ allow' = allowDisk /\ checked' = None /\ signed' = None
      /\ UNCHANGED <<scenario, setup, holder, counterparty, allowDisk, removed>>
  BY DEF Restart, commits
<1>2. Delisted'
  BY <1>1 DEF IInv, Delisted
<1>. QED  BY <1>1, <1>2, SameCommitments, NonePassed, NothingSigned DEF IInv

\* What is ours is not what was removed.
LEMMA OursIsClean ==
    ASSUME IInv, ForeignAllowlist, NEW p \in scenario.paths, NEW script, Ours(allow, script, p)
    PROVE  Clean(script, removed) /\ script # FundingScript
<1>. DEFINE L == Allowed \cup scenario.allowables
<1>1. \A q \in scenario.paths :
         {None, FundingScript, WalletScript(q), XpubScript(q)} \cap L = {}
  BY DEF IInv, Typed, ForeignAllowlist
<1>2. removed \subseteq L /\ allow \subseteq L /\ removed \cap allow = {}
  BY DEF IInv, Delisted
<1>. HIDE DEF L
<1>3. CASE script = WalletScript(p)
  <2>1. \A q : script # XpubScript(q)
    BY <1>3 DEF WalletScript, XpubScript
  <2>2. script # FundingScript
    BY <1>3 DEF WalletScript, FundingScript
  <2>. QED  BY <1>1, <1>2, <1>3, <2>1, <2>2 DEF Clean
<1>4. CASE script \in allow
  BY <1>1, <1>2, <1>4 DEF Clean
<1>5. CASE script = XpubScript(p) /\ Xpub \in allow
  <2>1. script # FundingScript
    BY <1>5 DEF XpubScript, FundingScript
  <2>. QED  BY <1>1, <1>2, <1>5, <2>1 DEF Clean
<1>. QED  BY <1>3, <1>4, <1>5 DEF Ours, can_spend, allowlist_contains

\* The funding script is not on the list.
LEMMA FundingIsClean ==
    ASSUME IInv, ForeignAllowlist, NEW p \in scenario.paths
    PROVE  Clean(FundingScript, removed)
<1>1. FundingScript \notin Allowed \cup scenario.allowables
  BY DEF IInv, Typed, ForeignAllowlist
<1>2. FundingScript \notin removed
  BY <1>1 DEF IInv, Delisted
<1>3. \A q : FundingScript # XpubScript(q)
  BY DEF FundingScript, XpubScript
<1>. QED  BY <1>2, <1>3 DEF Clean

\* The outputs of a transaction that validates: ours, or good for the channel they fund.
LEMMA GoodOutputs ==
    ASSUME IInv, NEW tx \in scenario.onchainTxs,
           validate_onchain_tx(allow, tx, FoundOuts(tx)) = "ok",
           Enforces({"policy-onchain-no-unknown-outputs"}), NEW o \in Range(tx.outs)
    PROVE  /\ o.path \in scenario.paths
           /\ \/ Ours(allow, o.script, o.path)
              \/ LET out == [value |-> o.value, script |-> o.script, path |-> o.path,
                             channel |-> [setup |-> setup, next |-> holder.next]]
                 IN  setup # None /\ funds_channel(out)
<1>1. PICK i \in DOMAIN tx.outs : o = tx.outs[i]
  BY DEF Range
<1>. DEFINE out == FoundOuts(tx)[i]
            channel == [setup |-> setup, next |-> holder.next]
<1>2. DOMAIN FoundOuts(tx) = DOMAIN tx.outs
  BY DEF FoundOuts
<1>3. out = [value |-> o.value, script |-> o.script, path |-> o.path,
             channel |-> IF setup # None /\ o.funds THEN channel ELSE None]
  BY <1>1 DEF FoundOuts
<1>4. /\ out.script = o.script /\ out.path = o.path
      /\ out.channel = IF setup # None /\ o.funds THEN channel ELSE None
  BY <1>3
<1>5. GoodOutput(allow, out) /\ ~UnknownOutput(allow, out)
  BY <1>2 DEF validate_onchain_tx, WellFormed
<1>. HIDE DEF out
<1>6. o.path \in scenario.paths
  BY <1>1, FundsAssumption DEF IInv, Typed, IsScenario
<1>7. out.path = NoPath \/ Known(allow, out)
  BY <1>5 DEF GoodOutput, Holds, Enforces
<1>8. CASE Known(allow, out)
  <2>1. Ours(allow, out.script, out.path)
    BY <1>8 DEF Known, Ours
  <2>. QED  BY <1>4, <1>6, <2>1
<1>9. CASE ~Known(allow, out)
  <2>1. out.channel # None /\ FundsChannel(allow, out)
    BY <1>5, <1>7, <1>9 DEF UnknownOutput, FundsChannel
  <2>2. funds_channel(out)
    BY <1>5, <2>1 DEF GoodOutput
  <2>3. setup # None /\ out = [value |-> o.value, script |-> o.script, path |-> o.path, channel |-> channel]
    BY <1>3, <1>4, <2>1
  <2>. QED  BY <1>6, <2>2, <2>3
<1>. QED  BY <1>8, <1>9

\* A withdrawal is checked.
LEMMA CheckIInv ==
    ASSUME IInv, NEW tx \in scenario.onchainTxs, NEW person, CheckOnchainTx(tx, person)
    PROVE  IInv'
<1>1. /\ UNCHANGED <<scenario, setup, holder, counterparty, allow, allowDisk, removed>>
      /\ signed' = None
  BY DEF CheckOnchainTx, commits, wallet
<1>2. CASE checked' = None
  BY <1>1, <1>2, SameCommitments, SameWallet, NonePassed, NothingSigned DEF IInv
<1>3. CASE checked' = Checked(tx, TRUE)
  <2>1. checked'.approved = TRUE
    BY <1>3 DEF Checked
  <2>2. Passed'
    BY <2>1 DEF Passed
  <2>. QED  BY <1>1, <2>2, SameCommitments, SameWallet, NothingSigned DEF IInv
<1>4. CASE validate_onchain_tx(allow, tx, FoundOuts(tx)) = "ok" /\ checked' = Checked(tx, FALSE)
  <2>1. checked'.tx = tx /\ checked'.removed = removed
    BY <1>4 DEF Checked
  <2>2. ASSUME ForeignAllowlist, Enforces(FundingTags), ToFund(tx.outs) PROVE MayFund
    <3>1. PICK o \in Range(tx.outs) : o.script = FundingScript
      BY <2>2 DEF ToFund
    <3>2. Enforces({"policy-onchain-no-unknown-outputs"})
      BY <2>2 DEF Enforces, FundingTags
    <3>. DEFINE out == [value |-> o.value, script |-> o.script, path |-> o.path,
                        channel |-> [setup |-> setup, next |-> holder.next]]
    <3>3. o.path \in scenario.paths /\ (Ours(allow, o.script, o.path) \/ (setup # None /\ funds_channel(out)))
      BY <1>4, <3>2, GoodOutputs
    <3>4. setup # None /\ funds_channel(out)
      BY <2>2, <3>1, <3>3, OursIsClean
    <3>5. out.channel.setup = setup /\ out.channel.next = holder.next
      OBVIOUS
    <3>. HIDE DEF out
    <3>6. holder.next = 1 /\ setup.is_outbound /\ setup.push \div KW = 0
      BY <2>2, <3>4, <3>5 DEF funds_channel, Holds, Enforces, FundingTags
    <3>. QED  BY <3>4, <3>6 DEF MayFund
  <2>3. ASSUME ForeignAllowlist, Enforces(DestinationTags), NEW o \in Range(tx.outs)
        PROVE  Clean(o.script, removed)
    <3>1. Enforces({"policy-onchain-no-unknown-outputs"})
      BY <2>3 DEF Enforces, DestinationTags
    <3>. DEFINE out == [value |-> o.value, script |-> o.script, path |-> o.path,
                        channel |-> [setup |-> setup, next |-> holder.next]]
    <3>2. o.path \in scenario.paths /\ (Ours(allow, o.script, o.path) \/ (setup # None /\ funds_channel(out)))
      BY <1>4, <3>1, GoodOutputs
    <3>3. CASE Ours(allow, o.script, o.path)
      BY <2>3, <3>2, <3>3, OursIsClean
    <3>4. CASE funds_channel(out)
      <4>1. out.script = o.script
        OBVIOUS
      <4>. HIDE DEF out
      <4>2. o.script = FundingScript
        BY <2>3, <3>4, <4>1 DEF funds_channel, Holds, Enforces, DestinationTags
      <4>. QED  BY <2>3, <3>2, <4>2, FundingIsClean
    <3>. QED  BY <3>2, <3>3, <3>4
  <2>4. MayFund' <=> MayFund
    BY <1>1 DEF MayFund
  <2>5. \A script, off : Clean(script, off)' <=> Clean(script, off)
    BY <1>1 DEF Clean
  <2>6. Passed'
    BY <2>1, <2>2, <2>3, <2>4, <2>5 DEF Passed
  <2>. QED  BY <1>1, <2>6, SameCommitments, SameWallet, NothingSigned DEF IInv
<1>. QED  BY <1>2, <1>3, <1>4 DEF CheckOnchainTx

\* A withdrawal that was checked is signed.
LEMMA SignOnchainIInv ==
    ASSUME IInv, SignOnchainTx
    PROVE  IInv'
<1>1. /\ UNCHANGED <<scenario, setup, holder, counterparty, allow, allowDisk, removed>>
      /\ checked # None /\ checked' = None
      /\ signed'.kind = "onchain" /\ signed'.approved = checked.approved
      /\ signed'.removed = checked.removed
      /\ signed'.to = {o.script : o \in Range(checked.tx.outs)}
      /\ signed'.funds => ToFund(checked.tx.outs)
  BY DEF SignOnchainTx, commits, wallet, ToFund
<1>2. ASSUME ForeignAllowlist, Enforces(FundingTags), ~signed'.approved, signed'.funds PROVE MayFund'
  <2>1. MayFund
    BY <1>1, <1>2 DEF IInv, Passed
  <2>. QED  BY <1>1, <2>1 DEF MayFund
<1>3. ASSUME ForeignAllowlist, Enforces(DestinationTags) PROVE RemovedIsNotPaid'
  <2>1. CASE checked.approved
    BY <1>1, <2>1 DEF RemovedIsNotPaid
  <2>2. CASE ~checked.approved
    <3>1. \A script \in signed'.to : Clean(script, checked.removed)
      BY <1>1, <1>3, <2>2 DEF IInv, Passed
    <3>. QED  BY <1>1, <2>2, <3>1 DEF RemovedIsNotPaid, Clean
  <2>. QED  BY <2>1, <2>2
<1>4. CloseIsFair'
  BY <1>1 DEF CloseIsFair
<1>5. Signed'
  BY <1>2, <1>3, <1>4 DEF Signed, ForeignAllowlist, Enforces
<1>. QED  BY <1>1, <1>5, SameCommitments, SameWallet, NonePassed DEF IInv

------------------------------------------------------------------------------
(* What comes out of the channel                                            *)

\* What is signed that is not a withdrawal pays to no script that was removed, and is
\* fair if it is a close.
LEMMA SignIInv ==
    ASSUME IInv, UNCHANGED <<scenario, setup, holder, counterparty, allow, allowDisk, removed, checked>>,
           signed'.kind # "onchain",
           ForeignAllowlist /\ Enforces(DestinationTags) => \A s \in signed'.to : Clean(s, removed),
           Enforces(CloseTags) => CloseIsFair'
    PROVE  IInv'
<1>1. MayFund => MayFund'
  BY DEF MayFund
<1>2. ASSUME ForeignAllowlist, Enforces(DestinationTags) PROVE RemovedIsNotPaid'
  <2>1. \A s \in signed'.to : Clean(s, removed)
    BY <1>2
  <2>. QED  BY <2>1 DEF RemovedIsNotPaid, Clean
<1>3. Signed'
  BY <1>2 DEF Signed, ForeignAllowlist, Enforces
<1>. QED  BY <1>1, <1>3, SameCommitments, SameWallet, SamePassed DEF IInv

\* Second-level transactions.
LEMMA HtlcIInv ==
    ASSUME IInv, NEW tx, SignHtlcTx(tx)
    PROVE  IInv'
<1>1. /\ UNCHANGED <<scenario, setup, holder, counterparty, allow, allowDisk, removed, checked>>
      /\ signed'.kind = "htlc" /\ signed'.to = {}
  BY DEF SignHtlcTx, Sign, commits, wallet, onchain
<1>2. CloseIsFair'
  BY <1>1 DEF CloseIsFair
<1>. QED  BY <1>1, <1>2, SignIInv

\* A sweep goes to what is ours.
LEMMA SweepIInv ==
    ASSUME IInv, NEW tx, NEW path \in scenario.paths, validate_sweep(allow, tx, path), Sweep(tx)
    PROVE  IInv'
<1>1. /\ UNCHANGED <<scenario, setup, holder, counterparty, allow, allowDisk, removed, checked>>
      /\ signed'.kind = "sweep" /\ signed'.to = tx.scripts
  BY DEF Sweep, Sign, commits, wallet, onchain
<1>2. CloseIsFair'
  BY <1>1 DEF CloseIsFair
<1>3. ASSUME ForeignAllowlist, Enforces(DestinationTags), NEW s \in tx.scripts PROVE Clean(s, removed)
  <2>1. Ours(allow, s, path)
    BY <1>3 DEF validate_sweep, Holds, Enforces, DestinationTags
  <2>. QED  BY <1>3, <2>1, OursIsClean
<1>. QED  BY <1>1, <1>2, <1>3, SignIInv

\* The outputs of a close: no more than two, and ours gets what is meant for us.
LEMMA ClosingOuts ==
    ASSUME NEW close, close.to_h \in Nat, close.to_c \in Nat
    PROVE  /\ Cardinality(closing_outs(close)) \in 0..2
           /\ Received(closing_outs(close)) \in Nat
           /\ close.to_h > 0 /\ Mine(close.hscript) => Received(closing_outs(close)) >= close.to_h
<1>. DEFINE a == <<close.hscript, close.to_h>>
            b == <<close.cscript, close.to_c>>
            outs == closing_outs(close)
            f == [o \in outs |-> o[2]]
            mine == {o \in outs : Mine(o[1])}
<1>1. IsFiniteSet({a, b}) /\ Cardinality({a, b}) \in 0..2
  <2>1. IsFiniteSet({a}) /\ Cardinality({a}) = 1
    BY FS_Singleton
  <2>. HIDE DEF a, b
  <2>2. {a} \cup {b} = {a, b}
    OBVIOUS
  <2>3. /\ IsFiniteSet({a} \cup {b})
        /\ Cardinality({a} \cup {b}) = IF b \in {a} THEN 1 ELSE 2
    BY <2>1, FS_AddElement
  <2>. QED  BY <2>2, <2>3
<1>2. outs \subseteq {a, b}
  BY DEF closing_outs
<1>3. IsFiniteSet(outs) /\ Cardinality(outs) \in Nat /\ Cardinality(outs) <= Cardinality({a, b})
  BY <1>1, <1>2, FS_Subset, FS_CardinalityType
<1>4. Cardinality(outs) \in 0..2
  BY <1>1, <1>3
<1>5. mine \subseteq outs /\ IsFiniteSet(mine)
  BY <1>3, FS_Subset
<1>6. \A o \in mine : f[o] \in Nat
  BY <1>2
<1>7. close.to_h > 0 /\ Mine(close.hscript) => a \in mine /\ f[a] = close.to_h
  BY DEF closing_outs
<1>. HIDE DEF f, mine, a, b
<1>8. SumFunctionOnSet(f, mine) \in Nat
  BY <1>5, <1>6, SumType
<1>9. a \in mine => f[a] <= SumFunctionOnSet(f, mine)
  BY <1>5, <1>6, SumBounds
<1>10. Received(outs) = SumFunctionOnSet(f, mine)
  BY DEF Received, f, mine
<1>. QED  BY <1>4, <1>7, <1>8, <1>9, <1>10

\* What Epsilon and the infos are.
LEMMA StoredTypes ==
    ASSUME IInv, setup # None
    PROVE  /\ Epsilon \in Nat /\ MaxChannelSize \in Nat /\ KW \in Nat \ {0} /\ U32 \in Nat \ {0}
           /\ setup.value \in Nat /\ setup.push \in Nat /\ setup.is_outbound \in BOOLEAN
           /\ \A info \in StoredInfos : IsInfo(info) /\ total_value(info) <= setup.value
           /\ holder.info # None => ~holder.info.counterparty
           /\ counterparty.info # None => counterparty.info.counterparty
<1>1. Epsilon \in Nat /\ MaxChannelSize \in Nat /\ KW \in Nat \ {0} /\ U32 \in Nat \ {0}
  BY TxPolicyAssumption DEF Numbers
<1>2. setup.value \in Nat /\ setup.push \in Nat /\ setup.is_outbound \in BOOLEAN
  <2>1. scenario \in Scenarios /\ setup \in scenario.setups
    BY DEF IInv, Typed
  <2>. QED  BY <2>1, FundsAssumption DEF IsScenario
<1>3. \A info \in StoredInfos : IsInfo(info) /\ total_value(info) <= setup.value
  BY DEF IInv, Typed, Commitments, Covered, StoredInfos
<1>. QED  BY <1>1, <1>2, <1>3 DEF IInv, Typed

\* The side that does not pay the fee gets what either commitment gives it.
LEMMA CloseMatches ==
    ASSUME IInv, setup # None, NEW close, close.to_h \in Nat, close.to_c \in Nat,
           validate_mutual_close_tx(setup, holder.info, counterparty.info, allow, close),
           Enforces(CloseTags), NEW info \in StoredInfos
    PROVE  /\ total_value(info) = ToHolder(info) + ToCounterparty(info)
           /\ ToHolder(info) \in Nat /\ ToCounterparty(info) \in Nat
           /\ IF setup.is_outbound THEN close.to_c <= ToCounterparty(info) + Epsilon
              ELSE ToHolder(info) <= close.to_h + Epsilon
<1>. DEFINE h == holder.info
            c == counterparty.info
<1>1. h # None /\ c # None /\ matches_commitment(setup, h, c, close)
      /\ htlcs_is_empty(h) /\ htlcs_is_empty(c)
  BY DEF validate_mutual_close_tx, Holds, Enforces, CloseTags
<1>2. ~h.counterparty /\ c.counterparty /\ (info = h \/ info = c)
  BY <1>1 DEF IInv, Typed, StoredInfos
<1>3. IsInfo(info) /\ htlcs_is_empty(info) /\ Epsilon \in Nat /\ setup.is_outbound \in BOOLEAN
  BY <1>1, <1>2, StoredTypes
<1>4. info.to_b \in Nat /\ info.to_c \in Nat /\ total_value(info) = info.to_b + info.to_c
  BY <1>3, InfoTypes
<1>5. /\ total_value(info) = ToHolder(info) + ToCounterparty(info)
      /\ ToHolder(info) \in Nat /\ ToCounterparty(info) \in Nat
  BY <1>4 DEF ToHolder, ToCounterparty
<1>6. CASE setup.is_outbound
  <2>1. ~outside_epsilon_range(close.to_c, ToCounterparty(info))
    BY <1>1, <1>2, <1>6 DEF matches_commitment, ToCounterparty
  <2>2. close.to_c <= ToCounterparty(info) + Epsilon
    BY <1>3, <1>5, <2>1 DEF outside_epsilon_range
  <2>. QED  BY <1>5, <1>6, <2>2
<1>7. CASE ~setup.is_outbound
  <2>1. ~outside_epsilon_range(close.to_h, ToHolder(info))
    BY <1>1, <1>2, <1>7 DEF matches_commitment, ToHolder
  <2>2. ToHolder(info) <= close.to_h + Epsilon
    BY <1>3, <1>5, <2>1 DEF outside_epsilon_range
  <2>. QED  BY <1>5, <1>7, <2>2
<1>. QED  BY <1>6, <1>7

\* The fee of a close is bounded.
LEMMA CloseFee ==
    ASSUME IInv, setup # None, NEW close, close.to_h \in Nat, close.to_c \in Nat,
           validate_mutual_close_tx(setup, holder.info, counterparty.info, allow, close),
           Enforces(CloseTags)
    PROVE  LET most == MaxFee(CloseWeight(Cardinality(closing_outs(close))))
           IN  most \in Nat /\ setup.value <= close.to_h + close.to_c + most
<1>. DEFINE n == Cardinality(closing_outs(close))
            w == CloseWeight(n)
            fee == setup.value - (close.to_h + close.to_c)
<1>1. n \in 0..2
  BY ClosingOuts
<1>. HIDE DEF n
<1>2. w \in Nat \ {0} /\ MaxChannelSize * KW + (KW - 1) < U32 * w
  BY <1>1, TxPolicyAssumption, FeerateFits
<1>. HIDE DEF w
<1>3. /\ KW \in Nat \ {0} /\ U32 \in Nat \ {0} /\ MaxChannelSize \in Nat /\ setup.value \in Nat
      /\ MaxFeerate \in Nat
  BY StoredTypes, TxPolicyAssumption DEF Numbers
<1>4. validate_fee("policy-mutual-fee-range", setup.value, close.to_h + close.to_c, w)
      /\ counterparty.info # None
  BY DEF validate_mutual_close_tx, w, n
<1>5. fee \in Nat /\ estimate_feerate_per_kw(fee, w) <= MaxFeerate
  BY <1>3, <1>4 DEF validate_fee, Holds, Enforces, CloseTags
<1>6. setup.value <= MaxChannelSize
  BY <1>4 DEF IInv, Commitments, Enforces, CloseTags
<1>7. fee * KW + (KW - 1) < U32 * w
  <2>1. fee <= MaxChannelSize
    BY <1>3, <1>5, <1>6
  <2>. HIDE DEF fee
  <2>2. fee * KW <= MaxChannelSize * KW /\ fee * KW \in Nat /\ MaxChannelSize * KW \in Nat /\ U32 * w \in Nat
    BY <1>2, <1>3, <1>5, <2>1
  <2>. QED  BY <1>2, <1>3, <2>2
<1>8. MaxFee(w) \in Nat
  <2>1. (MaxFeerate + 1) * w \in Nat
    BY <1>2, <1>3
  <2>. QED  BY <1>3, <2>1, Quotient DEF MaxFee
<1>9. fee <= MaxFee(w)
  BY <1>2, <1>5, <1>7, FeeBound
<1>. QED  BY <1>3, <1>5, <1>8, <1>9 DEF w, n

\* A close that validates is fair.
LEMMA FairClose ==
    ASSUME IInv, setup # None, NEW close, close.to_h \in Nat, close.to_c \in Nat,
           close.path \in scenario.paths,
           validate_mutual_close_tx(setup, holder.info, counterparty.info, allow, close),
           Enforces(CloseTags)
    PROVE  LET outs == closing_outs(close)
               fee == IF setup.is_outbound THEN MaxFee(CloseWeight(Cardinality(outs))) ELSE 0
           IN  \A info \in StoredInfos : Received(outs) + Epsilon + fee >= ToHolder(info)
<1>. DEFINE outs == closing_outs(close)
            most == MaxFee(CloseWeight(Cardinality(outs)))
<1>1. close.to_h > 0 => Mine(close.hscript)
  <2>1. close.to_h > 0 => Ours(allow, close.hscript, close.path)
    BY DEF validate_mutual_close_tx, Holds, Enforces, CloseTags
  <2>. QED  BY <2>1 DEF Ours, can_spend, allowlist_contains, Mine
<1>2. Received(outs) \in Nat /\ close.to_h <= Received(outs)
  BY <1>1, ClosingOuts
<1>3. most \in Nat /\ setup.value <= close.to_h + close.to_c + most
  BY CloseFee
<1>4. Epsilon \in Nat /\ setup.value \in Nat /\ setup.is_outbound \in BOOLEAN
      /\ \A info \in StoredInfos : total_value(info) <= setup.value
  BY StoredTypes
<1>. HIDE DEF outs, most
<1>5. ASSUME NEW info \in StoredInfos
      PROVE  Received(outs) + Epsilon + (IF setup.is_outbound THEN most ELSE 0) >= ToHolder(info)
  <2>1. /\ total_value(info) = ToHolder(info) + ToCounterparty(info)
        /\ ToHolder(info) \in Nat /\ ToCounterparty(info) \in Nat
        /\ IF setup.is_outbound THEN close.to_c <= ToCounterparty(info) + Epsilon
           ELSE ToHolder(info) <= close.to_h + Epsilon
    BY <1>5, CloseMatches
  <2>2. total_value(info) <= setup.value
    BY <1>4
  <2>3. CASE setup.is_outbound
    BY <1>2, <1>3, <1>4, <2>1, <2>2, <2>3
  <2>4. CASE ~setup.is_outbound
    BY <1>2, <1>4, <2>1, <2>4
  <2>. QED  BY <1>4, <2>3, <2>4
<1>. QED  BY <1>5 DEF outs, most

\* A close that validates pays what is ours to no script that was removed.
LEMMA CleanClose ==
    ASSUME IInv, NEW close, close.path \in scenario.paths,
           validate_mutual_close_tx(setup, holder.info, counterparty.info, allow, close),
           ForeignAllowlist, Enforces(DestinationTags)
    PROVE  Clean(close.hscript, removed)
<1>1. close.hscript = None \/ Ours(allow, close.hscript, close.path)
  BY DEF validate_mutual_close_tx, Holds, Enforces, DestinationTags
<1>2. CASE close.hscript = None
  <2>1. /\ None \notin Allowed \cup scenario.allowables
        /\ \A p \in scenario.paths : None # XpubScript(p)
    BY DEF IInv, Typed, ForeignAllowlist
  <2>2. None \notin removed
    BY <2>1 DEF IInv, Delisted
  <2>. QED  BY <1>2, <2>1, <2>2 DEF Clean
<1>3. CASE Ours(allow, close.hscript, close.path)
  BY <1>3, OursIsClean
<1>. QED  BY <1>1, <1>2, <1>3

\* A close is signed as it was validated.
LEMMA CloseIInv ==
    ASSUME IInv, setup # None, NEW close, close.to_h \in Nat, close.to_c \in Nat,
           close.path \in scenario.paths,
           validate_mutual_close_tx(setup, holder.info, counterparty.info, allow, close),
           UNCHANGED <<scenario, setup, holder, counterparty, allow, allowDisk, removed, checked>>,
           signed'.kind = "close", signed'.to = {close.hscript},
           Enforces(CloseTags) => signed'.outs = closing_outs(close)
    PROVE  IInv'
<1>1. ASSUME ForeignAllowlist, Enforces(DestinationTags) PROVE Clean(close.hscript, removed)
  BY <1>1, CleanClose
<1>2. ASSUME Enforces(CloseTags) PROVE CloseIsFair'
  <2>. DEFINE outs == closing_outs(close)
              fee == IF setup.is_outbound THEN MaxFee(CloseWeight(Cardinality(outs))) ELSE 0
  <2>1. \A info \in StoredInfos : Received(outs) + Epsilon + fee >= ToHolder(info)
    BY <1>2, FairClose
  <2>2. \A o : Received(o)' = Received(o)
    BY DEF Received, Mine
  <2>3. StoredInfos' = StoredInfos /\ signed'.outs = outs
    BY <1>2 DEF StoredInfos
  <2>. QED  BY <2>1, <2>2, <2>3 DEF CloseIsFair
<1>. QED  BY <1>1, <1>2, SignIInv

\* The reading of a phase 1 close that is taken validates, and pays what the outputs say.
LEMMA ReadingTypes ==
    ASSUME NEW h, NEW c, NEW tx, IsOutputs(tx.outs), Len(tx.outs) \in {1, 2},
           \A i \in DOMAIN tx.outs : tx.outs[i].path \in scenario.paths,
           NoPath \in scenario.paths
    PROVE  /\ Len(Readings(h, c, tx)) = 2
           /\ \A n \in 1..2 : LET close == Readings(h, c, tx)[n] IN
                 close.to_h \in Nat /\ close.to_c \in Nat /\ close.path \in scenario.paths
<1>. DEFINE larger == minimum_value(h.to_b, c.to_c) > minimum_value(h.to_c, c.to_b)
            o == tx.outs
            Good(close) == close.to_h \in Nat /\ close.to_c \in Nat /\ close.path \in scenario.paths
<1>1. ASSUME NEW to_h \in Nat, NEW to_c \in Nat, NEW hs, NEW cs, NEW path \in scenario.paths
      PROVE  Good(Closing(to_h, to_c, hs, cs, path))
  BY DEF Closing
<1>2. \A i \in 1..Len(o) : o[i].value \in Nat /\ o[i].path \in scenario.paths
  BY DEF IsOutputs
<1>. HIDE DEF Good
<1>3. CASE Len(o) = 1
  <2>. DEFINE a == Closing(o[1].value, 0, o[1].script, None, o[1].path)
              b == Closing(0, o[1].value, None, o[1].script, NoPath)
  <2>1. Good(a) /\ Good(b)
    BY <1>1, <1>2, <1>3
  <2>2. Readings(h, c, tx) = IF larger THEN <<a, b>> ELSE <<b, a>>
    BY <1>3 DEF Readings
  <2>. HIDE DEF a, b, larger
  <2>3. Readings(h, c, tx) = <<a, b>> \/ Readings(h, c, tx) = <<b, a>>
    BY <2>2
  <2>. QED  BY <2>1, <2>3 DEF Good
<1>4. CASE Len(o) = 2
  <2>. DEFINE a == Closing(o[1].value, o[2].value, o[1].script, o[2].script, o[1].path)
              b == Closing(o[2].value, o[1].value, o[2].script, o[1].script, o[2].path)
  <2>1. Good(a) /\ Good(b)
    BY <1>1, <1>2, <1>4
  <2>2. Readings(h, c, tx) = IF larger THEN <<b, a>> ELSE <<a, b>>
    BY <1>4 DEF Readings
  <2>. HIDE DEF a, b, larger
  <2>3. Readings(h, c, tx) = <<a, b>> \/ Readings(h, c, tx) = <<b, a>>
    BY <2>2
  <2>. QED  BY <2>1, <2>3 DEF Good
<1>. QED  BY <1>3, <1>4

\* A reading that is found validates.
LEMMA ReadingFound ==
    ASSUME NEW h, NEW c, NEW tx, Len(Readings(h, c, tx)) = 2,
           GoodReading(setup, h, c, allow, tx) # 0
    PROVE  LET n == GoodReading(setup, h, c, allow, tx)
           IN  n \in 1..2 /\ validate_mutual_close_tx(setup, h, c, allow, Readings(h, c, tx)[n])
<1>. DEFINE r == Readings(h, c, tx)
            I == {i \in 1..Len(r) : validate_mutual_close_tx(setup, h, c, allow, r[i])}
<1>1. GoodReading(setup, h, c, allow, tx) = IF I # {} THEN Min(I) ELSE 0
  BY DEF GoodReading, SelectInSeq
<1>2. I \subseteq 1..2
  BY Zenon
<1>3. \A i \in I : validate_mutual_close_tx(setup, h, c, allow, r[i])
  BY Zenon
<1>. HIDE DEF I, r
<1>4. I # {} => Min(I) \in I
  <2>1. ASSUME I # {} PROVE \E x \in I : \A y \in I : x <= y
    <3>1. \A y \in I : y = 1 \/ y = 2
      BY <1>2
    <3>2. CASE 1 \in I
      BY <3>1, <3>2
    <3>3. CASE 1 \notin I
      BY <2>1, <3>1, <3>3
    <3>. QED  BY <3>2, <3>3
  <2>. QED  BY <2>1 DEF Min
<1>. QED  BY <1>1, <1>2, <1>3, <1>4 DEF r

\* The close of phase 1.
LEMMA CloseTxIInv ==
    ASSUME IInv, NEW tx \in scenario.closeTxs, SignMutualCloseTx(tx)
    PROVE  IInv'
<1>. DEFINE h == holder.info
            c == counterparty.info
            n == GoodReading(setup, h, c, allow, tx)
            close == Readings(h, c, tx)[n]
<1>1. CASE Len(tx.outs) = 0
  <2>1. /\ UNCHANGED <<scenario, setup, holder, counterparty, allow, allowDisk, removed, checked>>
        /\ signed' = None
    BY <1>1 DEF SignMutualCloseTx, commits, wallet, onchain
  <2>. QED  BY <2>1, SilentIInv
<1>2. CASE Len(tx.outs) # 0
  <2>1. /\ UNCHANGED <<scenario, setup, holder, counterparty, allow, allowDisk, removed, checked>>
        /\ setup # None /\ decode_and_validate_mutual_close_tx(setup, h, c, allow, tx)
        /\ signed' = [kind |-> "close", outs |-> {<<o.script, o.value>> : o \in Range(tx.outs)},
                      to |-> {close.hscript}]
    BY <1>2 DEF SignMutualCloseTx, Ready, Sign, wallet, onchain
  <2>2. /\ IsOutputs(tx.outs) /\ NoPath \in scenario.paths
        /\ \A i \in DOMAIN tx.outs : tx.outs[i].path \in scenario.paths
    <3>1. IsScenario(scenario)
      BY FundsAssumption DEF IInv, Typed
    <3>. QED  BY <3>1 DEF IsScenario
  <2>3. Len(tx.outs) <= 2 /\ n # 0
    BY <2>1 DEF decode_and_validate_mutual_close_tx
  <2>4. Len(tx.outs) \in {1, 2}
    <3>1. ASSUME NEW l \in Nat, l <= 2, l # 0 PROVE l \in {1, 2}
      BY <3>1
    <3>2. Len(tx.outs) \in Nat
      BY <2>2 DEF IsOutputs
    <3>. QED  BY <1>2, <2>3, <3>1, <3>2
  <2>. HIDE DEF h, c
  <2>5. /\ Len(Readings(h, c, tx)) = 2
        /\ \A i \in 1..2 : LET r == Readings(h, c, tx)[i] IN
              r.to_h \in Nat /\ r.to_c \in Nat /\ r.path \in scenario.paths
    BY <2>2, <2>4, ReadingTypes
  <2>6. n \in 1..2 /\ validate_mutual_close_tx(setup, h, c, allow, close)
    BY <2>3, <2>5, ReadingFound
  <2>. HIDE DEF n
  <2>7. close.to_h \in Nat /\ close.to_c \in Nat /\ close.path \in scenario.paths
    BY <2>5, <2>6
  <2>8. Enforces(CloseTags) => closing_outs(close) = {<<o.script, o.value>> : o \in Range(tx.outs)}
    BY <2>1 DEF decode_and_validate_mutual_close_tx, Holds, Enforces, CloseTags, n
  <2>. HIDE DEF close
  <2>9. signed'.kind = "close" /\ signed'.to = {close.hscript}
        /\ (Enforces(CloseTags) => signed'.outs = closing_outs(close))
    BY <2>1, <2>8 DEF close, n
  <2>. QED  BY <2>1, <2>6, <2>7, <2>9, CloseIInv DEF h, c
<1>. QED  BY <1>1, <1>2

------------------------------------------------------------------------------
(* The invariant                                                            *)

LEMMA InitIInv == ASSUME Init PROVE IInv
<1>1. Typed
  BY DEF Init, Typed
<1>2. Commitments
  BY DEF Init, Commitments, StoredInfos
<1>3. Delisted
  BY DEF Init, Delisted
<1>4. Passed
  BY DEF Init, Passed
<1>5. Signed
  BY DEF Init, Signed, RemovedIsNotPaid, CloseIsFair
<1>. QED  BY <1>1, <1>2, <1>3, <1>4, <1>5 DEF IInv

\* Commitments in either way, of either side: one that makes the signer panic is not stored.
LEMMA HolderIInv ==
    ASSUME IInv, NEW num \in Nums(holder), NEW info, IsInfo(info),
           ~info.counterparty /\ setup # None /\ signed' = None,
           \/ UNCHANGED holder
           \/ validate_holder(num, info) /\ StoreHolder(num, info),
           UNCHANGED <<scenario, setup, counterparty, allow, allowDisk, removed, checked>>
    PROVE  IInv'
<1>1. CASE UNCHANGED holder
  BY <1>1, SilentIInv
<1>2. CASE validate_holder(num, info) /\ StoreHolder(num, info)
  BY <1>2, HolderStored
<1>. QED  BY <1>1, <1>2

LEMMA CounterpartyIInv ==
    ASSUME IInv, NEW num \in Nums(counterparty), NEW info, IsInfo(info),
           info.counterparty /\ setup # None /\ validate_channel_value(setup) /\ signed' = None,
           \/ UNCHANGED counterparty
           \/ validate_counterparty(num, info) /\ StoreCounterparty(num, info),
           UNCHANGED <<scenario, setup, holder, allow, allowDisk, removed, checked>>
    PROVE  IInv'
<1>1. CASE UNCHANGED counterparty
  BY <1>1, SilentIInv
<1>2. CASE validate_counterparty(num, info) /\ StoreCounterparty(num, info)
  BY <1>2, CounterpartyStored
<1>. QED  BY <1>1, <1>2

LEMMA NextIInv == ASSUME IInv, [Next]_vars PROVE IInv'
<1>1. IsScenario(scenario)
  BY FundsAssumption DEF IInv, Typed
<1>2. CASE UNCHANGED vars
  <2>1. UNCHANGED <<scenario, setup, holder, counterparty, allow, allowDisk, removed, checked, signed>>
    BY <1>2 DEF vars, commits, wallet, onchain
  <2>2. Typed' /\ Commitments' /\ Delisted' /\ MayFund' = MayFund
    BY <2>1, SameCommitments, SameWallet DEF IInv, MayFund
  <2>3. Passed'
    BY <2>1, <2>2, SamePassed DEF IInv
  <2>4. Signed'
    BY <2>1 DEF IInv, Signed, RemovedIsNotPaid, CloseIsFair, MayFund, ForeignAllowlist, Enforces,
           StoredInfos, Received, Mine
  <2>. QED  BY <2>2, <2>3, <2>4 DEF IInv
<1>3. ASSUME NEW s \in scenario.setups, NEW path \in scenario.paths, SetupChannel(s, path) PROVE IInv'
  BY <1>3, SetupIInv
<1>4. ASSUME NEW info \in scenario.infos, NEW num \in Nums(holder),
             ValidateHolderCommitmentTxPhase2(num, info)
      PROVE  IInv'
  <2>1. IsInfo(info)
    BY <1>1 DEF IsScenario
  <2>. QED  BY <1>4, <2>1, HolderIInv DEF ValidateHolderCommitmentTxPhase2, Ready, wallet, onchain
<1>5. ASSUME NEW info \in scenario.infos, NEW num \in Nums(counterparty),
             SignCounterpartyCommitmentTxPhase2(num, info)
      PROVE  IInv'
  <2>1. IsInfo(info)
    BY <1>1 DEF IsScenario
  <2>. QED  BY <1>5, <2>1, CounterpartyIInv DEF SignCounterpartyCommitmentTxPhase2, Ready, wallet, onchain
<1>6. ASSUME NEW tx \in scenario.commitTxs, NEW args \in scenario.args
      PROVE  IsInfo(DecodedInfo(tx, args)) /\ DecodedInfo(tx, args).counterparty = args.counterparty
  <2>1. IsOutputs(tx.outs) /\ IsInfo(args)
    BY <1>1 DEF IsScenario
  <2>. QED  BY <2>1, DecodedType
<1>7. ASSUME NEW tx \in scenario.commitTxs, NEW args \in scenario.args, NEW num \in Nums(holder),
             ValidateHolderCommitmentTx(num, tx, args)
      PROVE  IInv'
  <2>. DEFINE info == DecodedInfo(tx, args)
  <2>1. IsInfo(info) /\ info.counterparty = args.counterparty
    BY <1>6
  <2>2. validate_holder(num, info)
    BY <1>7 DEF ValidateHolderCommitmentTx, make_validated_recomposed_holder_commitment_tx
  <2>3. /\ ~args.counterparty /\ setup # None /\ signed' = None
        /\ UNCHANGED holder \/ StoreHolder(num, info)
        /\ UNCHANGED <<scenario, setup, counterparty, allow, allowDisk, removed, checked>>
    BY <1>7 DEF ValidateHolderCommitmentTx, Ready, wallet, onchain
  <2>. HIDE DEF info
  <2>. QED  BY <2>1, <2>2, <2>3, HolderIInv
<1>8. ASSUME NEW tx \in scenario.commitTxs, NEW args \in scenario.args, NEW num \in Nums(counterparty),
             SignCounterpartyCommitmentTx(num, tx, args)
      PROVE  IInv'
  <2>. DEFINE info == DecodedInfo(tx, args)
  <2>1. IsInfo(info) /\ info.counterparty = args.counterparty
    BY <1>6
  <2>2. /\ args.counterparty /\ setup # None /\ validate_channel_value(setup) /\ signed' = None
        /\ UNCHANGED counterparty \/ (validate_counterparty(num, info) /\ StoreCounterparty(num, info))
        /\ UNCHANGED <<scenario, setup, holder, allow, allowDisk, removed, checked>>
    BY <1>8 DEF SignCounterpartyCommitmentTx, recomposed_counterparty_commitment_tx, Ready, wallet, onchain
  <2>. HIDE DEF info
  <2>. QED  BY <2>1, <2>2, CounterpartyIInv
<1>9. ASSUME Balance \/ Tick \/ NewBlock PROVE IInv'
  <2>1. /\ UNCHANGED <<scenario, setup, holder, counterparty, allow, allowDisk, removed, checked>>
        /\ signed' = None
    BY <1>9 DEF Balance, Tick, NewBlock, commits, wallet, onchain
  <2>. QED  BY <2>1, SilentIInv
<1>10. ASSUME NEW close \in scenario.closes, SignMutualCloseTxPhase2(close) PROVE IInv'
  <2>1. close.to_h \in Nat /\ close.to_c \in Nat /\ close.path \in scenario.paths
    BY <1>1 DEF IsScenario
  <2>2. /\ validate_mutual_close_tx(setup, holder.info, counterparty.info, allow, close)
        /\ UNCHANGED <<scenario, setup, holder, counterparty, allow, allowDisk, removed, checked>>
        /\ setup # None
        /\ signed' = [kind |-> "close", outs |-> closing_outs(close), to |-> {close.hscript}]
    BY <1>10 DEF SignMutualCloseTxPhase2, Sign, Ready, wallet, onchain
  <2>3. signed'.kind = "close" /\ signed'.to = {close.hscript} /\ signed'.outs = closing_outs(close)
    BY <2>2
  <2>. QED  BY <2>1, <2>2, <2>3, CloseIInv
<1>11. ASSUME NEW tx \in scenario.sweeps, NEW path \in scenario.paths,
              \/ SignDelayedSweep(tx, path)
              \/ \E htlc \in scenario.htlcs : SignCounterpartyHtlcSweep(tx, htlc, path)
              \/ SignJusticeSweep(tx, path)
       PROVE  IInv'
  <2>1. validate_sweep(allow, tx, path) /\ Sweep(tx)
    BY <1>11 DEF SignDelayedSweep, SignCounterpartyHtlcSweep, SignJusticeSweep, validate_delayed_sweep,
           validate_counterparty_htlc_sweep, validate_justice_sweep
  <2>. QED  BY <2>1, SweepIInv
<1>12. ASSUME NEW script \in scenario.allowables, NEW ok \in BOOLEAN,
              AddAllowlist(script, ok) \/ RemoveAllowlist(script, ok) \/ SetAllowlist({script}, ok)
       PROVE  IInv'
  BY <1>12, AddAllowlistIInv, RemoveAllowlistIInv, SetAllowlistIInv
<1>13. ASSUME NEW tx \in scenario.closeTxs, SignMutualCloseTx(tx) PROVE IInv'
  BY <1>13, CloseTxIInv
<1>14. ASSUME NEW tx, SignHtlcTx(tx) PROVE IInv'
  BY <1>14, HtlcIInv
<1>15. ASSUME NEW tx \in scenario.onchainTxs, NEW person \in BOOLEAN, CheckOnchainTx(tx, person) PROVE IInv'
  BY <1>15, CheckIInv
<1>16. ASSUME SignOnchainTx \/ Restart PROVE IInv'
  BY <1>16, SignOnchainIInv, RestartIInv
<1>. QED
  BY <1>2, <1>3, <1>4, <1>5, <1>7, <1>8, <1>9, <1>10, <1>11, <1>12, <1>13, <1>14, <1>15, <1>16 DEF Next

\* What is stored, checked and signed keeps its promises, whatever requests come in which order.
THEOREM FundsInvariant == Spec => []IInv
<1>. QED  BY InitIInv, NextIInv, PTL DEF Spec

------------------------------------------------------------------------------
(* Fees that are charged                                                    *)

\* What was checked at second t and is not signed yet.
Pending(t) == IF checked # None /\ checked.at = t THEN checked.loss ELSE 0

\* The fee control follows a log of what it took, which has room for all that was signed
\* away and for what is still to be signed.
Charged(log) ==
    /\ Follows(fees, log, FeeLimit, now)
    /\ UnderLimit(log, FeeLimit)
    /\ \A t \in Seconds : KW * (lost[t] + Pending(t)) <= log[t]

FeesIInv ==
    /\ now \in Seconds
    /\ lost \in [Seconds -> Nat]
    /\ checked # None => checked.at \in Seconds /\ checked.loss \in Nat
    /\ \E log : Charged(log)

LEMMA FeeLimits == FeeLimit \in 0..U64Max /\ KW \in Nat
BY FundsAssumption, TxPolicyAssumption

\* With a new control nothing is lost or pending.
LEMMA NewCharged ==
    ASSUME now \in Seconds, fees = new_with_intervals(FeeLimit), lost = Nothing, checked = None
    PROVE  FeesIInv
<1>1. Follows(fees, Nothing, FeeLimit, now) /\ UnderLimit(Nothing, FeeLimit)
  BY FeeLimits, NewFollows, NothingUnder
<1>2. \A t \in Seconds : KW * (lost[t] + Pending(t)) <= Nothing[t]
  BY FeeLimits DEF Pending, Nothing
<1>3. lost \in [Seconds -> Nat]
  BY DEF Nothing
<1>. QED  BY <1>1, <1>2, <1>3 DEF FeesIInv, Charged

\* Time alone changes nothing.
LEMMA LaterCharged ==
    ASSUME FeesIInv, now' \in Seconds, now <= now', UNCHANGED <<fees, lost, checked>>
    PROVE  FeesIInv'
<1>1. PICK log : Charged(log)
  BY DEF FeesIInv
<1>2. Follows(fees, log, FeeLimit, now')
  BY <1>1, LaterFollows DEF Charged, FeesIInv, Seconds
<1>3. Charged(log)'
  BY <1>1, <1>2 DEF Charged, Pending
<1>. QED  BY <1>3 DEF FeesIInv

\* What a checked transaction does not bring back.
LEMMA NonBeneficialType ==
    ASSUME Typed, NEW tx \in scenario.onchainTxs,
           validate_onchain_tx(allow, tx, FoundOuts(tx)) = "ok"
    PROVE  NonBeneficial(tx) \in Nat
<1>. DEFINE outs == FoundOuts(tx)
            f == [i \in DOMAIN outs |-> Beneficial(allow, outs[i])]
<1>1. IsOutputs(tx.outs) /\ tx.inputs \in Nat
  BY FundsAssumption DEF Typed, IsScenario
<1>2. DOMAIN outs = DOMAIN tx.outs /\ IsFiniteSet(DOMAIN outs)
  <2>. DEFINE n == Len(tx.outs)
  <2>1. DOMAIN tx.outs = 1..n /\ n \in Int
    BY <1>1 DEF IsOutputs
  <2>. HIDE DEF n
  <2>2. IsFiniteSet(1..n)
    BY <2>1, FS_Interval
  <2>. QED  BY <2>1, <2>2 DEF FoundOuts
<1>3. ASSUME NEW i \in DOMAIN outs PROVE f[i] \in Int
  <2>1. outs[i].value \in Nat /\ outs[i].channel \in {None, [setup |-> setup, next |-> holder.next]}
    BY <1>1, <1>2 DEF FoundOuts, IsOutputs
  <2>2. outs[i].channel # None => outs[i].channel.setup = setup /\ setup # None
    BY <1>2 DEF FoundOuts
  <2>3. setup # None => setup.value \in Nat /\ setup.push \in Nat
    BY FundsAssumption DEF Typed, IsScenario
  <2>4. setup # None => setup.push \div KW \in Nat
    BY <2>3, TxPolicyAssumption, Quotient
  <2>. HIDE DEF outs
  <2>. QED  BY <2>1, <2>2, <2>3, <2>4 DEF Beneficial, FundsChannel
<1>. HIDE DEF outs
<1>4. beneficial_sum(allow, outs) = SumFunctionOnSet(f, DOMAIN outs)
  BY DEF beneficial_sum
<1>. HIDE DEF f
<1>5. beneficial_sum(allow, outs) \in Int
  BY <1>2, <1>3, <1>4, SumOfInts
<1>6. beneficial_sum(allow, outs) <= tx.inputs
  BY DEF validate_onchain_tx, validate_beneficial_value, outs
<1>. QED  BY <1>1, <1>5, <1>6 DEF NonBeneficial, outs

\* What is checked is charged, unless a person approves of it.
LEMMA CheckCharged ==
    ASSUME FeesIInv, Typed, Enforces(FeeTags), NEW tx \in scenario.onchainTxs, NEW person,
           CheckOnchainTx(tx, person)
    PROVE  FeesIInv'
<1>1. PICK log : Charged(log)
  BY DEF FeesIInv
<1>2. now \in Seconds /\ now' = now /\ lost' = lost /\ lost \in [Seconds -> Nat] /\ checked = None
  BY DEF FeesIInv, CheckOnchainTx, clock
<1>. DEFINE msat == NonBeneficial(tx) * KW
<1>3. \A t \in Seconds : lost[t] \in Nat /\ KW * lost[t] <= log[t] /\ KW * lost[t] \in Nat
  BY <1>1, <1>2, FeeLimits DEF Charged, Pending
<1>4. Follows(fees, log, FeeLimit, now) /\ UnderLimit(log, FeeLimit)
  BY <1>1 DEF Charged
<1>5. CASE checked' = Checked(tx, TRUE) /\ UNCHANGED fees
  <2>1. checked'.at = now /\ checked'.loss = 0
    BY <1>5 DEF Checked
  <2>2. \A t \in Seconds : Pending(t)' = 0
    BY <2>1 DEF Pending
  <2>3. Charged(log)'
    BY <1>2, <1>3, <1>4, <1>5, <2>2 DEF Charged
  <2>. QED  BY <1>2, <2>1, <2>3 DEF FeesIInv
<1>6. CASE /\ validate_onchain_tx(allow, tx, FoundOuts(tx)) = "ok"
           /\ fees' = insert(fees, now, msat)
           /\ insert_ok(fees, now, msat)
           /\ checked' = Checked(tx, FALSE)
  <2>1. PICK more : more = [log EXCEPT ![now] = @ + msat]
    OBVIOUS
  <2>2. NonBeneficial(tx) \in Nat /\ msat \in Nat
    BY <1>6, NonBeneficialType, FeeLimits
  <2>3. checked'.at = now /\ checked'.loss = NonBeneficial(tx)
    BY <1>6 DEF Checked
  <2>. HIDE DEF msat
  <2>4. Follows(fees', more, FeeLimit, now) /\ UnderLimit(more, FeeLimit)
    <3>1. /\ Follows(insert(fees, now, msat), [log EXCEPT ![now] = @ + msat], FeeLimit, now)
          /\ UnderLimit([log EXCEPT ![now] = @ + msat], FeeLimit)
      BY <1>2, <1>4, <1>6, <2>2, FeeLimits, TakenFollows
    <3>. QED  BY <1>6, <2>1, <3>1
  <2>5. log \in [Seconds -> Nat]
    BY <1>4 DEF Follows
  <2>6. /\ more[now] = log[now] + msat
        /\ \A t \in Seconds : t # now => more[t] = log[t]
    BY <1>2, <2>1, <2>5
  <2>7. \A t \in Seconds : t # now => Pending(t)' = 0
    BY <2>3 DEF Pending
  <2>8. Pending(now)' \in {0, NonBeneficial(tx)}
    BY <2>3 DEF Pending
  <2>9. ASSUME NEW t \in Seconds PROVE KW * (lost[t] + Pending(t)') <= more[t]
    <3>1. CASE t # now
      BY <1>3, <2>6, <2>7, <3>1
    <3>2. CASE t = now
      <4>. DEFINE p == Pending(now)'
      <4>1. p \in Nat /\ p <= NonBeneficial(tx)
        BY <2>2, <2>8
      <4>. HIDE DEF p
      <4>2. KW * (lost[now] + p) = KW * lost[now] + p * KW /\ p * KW <= msat /\ p * KW \in Nat
        BY <1>2, <2>2, <4>1, FeeLimits DEF msat
      <4>3. log[now] \in Nat
        BY <1>2, <2>5
      <4>. QED  BY <1>2, <1>3, <2>2, <2>6, <3>2, <4>2, <4>3 DEF p
    <3>. QED  BY <3>1, <3>2
  <2>10. Charged(more)'
    BY <1>2, <2>4, <2>9 DEF Charged
  <2>. QED  BY <1>2, <2>2, <2>3, <2>10 DEF FeesIInv
<1>7. CASE /\ fees' = insert(fees, now, msat)
           /\ ~insert_ok(fees, now, msat)
           /\ checked' = None
  <2>1. Follows(fees', log, FeeLimit, now)
    BY <1>2, <1>4, <1>7, FeeLimits, RefusedFollows
  <2>2. \A t \in Seconds : Pending(t)' = 0
    BY <1>7 DEF Pending
  <2>3. Charged(log)'
    BY <1>2, <1>3, <1>4, <2>1, <2>2 DEF Charged
  <2>. QED  BY <1>2, <1>7, <2>3 DEF FeesIInv
<1>8. Holds("policy-onchain-fee-range", insert_ok(fees, now, msat)) <=> insert_ok(fees, now, msat)
  BY DEF Enforces, FeeTags, Holds
<1>. QED  BY <1>5, <1>6, <1>7, <1>8 DEF CheckOnchainTx

\* What is signed was pending.
LEMMA SignCharged == ASSUME FeesIInv, SignOnchainTx PROVE FeesIInv'
<1>1. PICK log : Charged(log)
  BY DEF FeesIInv
<1>2. /\ checked # None /\ checked' = None /\ UNCHANGED <<now, fees>>
      /\ lost' = [lost EXCEPT ![checked.at] = @ + checked.loss]
      /\ now \in Seconds /\ lost \in [Seconds -> Nat]
      /\ checked.at \in Seconds /\ checked.loss \in Nat
  BY DEF FeesIInv, SignOnchainTx, clock
<1>3. \A t \in Seconds : lost'[t] = lost[t] + Pending(t) /\ Pending(t)' = 0
  BY <1>2 DEF Pending
<1>4. lost' \in [Seconds -> Nat]
  BY <1>2
<1>5. \A t \in Seconds : KW * (lost'[t] + Pending(t)') <= log[t]
  <2>1. \A t \in Seconds : lost'[t] + Pending(t)' = lost[t] + Pending(t)
    BY <1>3, <1>4
  <2>. QED  BY <1>1, <2>1 DEF Charged
<1>6. Charged(log)'
  BY <1>1, <1>2, <1>5 DEF Charged
<1>. QED  BY <1>2, <1>4, <1>6 DEF FeesIInv

\* Every step keeps it.
LEMMA NextCharged == ASSUME FeesIInv, Typed, Enforces(FeeTags), [Next]_vars PROVE FeesIInv'
<1>1. CASE UNCHANGED <<now, fees, lost, checked>>
  <2>1. now' \in Seconds /\ now <= now'
    BY <1>1 DEF FeesIInv, Seconds
  <2>. QED  BY <1>1, <2>1, LaterCharged
<1>2. CASE Tick
  <2>1. /\ now' = now + 1 /\ now < MaxNow /\ now \in Seconds /\ MaxNow \in Nat
        /\ UNCHANGED <<fees, lost, checked>>
    BY <1>2, SpendingLogAssumption, VelocityControlAssumption DEF Tick, onchain, FeesIInv
  <2>2. now' \in Seconds /\ now <= now'
    BY <2>1 DEF Seconds
  <2>. QED  BY <2>1, <2>2, LaterCharged
<1>3. ASSUME NEW tx \in scenario.onchainTxs, NEW person \in BOOLEAN, CheckOnchainTx(tx, person)
      PROVE  FeesIInv'
  BY <1>3, CheckCharged
<1>4. CASE SignOnchainTx
  BY <1>4, SignCharged
<1>5. CASE Restart
  <2>1. /\ now' = now /\ now \in Seconds /\ fees' = new_with_intervals(FeeLimit)
        /\ lost' = Nothing /\ checked' = None
    BY <1>5 DEF Restart, clock, FeesIInv
  <2>2. Follows(fees', Nothing, FeeLimit, now) /\ UnderLimit(Nothing, FeeLimit)
    BY <2>1, FeeLimits, NewFollows, NothingUnder
  <2>3. \A t \in Seconds : KW * (lost'[t] + Pending(t)') <= Nothing[t]
    BY <2>1, FeeLimits DEF Pending, Nothing
  <2>4. lost' \in [Seconds -> Nat]
    BY <2>1 DEF Nothing
  <2>5. PICK log : log = Nothing
    OBVIOUS
  <2>6. Charged(log)'
    BY <2>1, <2>2, <2>3, <2>5 DEF Charged
  <2>. QED  BY <2>1, <2>4, <2>6 DEF FeesIInv
<1>6. \/ UNCHANGED <<now, fees, lost, checked>> \/ Tick \/ SignOnchainTx \/ Restart
      \/ \E tx \in scenario.onchainTxs, person \in BOOLEAN : CheckOnchainTx(tx, person)
  BY DEF Next, vars, clock, onchain, commits, wallet, SetupChannel, ValidateHolderCommitmentTxPhase2,
         ValidateHolderCommitmentTx, SignCounterpartyCommitmentTxPhase2, SignCounterpartyCommitmentTx,
         Balance, SignMutualCloseTxPhase2, SignMutualCloseTx, SignHtlcTx, SignDelayedSweep,
         SignCounterpartyHtlcSweep, SignJusticeSweep, Sweep, Sign, AddAllowlist, RemoveAllowlist,
         SetAllowlist, NewBlock
<1>. QED  BY <1>1, <1>2, <1>3, <1>4, <1>5, <1>6

------------------------------------------------------------------------------
(* The theorems                                                             *)

\* A stored commitment in a channel of allowed size leaves a fee within the range, if the
\* anchors are counted with it.
LEMMA CoveredFee ==
    ASSUME NEW info, IsInfo(info), setup # None, Typed, setup.value <= MaxChannelSize, Covered(info),
           HtlcCount(info) <= MaxHtlcs, Enforces({"policy-commitment-fee-range"})
    PROVE  LET weight == CommitWeight(is_anchors(setup), HtlcCount(info))
           IN  /\ MaxFee(weight) \in Nat /\ setup.value <= total_value(info) + MaxFee(weight)
               /\ MinFee(weight) \in Nat /\ total_value(info) + MinFee(weight) <= setup.value
<1>. DEFINE n == HtlcCount(info)
            w == CommitWeight(is_anchors(setup), n)
            total == total_value(info)
            fee == setup.value - total
<1>1. n \in Nat /\ total \in Nat
  BY InfoTypes
<1>2. n \in 0..MaxHtlcs /\ MaxHtlcs \in Nat /\ KW \in Nat \ {0} /\ U32 \in Nat \ {0}
      /\ MaxChannelSize \in Nat /\ MaxFeerate \in Nat
  BY <1>1, TxPolicyAssumption DEF Numbers
<1>3. setup.value \in Nat
  <2>1. scenario \in Scenarios /\ setup \in scenario.setups
    BY DEF Typed
  <2>. QED  BY <2>1, FundsAssumption DEF IsScenario
<1>4. /\ total <= setup.value
      /\ MinFeerate <= estimate_feerate_per_kw(fee, w) /\ estimate_feerate_per_kw(fee, w) <= MaxFeerate
  BY DEF Covered
<1>. HIDE DEF n, total
<1>5. w \in Nat \ {0} /\ MaxChannelSize * KW + (KW - 1) < U32 * w
  BY <1>2, Weights
<1>. HIDE DEF w
<1>6. fee \in Nat /\ fee <= MaxChannelSize
  BY <1>1, <1>2, <1>3, <1>4
<1>7. fee * KW + (KW - 1) < U32 * w
  <2>. HIDE DEF fee
  <2>1. fee * KW <= MaxChannelSize * KW /\ fee * KW \in Nat /\ MaxChannelSize * KW \in Nat /\ U32 * w \in Nat
    BY <1>2, <1>5, <1>6
  <2>. QED  BY <1>2, <1>5, <2>1
<1>8. fee <= MaxFee(w)
  BY <1>4, <1>5, <1>6, <1>7, FeeBound
<1>9. MaxFee(w) \in Nat
  <2>1. (MaxFeerate + 1) * w \in Nat
    BY <1>2, <1>5
  <2>. QED  BY <1>2, <2>1, Quotient DEF MaxFee
<1>10. MinFee(w) \in Nat /\ MinFee(w) <= fee
  BY <1>4, <1>5, <1>6, LeastFee
<1>. QED  BY <1>1, <1>3, <1>8, <1>9, <1>10 DEF w, n, total

\* Where the fee range and the number of HTLCs are enforced, what a channel of allowed size holds
\* beyond the outputs of a stored commitment's transaction, its anchors taken as part of the fee,
\* is within the range of fees (validate_commitment_tx, validate_fee).
THEOREM StoredCommitmentsAreCovered ==
    ASSUME Enforces(CommitmentTags)
    PROVE  Spec => []CommitmentsAreCovered
<1>1. ASSUME IInv PROVE CommitmentsAreCovered
  <2>1. SUFFICES ASSUME setup # None, setup.value <= MaxChannelSize, NEW info \in StoredInfos
                 PROVE  LET fee == setup.value - PaidOut(setup, info)
                            weight == CommitWeight(is_anchors(setup), HtlcCount(info))
                        IN  /\ MinFee(weight) - AnchorsPaid(setup, info) <= fee
                            /\ fee <= MaxFee(weight) - AnchorsPaid(setup, info)
    BY DEF CommitmentsAreCovered
  <2>2. IsInfo(info) /\ Covered(info) /\ Typed
    BY <1>1 DEF IInv, Typed, Commitments, StoredInfos
  <2>3. /\ Enforces({"policy-commitment-fee-range"}) /\ Enforces({"policy-commitment-htlc-count-limit"})
    BY DEF Enforces, CommitmentTags
  <2>4. HtlcCount(info) <= MaxHtlcs /\ total_value(info) <= setup.value
    BY <2>2, <2>3 DEF Covered
  <2>5. AnchorsPaid(setup, info) \in Nat
    <3>1. AnchorValue \in Nat
      BY TxPolicyAssumption DEF Numbers
    <3>. QED  BY <3>1 DEF AnchorsPaid
  <2>6. setup.value \in Nat /\ total_value(info) \in Nat
    BY <1>1, <2>1, <2>2, StoredTypes, InfoTypes
  <2>7. PaidOut(setup, info) = total_value(info) + AnchorsPaid(setup, info)
    BY DEF PaidOut
  <2>. DEFINE w == CommitWeight(is_anchors(setup), HtlcCount(info))
  <2>8. /\ MaxFee(w) \in Nat /\ setup.value <= total_value(info) + MaxFee(w)
        /\ MinFee(w) \in Nat /\ total_value(info) + MinFee(w) <= setup.value
    BY <2>1, <2>2, <2>3, <2>4, CoveredFee
  <2>. HIDE DEF w
  <2>9. /\ MinFee(w) - AnchorsPaid(setup, info) <= setup.value - PaidOut(setup, info)
        /\ setup.value - PaidOut(setup, info) <= MaxFee(w) - AnchorsPaid(setup, info)
    BY <2>5, <2>6, <2>7, <2>8
  <2>. QED  BY <2>9 DEF w
<1>. QED  BY <1>1, FundsInvariant, PTL

\* A second-level transaction built at the feerate of a stored commitment is signed, whatever the
\* policy warns of (decode_and_validate_htlc_tx, validate_htlc_tx).
THEOREM StoredHtlcsCanBeClaimed == Spec => []HtlcsCanBeClaimed
<1>1. ASSUME IInv PROVE HtlcsCanBeClaimed
  <2>1. SUFFICES ASSUME NEW info \in StoredInfos, NEW offered \in BOOLEAN,
                        MinFeerate <= info.feerate,
                        info.feerate + (KW - 1) \div HtlcWeight(is_anchors(setup), offered) <= MaxFeerate,
                        NEW h \in IF offered THEN info.offered ELSE info.received,
                        h.cltv # 0
                 PROVE  sign_htlc_tx(HtlcTx(setup, h, info.feerate, offered))
    BY DEF HtlcsCanBeClaimed
  <2>2. IsInfo(info)
    BY <1>1 DEF IInv, Typed, StoredInfos
  <2>3. h.value \in Nat
    BY <2>2 DEF IsInfo
  <2>. QED  BY <2>1, <2>2, <2>3, HtlcPasses
<1>. QED  BY <1>1, FundsInvariant, PTL

\* Where the allowlist is foreign to the channel and the checks are enforced, money signed into
\* the channel without an approval comes back, but for a fee, by the initial commitment, however
\* the check and the signature of the withdrawal interleave with other requests
\* (validate_onchain_tx, unchecked_sign_onchain_tx).
THEOREM SignedFundingIsRecoverable ==
    ASSUME ForeignAllowlist, Enforces(InitialTags)
    PROVE  Spec => []FundingIsRecoverable
<1>1. ASSUME IInv PROVE FundingIsRecoverable
  <2>. DEFINE first == holder.first
  <2>1. SUFFICES ASSUME signed # None, signed.kind = "onchain", ~signed.approved, signed.funds,
                        setup.value <= MaxChannelSize
                 PROVE  /\ holder.next >= 1
                        /\ ToHolder(first) + MaxFee(CommitWeight(is_anchors(setup), 0)) >= setup.value
    BY DEF FundingIsRecoverable
  <2>2. /\ Enforces(FundingTags) /\ Enforces({"policy-commitment-fee-range"})
        /\ Enforces({"policy-commitment-first-no-htlcs"})
        /\ Enforces({"policy-commitment-initial-funding-value"})
    BY DEF Enforces, InitialTags
  <2>3. MayFund
    BY <1>1, <2>1, <2>2 DEF IInv, Signed
  <2>4. /\ setup # None /\ Typed /\ IsInfo(first) /\ ~first.counterparty
        /\ Covered(first) /\ HtlcCount(first) = 0 /\ first.to_c <= 0
    BY <1>1, <2>2, <2>3 DEF IInv, Typed, Commitments, Initial, MayFund
  <2>5. total_value(first) = first.to_b + first.to_c /\ first.to_b \in Nat /\ first.to_c \in Nat
    BY <2>4, InfoTypes
  <2>6. MaxHtlcs \in Nat
    BY TxPolicyAssumption DEF Numbers
  <2>. DEFINE most == MaxFee(CommitWeight(is_anchors(setup), HtlcCount(first)))
  <2>7. most \in Nat /\ setup.value <= total_value(first) + most
    BY <2>1, <2>2, <2>4, <2>6, CoveredFee
  <2>8. most = MaxFee(CommitWeight(is_anchors(setup), 0))
    BY <2>4
  <2>. HIDE DEF most
  <2>9. total_value(first) = first.to_b /\ ToHolder(first) = first.to_b
    BY <2>4, <2>5 DEF ToHolder
  <2>10. setup.value \in Nat
    BY <1>1, <2>4, StoredTypes
  <2>. QED  BY <2>3, <2>5, <2>7, <2>8, <2>9, <2>10 DEF MayFund
<1>. QED  BY <1>1, FundsInvariant, PTL

\* Where the allowlist is foreign to the channel and destinations are enforced, what the client
\* was told is off the allowlist is not paid as ours, also after a restart
\* (remove_allowlist, the checks of destinations).
THEOREM WhatIsRemovedIsNotPaid ==
    ASSUME ForeignAllowlist, Enforces(DestinationTags)
    PROVE  Spec => []RemovedIsNotPaid
<1>1. IInv => RemovedIsNotPaid
  BY DEF IInv, Signed
<1>. QED  BY <1>1, FundsInvariant, PTL

\* Where its checks are enforced, a signed close pays us what each of the two commitments gives
\* us, but for epsilon and, if we pay it, the largest fee (validate_mutual_close_tx).
THEOREM SignedCloseIsFair ==
    ASSUME Enforces(CloseTags)
    PROVE  Spec => []CloseIsFair
<1>1. IInv => CloseIsFair
  BY DEF IInv, Signed
<1>. QED  BY <1>1, FundsInvariant, PTL

\* Where the fee range is enforced and the fees have a limit, what is signed away without an
\* approval stays within it in every window since the start (check_onchain_tx charges a
\* transaction before unchecked_sign_onchain_tx signs it).
THEOREM SignedFeesAreBounded ==
    ASSUME Enforces(FeeTags), FeeLimit < U64Max PROVE Spec => []FeesAreBounded
<1>1. ASSUME Init PROVE FeesIInv
  <2>1. now \in Seconds
    BY <1>1, SpendingLogAssumption, VelocityControlAssumption DEF Init, Seconds
  <2>. QED  BY <1>1, <2>1, NewCharged DEF Init
<1>2. ASSUME IInv, FeesIInv, [Next]_vars PROVE FeesIInv'
  BY <1>2, NextCharged DEF IInv
<1>3. ASSUME FeesIInv PROVE FeesAreBounded
  <2>1. PICK log : Charged(log)
    BY <1>3 DEF FeesIInv
  <2>2. log \in [Seconds -> Nat] /\ lost \in [Seconds -> Nat]
    BY <1>3, <2>1 DEF Charged, Follows, FeesIInv
  <2>3. ASSUME NEW t \in Seconds PROVE KW * lost[t] <= log[t]
    <3>1. Pending(t) \in Nat
      BY <1>3 DEF Pending, FeesIInv
    <3>2. KW * (lost[t] + Pending(t)) <= log[t] /\ lost[t] \in Nat /\ log[t] \in Nat
      BY <2>1, <2>2 DEF Charged
    <3>. DEFINE p == Pending(t)
    <3>. HIDE DEF p
    <3>3. KW * (lost[t] + p) = KW * lost[t] + KW * p /\ KW * p \in Nat /\ KW * lost[t] \in Nat
      BY <3>1, <3>2, FeeLimits DEF p
    <3>. QED  BY <3>2, <3>3 DEF p
  <2>4. ASSUME NEW t \in Seconds PROVE KW * SumIn(lost, t - Window, t) <= FeeLimit
    <3>. DEFINE S == {u \in Seconds : t - Window <= u /\ u <= t}
    <3>1. SumIn(log, t - Window, t) <= FeeLimit
      BY <2>1 DEF Charged, UnderLimit
    <3>2. S \in SUBSET Seconds
      OBVIOUS
    <3>3. SumIn(lost, t - Window, t) = SumFunctionOnSet(lost, S)
          /\ SumIn(log, t - Window, t) = SumFunctionOnSet(log, S)
      BY DEF SumIn
    <3>. HIDE DEF S
    <3>4. IsFiniteSet(S) /\ \A u \in S : lost[u] \in Nat /\ log[u] \in Nat /\ KW * lost[u] <= log[u]
      BY <2>2, <2>3, <3>2, SecondsFinite
    <3>5. KW * SumFunctionOnSet(lost, S) <= SumFunctionOnSet(log, S)
      BY <3>4, SumTimes, FeeLimits
    <3>6. /\ SumFunctionOnSet(lost, S) \in Nat /\ SumFunctionOnSet(log, S) \in Nat
          /\ FeeLimit \in Nat /\ KW * SumFunctionOnSet(lost, S) \in Nat
      <4>1. SumFunctionOnSet(lost, S) \in Nat /\ SumFunctionOnSet(log, S) \in Nat
        BY <3>4, SumType
      <4>. QED  BY <4>1, FeeLimits
    <3>. QED  BY <3>1, <3>3, <3>5, <3>6
  <2>. QED  BY <2>4 DEF FeesAreBounded
<1>. QED  BY <1>1, <1>2, <1>3, FundsInvariant, PTL DEF Spec

==============================================================================
