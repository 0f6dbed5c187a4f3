---------------------------- MODULE NodeLocksProofs ----------------------------
(***************************************************************************)
(* How tasks may wait in a circle for the mutexes of a node, for any       *)
(* number of clients, channels and requests: all that is locked together   *)
(* is locked in one order, but for the tracker under the channel map.      *)
(***************************************************************************)
EXTENDS NodeLocks, SumTheorems, SequenceTheorems

------------------------------------------------------------------------------
(* The order of the mutexes                                                 *)

Rank(m) ==
    CASE m[1] = "persist_client" -> 0
      [] m[1] = "tracker"        -> 1
      [] m[1] = "channels"       -> 2
      [] m[1] = "slot"           -> 3
      [] m[1] = "state"          -> 4
      [] m[1] = "monitor"        -> 5

\* m is taken while k is held: in the order of the ranks, or, where cross allows it,
\* the tracker under the map.
Before(cross, k, m) ==
    Rank(k) < Rank(m) \/ (cross /\ k = ChannelMap /\ m = Tracker)

------------------------------------------------------------------------------
(* Scripts                                                                  *)

Steps == [op : {"lock", "unlock"}, mutex : Mutexes]

Locks(s, i, k) == s[i].op = "lock" /\ s[i].mutex = k
Unlocks(s, i, k) == s[i].op = "unlock" /\ s[i].mutex = k

\* Position j locks k, which is still locked at position i.
Keeps(s, j, i, k) == Locks(s, j, k) /\ \A l \in (j + 1)..(i - 1) : ~Unlocks(s, l, k)

\* What is locked is unlocked later.
Closed(s) ==
    \A j \in 1..Len(s), k \in Mutexes :
        Locks(s, j, k) => \E l \in (j + 1)..Len(s) : Unlocks(s, l, k)

\* What is unlocked was locked.
Opened(s) ==
    \A l \in 1..Len(s), k \in Mutexes :
        Unlocks(s, l, k) => \E j \in 1..(l - 1) : Locks(s, j, k)

\* What is locked may be, with what the script has locked and has not unlocked.
Nested(cross, s) ==
    \A i \in 1..Len(s), j \in 1..Len(s), k \in Mutexes :
        s[i].op = "lock" /\ j < i /\ Keeps(s, j, i, k) => Before(cross, k, s[i].mutex)

\* All that is locked may be locked with H.
Over(cross, s, H) ==
    \A i \in 1..Len(s), k \in H : s[i].op = "lock" => Before(cross, k, s[i].mutex)

\* A script of its own, run while H is held.
Fits(cross, s, H) ==
    /\ s \in Seq(Steps)
    /\ Closed(s) /\ Opened(s)
    /\ Nested(cross, s)
    /\ Over(cross, s, H)

------------------------------------------------------------------------------
(* The inductive invariant                                                  *)

Held(t) == {m \in Mutexes : owner[m] = t}

\* What is left of a script, for a task that holds H.
Rest(cross, s, H) ==
    /\ Closed(s) /\ Nested(cross, s)
    /\ \A k \in H : \E l \in 1..Len(s) : Unlocks(s, l, k)
    /\ \A i \in 1..Len(s), k \in H :
          s[i].op = "lock" /\ (\A l \in 1..(i - 1) : ~Unlocks(s, l, k))
              => Before(cross, k, s[i].mutex)

\* The clients' requests may take the tracker under the map, the follower's do not.
Crosses(t) == t # Follower

Typed ==
    /\ deployment \in Deployments
    /\ owner \in [Mutexes -> Tasks \cup {Nobody}]
    /\ todo \in [Tasks -> Seq(Steps)]

\* The last step gives the cloud client back, and no other.
Framed(s) ==
    /\ s # <<>>
    /\ Unlocks(s, Len(s), PersistClient)
    /\ \A l \in 1..(Len(s) - 1) : ~Unlocks(s, l, PersistClient)

\* The cloud client is not touched.
Loose(s) == \A l \in 1..Len(s) : s[l].mutex # PersistClient

\* With the cloud, a task is idle, is the follower outside the client's lock, is about to
\* lock the cloud client, or has locked it.
Guarded(t) ==
    \/ todo[t] = <<>>
    \/ t = Follower /\ Loose(todo[t])
    \/ Framed(todo[t]) /\ Locks(todo[t], 1, PersistClient) /\ Held(t) = {}
    \/ Framed(todo[t]) /\ owner[PersistClient] = t

IInv ==
    /\ Typed
    /\ \A t \in Tasks : Rest(Crosses(t), todo[t], Held(t))
    /\ deployment.external_persist => \A t \in Tasks : Guarded(t)

------------------------------------------------------------------------------
(* How scripts are put together                                             *)

\* Nothing to do.
LEMMA EmptyFits == ASSUME NEW cross, NEW H PROVE Fits(cross, <<>>, H)
BY DEF Fits, Closed, Opened, Nested, Over

\* One script after another.
LEMMA ConcatFits ==
    ASSUME NEW cross, NEW H, NEW s, NEW r, Fits(cross, s, H), Fits(cross, r, H)
    PROVE  Fits(cross, s \o r, H)
<1>. DEFINE q == s \o r
            n == Len(s)
<1>1. /\ s \in Seq(Steps) /\ r \in Seq(Steps) /\ q \in Seq(Steps)
      /\ Len(q) = n + Len(r) /\ n \in Nat /\ Len(r) \in Nat
  BY DEF Fits
<1>2. \A i \in 1..n : q[i] = s[i]
  BY <1>1
<1>3. \A i \in 1..Len(r) : q[n + i] = r[i]
  BY <1>1
<1>4. \A i \in 1..Len(q) : i \in 1..n \/ (i - n \in 1..Len(r) /\ n + (i - n) = i)
  BY <1>1
<1>. HIDE DEF q, n
<1>5. Closed(q)
  <2>1. ASSUME NEW j \in 1..Len(q), NEW k \in Mutexes, Locks(q, j, k)
        PROVE  \E l \in (j + 1)..Len(q) : Unlocks(q, l, k)
    <3>1. CASE j \in 1..n
      <4>1. Locks(s, j, k)
        BY <1>2, <2>1, <3>1 DEF Locks
      <4>2. PICK l \in (j + 1)..n : Unlocks(s, l, k)
        BY <3>1, <4>1 DEF Fits, Closed, n
      <4>3. l \in 1..n /\ l \in (j + 1)..Len(q)
        BY <1>1, <3>1, <4>2
      <4>4. Unlocks(q, l, k)
        BY <1>2, <4>2, <4>3 DEF Unlocks
      <4>. QED  BY <4>3, <4>4
    <3>2. CASE j - n \in 1..Len(r) /\ n + (j - n) = j
      <4>. DEFINE i == j - n
      <4>1. Locks(r, i, k)
        BY <1>3, <2>1, <3>2 DEF Locks
      <4>2. PICK l \in (i + 1)..Len(r) : Unlocks(r, l, k)
        BY <3>2, <4>1 DEF Fits, Closed
      <4>3. l \in 1..Len(r) /\ n + l \in (j + 1)..Len(q)
        BY <1>1, <3>2, <4>2
      <4>4. Unlocks(q, n + l, k)
        BY <1>3, <4>2, <4>3 DEF Unlocks
      <4>. QED  BY <4>3, <4>4
    <3>. QED  BY <1>4, <3>1, <3>2
  <2>. QED  BY <2>1 DEF Closed
<1>6. Opened(q)
  <2>1. ASSUME NEW l \in 1..Len(q), NEW k \in Mutexes, Unlocks(q, l, k)
        PROVE  \E j \in 1..(l - 1) : Locks(q, j, k)
    <3>1. CASE l \in 1..n
      <4>1. Unlocks(s, l, k)
        BY <1>2, <2>1, <3>1 DEF Unlocks
      <4>2. PICK j \in 1..(l - 1) : Locks(s, j, k)
        BY <3>1, <4>1 DEF Fits, Opened, n
      <4>3. j \in 1..n
        BY <1>1, <3>1, <4>2
      <4>4. Locks(q, j, k)
        BY <1>2, <4>2, <4>3 DEF Locks
      <4>. QED  BY <4>2, <4>4
    <3>2. CASE l - n \in 1..Len(r) /\ n + (l - n) = l
      <4>. DEFINE i == l - n
      <4>1. Unlocks(r, i, k)
        BY <1>3, <2>1, <3>2 DEF Unlocks
      <4>2. PICK j \in 1..(i - 1) : Locks(r, j, k)
        BY <3>2, <4>1 DEF Fits, Opened
      <4>3. j \in 1..Len(r) /\ n + j \in 1..(l - 1)
        BY <1>1, <3>2, <4>2
      <4>4. Locks(q, n + j, k)
        BY <1>3, <4>2, <4>3 DEF Locks
      <4>. QED  BY <4>3, <4>4
    <3>. QED  BY <1>4, <3>1, <3>2
  <2>. QED  BY <2>1 DEF Opened
<1>7. Nested(cross, q)
  <2>1. ASSUME NEW i \in 1..Len(q), NEW j \in 1..Len(q), NEW k \in Mutexes,
               q[i].op = "lock", j < i, Keeps(q, j, i, k)
        PROVE  Before(cross, k, q[i].mutex)
    <3>1. CASE i \in 1..n
      <4>1. j \in 1..n
        BY <1>1, <2>1, <3>1
      <4>2. Keeps(s, j, i, k)
        <5>1. \A l \in (j + 1)..(i - 1) : l \in 1..n
          BY <1>1, <3>1, <4>1
        <5>. QED  BY <1>2, <2>1, <4>1, <5>1 DEF Keeps, Locks, Unlocks
      <4>3. s[i].op = "lock"
        BY <1>2, <2>1, <3>1
      <4>4. Before(cross, k, s[i].mutex)
        BY <2>1, <3>1, <4>1, <4>2, <4>3 DEF Fits, Nested, n
      <4>. QED  BY <1>2, <3>1, <4>4
    <3>2. CASE i - n \in 1..Len(r) /\ n + (i - n) = i /\ j \in 1..n
      <4>1. Locks(s, j, k)
        BY <1>2, <2>1, <3>2 DEF Keeps, Locks
      <4>2. PICK l \in (j + 1)..n : Unlocks(s, l, k)
        BY <3>2, <4>1 DEF Fits, Closed, n
      <4>3. l \in 1..n /\ l \in (j + 1)..(i - 1)
        BY <1>1, <3>2, <4>2
      <4>4. Unlocks(q, l, k)
        BY <1>2, <4>2, <4>3 DEF Unlocks
      <4>. QED  BY <2>1, <4>3, <4>4 DEF Keeps
    <3>3. CASE /\ i - n \in 1..Len(r) /\ n + (i - n) = i
               /\ j - n \in 1..Len(r) /\ n + (j - n) = j
      <4>. DEFINE a == i - n
                  b == j - n
      <4>1. a \in 1..Len(r) /\ b \in 1..Len(r) /\ b < a /\ q[i] = r[a] /\ q[j] = r[b]
        BY <1>1, <1>3, <2>1, <3>3
      <4>2. \A l \in (b + 1)..(a - 1) :
               l \in 1..Len(r) /\ n + l \in (j + 1)..(i - 1) /\ q[n + l] = r[l]
        <5>1. ASSUME NEW l \in (b + 1)..(a - 1)
              PROVE  l \in 1..Len(r) /\ n + l \in (j + 1)..(i - 1)
          BY <1>1, <3>3
        <5>. QED  BY <1>3, <5>1
      <4>. HIDE DEF a, b
      <4>3. Keeps(r, b, a, k)
        BY <2>1, <4>1, <4>2 DEF Keeps, Locks, Unlocks
      <4>. QED  BY <2>1, <4>1, <4>3 DEF Fits, Nested
    <3>. QED  BY <1>4, <3>1, <3>2, <3>3
  <2>. QED  BY <2>1 DEF Nested
<1>8. Over(cross, q, H)
  <2>1. ASSUME NEW i \in 1..Len(q), NEW k \in H, q[i].op = "lock"
        PROVE  Before(cross, k, q[i].mutex)
    <3>1. CASE i \in 1..n
      BY <1>2, <2>1, <3>1 DEF Fits, Over, n
    <3>2. CASE i - n \in 1..Len(r) /\ n + (i - n) = i
      <4>1. q[i] = r[i - n]
        BY <1>3, <3>2
      <4>. QED  BY <2>1, <3>2, <4>1 DEF Fits, Over
    <3>. QED  BY <1>4, <3>1, <3>2
  <2>. QED  BY <2>1 DEF Over
<1>. QED  BY <1>1, <1>5, <1>6, <1>7, <1>8 DEF Fits, q

\* A script under one more mutex.
LEMMA UnderFits ==
    ASSUME NEW cross, NEW H, NEW m \in Mutexes, NEW s, Fits(cross, s, H \cup {m}),
           \A k \in H : Before(cross, k, m)
    PROVE  Fits(cross, Under(m, s), H)
<1>. DEFINE q == Under(m, s)
            n == Len(s)
<1>1. s \in Seq(Steps) /\ n \in Nat
  BY DEF Fits
<1>2. q \in Seq(Steps) /\ Len(q) = n + 2
  BY <1>1 DEF Under, Lock, Unlock, Steps
<1>3. q[1] = Lock(m) /\ q[n + 2] = Unlock(m) /\ \A i \in 1..n : q[i + 1] = s[i]
  BY <1>1 DEF Under
<1>. HIDE DEF q, n
<1>4. \A i \in 1..Len(q) : i = 1 \/ i = n + 2 \/ (i - 1 \in 1..n /\ (i - 1) + 1 = i)
  BY <1>1, <1>2
<1>5. /\ Locks(q, 1, m) /\ Unlocks(q, n + 2, m)
      /\ q[n + 2].op # "lock" /\ q[1].op # "unlock"
      /\ \A k : (Locks(q, 1, k) => k = m) /\ (Unlocks(q, n + 2, k) => k = m)
  BY <1>3 DEF Lock, Unlock, Locks, Unlocks
<1>6. Closed(q)
  <2>1. ASSUME NEW j \in 1..Len(q), NEW k \in Mutexes, Locks(q, j, k)
        PROVE  \E l \in (j + 1)..Len(q) : Unlocks(q, l, k)
    <3>1. CASE j = 1
      <4>1. n + 2 \in (j + 1)..Len(q)
        BY <1>1, <1>2, <3>1
      <4>. QED  BY <1>5, <2>1, <3>1, <4>1
    <3>2. CASE j = n + 2
      BY <1>5, <2>1, <3>2 DEF Locks
    <3>3. CASE j - 1 \in 1..n /\ (j - 1) + 1 = j
      <4>. DEFINE i == j - 1
      <4>1. Locks(s, i, k)
        BY <1>3, <2>1, <3>3 DEF Locks
      <4>2. PICK l \in (i + 1)..n : Unlocks(s, l, k)
        BY <3>3, <4>1 DEF Fits, Closed, n
      <4>3. l \in 1..n /\ l + 1 \in (j + 1)..Len(q)
        BY <1>1, <1>2, <3>3, <4>2
      <4>4. Unlocks(q, l + 1, k)
        BY <1>3, <4>2, <4>3 DEF Unlocks
      <4>. QED  BY <4>3, <4>4
    <3>. QED  BY <1>4, <3>1, <3>2, <3>3
  <2>. QED  BY <2>1 DEF Closed
<1>7. Opened(q)
  <2>1. ASSUME NEW l \in 1..Len(q), NEW k \in Mutexes, Unlocks(q, l, k)
        PROVE  \E j \in 1..(l - 1) : Locks(q, j, k)
    <3>1. CASE l = 1
      BY <1>5, <2>1, <3>1 DEF Unlocks
    <3>2. CASE l = n + 2
      <4>1. 1 \in 1..(l - 1)
        BY <1>1, <3>2
      <4>. QED  BY <1>5, <2>1, <3>2, <4>1
    <3>3. CASE l - 1 \in 1..n /\ (l - 1) + 1 = l
      <4>. DEFINE i == l - 1
      <4>1. Unlocks(s, i, k)
        BY <1>3, <2>1, <3>3 DEF Unlocks
      <4>2. PICK j \in 1..(i - 1) : Locks(s, j, k)
        BY <3>3, <4>1 DEF Fits, Opened, n
      <4>3. j \in 1..n /\ j + 1 \in 1..(l - 1)
        BY <1>1, <3>3, <4>2
      <4>4. Locks(q, j + 1, k)
        BY <1>3, <4>2, <4>3 DEF Locks
      <4>. QED  BY <4>3, <4>4
    <3>. QED  BY <1>4, <3>1, <3>2, <3>3
  <2>. QED  BY <2>1 DEF Opened
<1>8. Nested(cross, q)
  <2>1. ASSUME NEW i \in 1..Len(q), NEW j \in 1..Len(q), NEW k \in Mutexes,
               q[i].op = "lock", j < i, Keeps(q, j, i, k)
        PROVE  Before(cross, k, q[i].mutex)
    <3>1. i # 1 /\ i # n + 2
      BY <1>2, <1>5, <2>1
    <3>. DEFINE a == i - 1
    <3>2. a \in 1..n /\ a + 1 = i /\ q[i] = s[a]
      BY <1>3, <1>4, <3>1
    <3>. HIDE DEF a
    <3>3. CASE j = 1
      <4>1. k = m
        BY <1>5, <2>1, <3>3 DEF Keeps
      <4>. QED  BY <2>1, <3>2, <4>1 DEF Fits, Over, n
    <3>4. CASE j # 1
      <4>. DEFINE b == j - 1
      <4>1. b \in 1..n /\ b + 1 = j /\ b < a /\ q[j] = s[b]
        BY <1>1, <1>3, <2>1, <3>2, <3>4
      <4>2. \A l \in (b + 1)..(a - 1) :
               l \in 1..n /\ l + 1 \in (j + 1)..(i - 1) /\ q[l + 1] = s[l]
        <5>1. ASSUME NEW l \in (b + 1)..(a - 1)
              PROVE  l \in 1..n /\ l + 1 \in (j + 1)..(i - 1)
          BY <1>1, <3>2, <4>1
        <5>. QED  BY <1>3, <5>1
      <4>. HIDE DEF b
      <4>3. Keeps(s, b, a, k)
        BY <2>1, <4>1, <4>2 DEF Keeps, Locks, Unlocks
      <4>. QED  BY <2>1, <3>2, <4>1, <4>3 DEF Fits, Nested, n
    <3>. QED  BY <3>3, <3>4
  <2>. QED  BY <2>1 DEF Nested
<1>9. Over(cross, q, H)
  <2>1. ASSUME NEW i \in 1..Len(q), NEW k \in H, q[i].op = "lock"
        PROVE  Before(cross, k, q[i].mutex)
    <3>1. CASE i = 1
      <4>1. q[i].mutex = m
        BY <1>5, <3>1 DEF Locks
      <4>. QED  BY <4>1
    <3>2. CASE i = n + 2
      BY <1>5, <2>1, <3>2
    <3>3. CASE i - 1 \in 1..n /\ (i - 1) + 1 = i
      <4>1. q[i] = s[i - 1]
        BY <1>3, <3>3
      <4>2. k \in H \cup {m}
        OBVIOUS
      <4>. QED  BY <2>1, <3>3, <4>1, <4>2 DEF Fits, Over, n
    <3>. QED  BY <1>4, <3>1, <3>2, <3>3
  <2>. QED  BY <2>1 DEF Over
<1>. QED  BY <1>2, <1>6, <1>7, <1>8, <1>9 DEF Fits, q


\* g puts the scripts of body one after another, for the subsets of S.
IsChain(g, body, S) ==
    g = [s \in SUBSET S |-> IF s = {} THEN <<>> ELSE g[s \ {Pick(s)}] \o body[Pick(s)]]

\* What ForEach is.
LEMMA ForEachDef ==
    ASSUME NEW S, NEW body
    PROVE  ForEach(S, body) = (CHOOSE g : IsChain(g, body, S))[S]
BY DEF ForEach, FoldSet, MapThenFoldSet, IsChain, Pick

\* Such a g exists.
LEMMA ChainExists ==
    ASSUME NEW body, NEW S, IsFiniteSet(S)
    PROVE  \E g : IsChain(g, body, S)
<1>. DEFINE Small(n) == {s \in SUBSET S : Cardinality(s) <= n}
            Step(g, s) == IF s = {} THEN <<>> ELSE g[s \ {Pick(s)}] \o body[Pick(s)]
            Chains(g, n) == g = [s \in Small(n) |-> Step(g, s)]
            G == {n \in Nat : \E g : Chains(g, n)}
<1>1. \A s \in SUBSET S : IsFiniteSet(s) /\ Cardinality(s) \in Nat
  BY FS_Subset, FS_CardinalityType
<1>2. ASSUME NEW s \in SUBSET S, s # {}
      PROVE  s \ {Pick(s)} \in SUBSET S /\ Cardinality(s \ {Pick(s)}) = Cardinality(s) - 1
  BY <1>1, <1>2, PickIn, FS_RemoveElement
<1>3. \A s \in SUBSET S : Cardinality(s) <= 0 => s = {}
  BY <1>1, FS_EmptySet
<1>4. 0 \in G
  <2>1. Chains([s \in Small(0) |-> <<>>], 0)
    BY <1>3
  <2>. HIDE DEF Chains
  <2>. QED  BY <2>1
<1>5. ASSUME NEW n \in Nat, n \in G PROVE n + 1 \in G
  <2>1. PICK g : Chains(g, n)
    BY <1>5
  <2>. DEFINE h == [s \in Small(n + 1) |-> IF Cardinality(s) <= n THEN g[s] ELSE Step(g, s)]
  <2>2. ASSUME NEW s \in Small(n + 1) PROVE h[s] = Step(h, s)
    <3>1. CASE s = {}
      <4>1. Cardinality(s) <= n /\ s \in Small(n)
        BY <3>1, FS_EmptySet
      <4>2. h[s] = g[s]
        BY <4>1
      <4>3. g[s] = Step(g, s)
        BY <2>1, <4>1
      <4>. QED  BY <3>1, <4>2, <4>3
    <3>2. CASE s # {}
      <4>. DEFINE r == s \ {Pick(s)}
      <4>1. r \in Small(n) /\ r \in Small(n + 1) /\ Cardinality(r) <= n
        <5>1. r \in SUBSET S /\ Cardinality(r) = Cardinality(s) - 1
          BY <1>2, <3>2
        <5>2. Cardinality(s) \in Nat /\ Cardinality(s) <= n + 1
          BY <1>1
        <5>3. Cardinality(r) <= n /\ Cardinality(r) <= n + 1
          BY <5>1, <5>2
        <5>. HIDE DEF r
        <5>. QED  BY <5>1, <5>3
      <4>. HIDE DEF r
      <4>2. h[r] = g[r]
        BY <4>1
      <4>3. CASE Cardinality(s) <= n
        <5>1. s \in Small(n) /\ h[s] = g[s]
          BY <4>3
        <5>2. g[s] = g[r] \o body[Pick(s)]
          BY <2>1, <3>2, <5>1 DEF r
        <5>. QED  BY <3>2, <4>2, <5>1, <5>2 DEF r
      <4>4. CASE ~(Cardinality(s) <= n)
        <5>1. h[s] = g[r] \o body[Pick(s)]
          BY <3>2, <4>4 DEF r
        <5>. QED  BY <3>2, <4>2, <5>1 DEF r
      <4>. QED  BY <4>3, <4>4
    <3>. QED  BY <3>1, <3>2
  <2>3. Chains(h, n + 1)
    <3>1. h = [s \in Small(n + 1) |-> h[s]]
      OBVIOUS
    <3>. HIDE DEF h, Small, Step
    <3>. QED  BY <2>2, <3>1
  <2>. HIDE DEF h, Chains
  <2>4. n + 1 \in Nat
    OBVIOUS
  <2>. QED  BY <2>3, <2>4
<1>6. Nat \subseteq G
  <2>. HIDE DEF G
  <2>. QED  BY <1>4, <1>5, SetInduction
<1>7. PICK g : Chains(g, Cardinality(S))
  BY <1>1, <1>6
<1>8. Small(Cardinality(S)) = SUBSET S
  BY <1>1, FS_Subset
<1>9. IsChain(g, body, S)
  BY <1>7, <1>8 DEF IsChain
<1>. QED  BY <1>9

\* Scripts that fit, one after another in any order.
LEMMA ForEachFits ==
    ASSUME NEW cross, NEW H, NEW S, IsFiniteSet(S), NEW body,
           \A c \in S : Fits(cross, body[c], H)
    PROVE  Fits(cross, ForEach(S, body), H)
<1>. DEFINE g == CHOOSE e : IsChain(e, body, S)
            G == {s \in SUBSET S : Fits(cross, g[s], H)}
<1>1. IsChain(g, body, S)
  BY ChainExists
<1>2. ForEach(S, body) = g[S]
  BY ForEachDef
<1>. HIDE DEF g
<1>3. {} \in G
  <2>1. g[{}] = <<>>
    BY <1>1 DEF IsChain
  <2>. QED  BY <2>1, EmptyFits
<1>4. ASSUME NEW s \in SUBSET S, s # {}, \A x \in s : s \ {x} \in G PROVE s \in G
  <2>. DEFINE p == Pick(s)
  <2>1. p \in s
    BY <1>4, PickIn
  <2>2. g[s] = g[s \ {p}] \o body[p]
    BY <1>1, <1>4 DEF IsChain
  <2>. HIDE DEF p
  <2>3. Fits(cross, g[s \ {p}], H) /\ Fits(cross, body[p], H)
    BY <1>4, <2>1
  <2>4. Fits(cross, g[s], H)
    BY <2>2, <2>3, ConcatFits
  <2>. QED  BY <2>4
<1>5. \A s \in SUBSET S : s \in G
  <2>. HIDE DEF G
  <2>. QED  BY <1>3, <1>4, SubsetInduction
<1>. QED  BY <1>2, <1>5

------------------------------------------------------------------------------
(* The scripts of the requests                                              *)

\* What is held where a request begins: the cloud client, if anything.
Outside(H) == \A k \in H : k = PersistClient

\* The mutexes, and their order.
LEMMA Ranks ==
    /\ {PersistClient, Tracker, ChannelMap, State} \subseteq Mutexes
    /\ \A c \in Channels : Slot(c) \in Mutexes /\ Monitor(c) \in Mutexes
    /\ \A m \in Mutexes : Rank(m) \in 0..5
    /\ Rank(PersistClient) = 0 /\ Rank(Tracker) = 1 /\ Rank(ChannelMap) = 2
    /\ Rank(State) = 4
    /\ \A c : Rank(Slot(c)) = 3 /\ Rank(Monitor(c)) = 5
<1>1. /\ {PersistClient, Tracker, ChannelMap, State} \subseteq Mutexes
      /\ \A c \in Channels : Slot(c) \in Mutexes /\ Monitor(c) \in Mutexes
  BY DEF Mutexes
<1>2. /\ Rank(PersistClient) = 0 /\ Rank(Tracker) = 1 /\ Rank(ChannelMap) = 2
      /\ Rank(State) = 4
  BY DEF Rank, PersistClient, Tracker, ChannelMap, State
<1>3. \A c : Rank(Slot(c)) = 3 /\ Rank(Monitor(c)) = 5
  BY DEF Rank, Slot, Monitor
<1>4. \A m \in Mutexes : Rank(m) \in 0..5
  <2>1. ASSUME NEW m \in Mutexes PROVE Rank(m) \in 0..5
    <3>1. \/ m \in {PersistClient, Tracker, ChannelMap, State}
          \/ \E c \in Channels : m = Slot(c) \/ m = Monitor(c)
      BY DEF Mutexes
    <3>. QED  BY <1>2, <1>3, <3>1
  <2>. QED  BY <2>1
<1>. QED  BY <1>1, <1>2, <1>3, <1>4

\* The order of the ranks is good in either case.
LEMMA RankBefore ==
    ASSUME NEW cross, NEW k, NEW m, Rank(k) \in Nat, Rank(m) \in Nat, Rank(k) < Rank(m)
    PROVE  Before(cross, k, m)
BY DEF Before

\* A lone mutex, above all that is held.
LEMMA BrieflyFits ==
    ASSUME NEW cross, NEW H, NEW m \in Mutexes, \A k \in H : Before(cross, k, m)
    PROVE  Fits(cross, Briefly(m), H)
BY EmptyFits, UnderFits DEF Briefly

\* Most requests of a channel.
LEMMA ChannelRequestFits ==
    ASSUME NEW cross, NEW H, Outside(H), NEW c \in Channels
    PROVE  Fits(cross, channel_request(c), H)
<1>. DEFINE HS == H \cup {Slot(c)}
            HT == HS \cup {State}
<1>1. /\ \A k \in H : Before(cross, k, ChannelMap) /\ Before(cross, k, Slot(c))
      /\ \A k \in HS : Before(cross, k, State)
      /\ \A k \in HT : Before(cross, k, Monitor(c))
  BY Ranks, RankBefore DEF Outside
<1>2. Fits(cross, Briefly(Monitor(c)), HT)
  BY <1>1, Ranks, BrieflyFits
<1>3. Fits(cross, Under(State, Briefly(Monitor(c))), HS)
  BY <1>1, <1>2, Ranks, UnderFits
<1>4. Fits(cross, Under(Slot(c), Under(State, Briefly(Monitor(c)))), H)
  BY <1>1, <1>3, Ranks, UnderFits
<1>5. Fits(cross, Briefly(ChannelMap), H)
  BY <1>1, Ranks, BrieflyFits
<1>. QED  BY <1>4, <1>5, ConcatFits DEF channel_request, with_ready_channel

\* The tracker's entry, for which every monitor is read.
LEMMA UpdateTrackerFits ==
    ASSUME NEW cross, NEW H, \A c \in Channels : \A k \in H : Before(cross, k, Monitor(c))
    PROVE  Fits(cross, update_tracker, H)
<1>. DEFINE body == [c \in Channels |-> Briefly(Monitor(c))]
<1>1. \A c \in Channels : Fits(cross, body[c], H)
  BY Ranks, BrieflyFits
<1>2. Fits(cross, ForEach(Channels, body), H)
  <2>. HIDE DEF body
  <2>. QED  BY <1>1, ForEachFits, NodeLocksAssumption
<1>. QED  BY <1>2 DEF update_tracker

\* setup_channel.
LEMMA ReadyChannelFits ==
    ASSUME NEW cross, NEW H, Outside(H), NEW c \in Channels, NEW ready \in BOOLEAN
    PROVE  Fits(cross, ready_channel(c, ready), H)
<1>. DEFINE HT == H \cup {Tracker}
            HC == HT \cup {ChannelMap}
            again == IF ready THEN <<>> ELSE Under(ChannelMap, update_tracker)
<1>1. /\ \A k \in H : Before(cross, k, Tracker)
      /\ \A k \in HT : Before(cross, k, ChannelMap)
      /\ \A k \in HC : Before(cross, k, Slot(c))
      /\ \A e \in Channels : \A k \in HC : Before(cross, k, Monitor(e))
  BY Ranks, RankBefore DEF Outside
<1>2. Fits(cross, Briefly(Slot(c)), HC)
  BY <1>1, Ranks, BrieflyFits
<1>3. Fits(cross, Under(ChannelMap, Briefly(Slot(c))), HT)
  BY <1>1, <1>2, Ranks, UnderFits
<1>4. Fits(cross, again, HT)
  <2>1. Fits(cross, Under(ChannelMap, update_tracker), HT)
    <3>1. Fits(cross, update_tracker, HC)
      BY <1>1, UpdateTrackerFits
    <3>. QED  BY <1>1, <3>1, Ranks, UnderFits
  <2>2. Fits(cross, <<>>, HT)
    BY EmptyFits
  <2>. QED  BY <2>1, <2>2
<1>5. Fits(cross, Under(ChannelMap, Briefly(Slot(c))) \o again, HT)
  BY <1>3, <1>4, ConcatFits
<1>. QED  BY <1>1, <1>5, Ranks, UnderFits DEF ready_channel

\* The heartbeat, which prunes the channels.
LEMMA HeartbeatFits ==
    ASSUME NEW cross, NEW H, Outside(H)
    PROVE  Fits(cross, get_heartbeat, H)
<1>. DEFINE HT == H \cup {Tracker}
            HC == HT \cup {ChannelMap}
            body == [c \in Channels |-> Briefly(Slot(c))]
<1>1. /\ \A k \in H : Before(cross, k, Tracker) /\ Before(cross, k, State)
      /\ \A k \in HT : Before(cross, k, ChannelMap)
      /\ \A c \in Channels : \A k \in HC : Before(cross, k, Slot(c))
  BY Ranks, RankBefore DEF Outside
<1>2. \A c \in Channels : Fits(cross, body[c], HC)
  BY <1>1, Ranks, BrieflyFits
<1>3. Fits(cross, ForEach(Channels, body), HC)
  <2>. HIDE DEF body
  <2>. QED  BY <1>2, ForEachFits, NodeLocksAssumption
<1>4. Fits(cross, prune_channels, HT)
  BY <1>1, <1>3, Ranks, UnderFits DEF prune_channels
<1>5. Fits(cross, Under(Tracker, prune_channels), H)
  BY <1>1, <1>4, Ranks, UnderFits
<1>6. Fits(cross, Briefly(State), H)
  BY <1>1, Ranks, BrieflyFits
<1>. QED  BY <1>5, <1>6, ConcatFits DEF get_heartbeat

\* A block, which every monitor gets.
LEMMA AddBlockFits ==
    ASSUME NEW cross, NEW H, Outside(H)
    PROVE  Fits(cross, add_block, H)
<1>. DEFINE HT == H \cup {Tracker}
<1>1. /\ \A k \in H : Before(cross, k, Tracker)
      /\ \A c \in Channels : \A k \in HT : Before(cross, k, Monitor(c))
  BY Ranks, RankBefore DEF Outside
<1>2. Fits(cross, update_tracker, HT)
  BY <1>1, UpdateTrackerFits
<1>3. Fits(cross, update_tracker \o update_tracker, HT)
  BY <1>2, ConcatFits
<1>. QED  BY <1>1, <1>3, Ranks, UnderFits DEF add_block, update_tracker

\* new_channel, which takes the tracker under the map.
LEMMA NewChannelFits ==
    ASSUME NEW H, Outside(H), NEW c \in Channels, NEW known \in BOOLEAN
    PROVE  Fits(TRUE, new_channel(c, known), H)
<1>. DEFINE HC == H \cup {ChannelMap}
            inner == IF known THEN Briefly(Slot(c)) ELSE Briefly(Tracker)
<1>1. /\ \A k \in H : Before(TRUE, k, ChannelMap)
      /\ \A k \in HC : Before(TRUE, k, Slot(c)) /\ Before(TRUE, k, Tracker)
  BY Ranks, RankBefore DEF Outside, Before
<1>2. Fits(TRUE, Briefly(Slot(c)), HC) /\ Fits(TRUE, Briefly(Tracker), HC)
  BY <1>1, Ranks, BrieflyFits
<1>3. Fits(TRUE, inner, HC)
  BY <1>2
<1>. QED  BY <1>1, <1>3, Ranks, UnderFits DEF new_channel

\* A withdrawal: the channels swept and funded, and the tracker under the map.
LEMMA SignWithdrawalFits ==
    ASSUME NEW H, Outside(H), NEW swept \in SUBSET Channels, NEW funded \in SUBSET Channels
    PROVE  Fits(TRUE, SignWithdrawal(swept, funded), H)
<1>. DEFINE HC == H \cup {ChannelMap}
            HT == HC \cup {Tracker}
            sweep == [c \in swept |-> with_ready_channel(c, <<>>)]
            look == [c \in Channels |-> Briefly(Slot(c))]
            check == [c \in funded |-> Briefly(Slot(c))]
            add == [c \in funded |-> Under(Slot(c), Briefly(Monitor(c)))]
<1>1. /\ \A k \in H : Before(TRUE, k, ChannelMap) /\ Before(TRUE, k, State)
      /\ \A k \in HC : Before(TRUE, k, Tracker)
      /\ \A c \in Channels : \A k \in HT : Before(TRUE, k, Slot(c)) /\ Before(TRUE, k, Monitor(c))
      /\ \A c \in Channels : Before(TRUE, Slot(c), Monitor(c))
  BY Ranks, RankBefore DEF Outside, Before
<1>2. IsFiniteSet(Channels) /\ IsFiniteSet(swept) /\ IsFiniteSet(funded)
  BY FS_Subset, NodeLocksAssumption
<1>3. Fits(TRUE, ForEach(swept, sweep), H)
  <2>1. ASSUME NEW c \in swept PROVE Fits(TRUE, sweep[c], H)
    <3>1. Fits(TRUE, <<>>, H \cup {Slot(c)}) /\ Fits(TRUE, Briefly(ChannelMap), H)
      BY <1>1, Ranks, BrieflyFits, EmptyFits
    <3>2. Fits(TRUE, Under(Slot(c), <<>>), H)
      BY <1>1, <3>1, Ranks, UnderFits
    <3>3. Fits(TRUE, with_ready_channel(c, <<>>), H)
      BY <3>1, <3>2, ConcatFits DEF with_ready_channel
    <3>. QED  BY <3>3
  <2>. HIDE DEF sweep
  <2>. QED  BY <1>2, <2>1, ForEachFits
<1>4. Fits(TRUE, find_channel_with_funding_outpoint, HC)
  <2>1. \A c \in Channels : Fits(TRUE, look[c], HC)
    BY <1>1, Ranks, BrieflyFits
  <2>2. Fits(TRUE, ForEach(Channels, look), HC)
    <3>. HIDE DEF look
    <3>. QED  BY <1>2, <2>1, ForEachFits
  <2>. QED  BY <2>2 DEF find_channel_with_funding_outpoint
<1>5. Fits(TRUE, ForEach(funded, check), HC)
  <2>1. \A c \in funded : Fits(TRUE, check[c], HC)
    BY <1>1, Ranks, BrieflyFits
  <2>. HIDE DEF check
  <2>. QED  BY <1>2, <2>1, ForEachFits
<1>6. Fits(TRUE, check_onchain_tx(funded), H)
  <2>1. Fits(TRUE, find_channel_with_funding_outpoint \o ForEach(funded, check), HC)
    BY <1>4, <1>5, ConcatFits
  <2>2. Fits(TRUE, Under(ChannelMap, find_channel_with_funding_outpoint \o ForEach(funded, check)), H)
    BY <1>1, <2>1, Ranks, UnderFits
  <2>3. Fits(TRUE, Briefly(State), H)
    BY <1>1, Ranks, BrieflyFits
  <2>. QED  BY <2>2, <2>3, ConcatFits DEF check_onchain_tx
<1>7. Fits(TRUE, ForEach(funded, add), HT)
  <2>1. ASSUME NEW c \in funded PROVE Fits(TRUE, add[c], HT)
    <3>1. Fits(TRUE, Briefly(Monitor(c)), HT \cup {Slot(c)})
      BY <1>1, Ranks, BrieflyFits
    <3>2. Fits(TRUE, Under(Slot(c), Briefly(Monitor(c))), HT)
      BY <1>1, <3>1, Ranks, UnderFits
    <3>. QED  BY <3>2
  <2>. HIDE DEF add
  <2>. QED  BY <1>2, <2>1, ForEachFits
<1>8. Fits(TRUE, unchecked_sign_onchain_tx(funded), H)
  <2>0. Fits(TRUE, ForEach(funded, add) \o update_tracker, HT)
    BY <1>1, <1>7, ConcatFits, UpdateTrackerFits
  <2>1. Fits(TRUE, Under(Tracker, ForEach(funded, add) \o update_tracker), HC)
    BY <1>1, <2>0, Ranks, UnderFits
  <2>2. Fits(TRUE, find_channel_with_funding_outpoint
                     \o Under(Tracker, ForEach(funded, add) \o update_tracker), HC)
    BY <1>4, <2>1, ConcatFits
  <2>. QED  BY <1>1, <2>2, Ranks, UnderFits DEF unchecked_sign_onchain_tx
<1>9. Fits(TRUE, check_onchain_tx(funded) \o unchecked_sign_onchain_tx(funded), H)
  BY <1>6, <1>8, ConcatFits
<1>10. Fits(TRUE, ForEach(swept, sweep) \o check_onchain_tx(funded), H)
  BY <1>3, <1>6, ConcatFits
<1>. QED  BY <1>8, <1>10, ConcatFits DEF SignWithdrawal

\* What a client may ask for.
LEMMA RequestFits ==
    ASSUME NEW H, Outside(H), NEW r \in DOMAIN RequestScripts, NEW script \in RequestScripts[r]
    PROVE  Fits(TRUE, script, H)
<1>1. CASE r = "NewChannel"
  <2>1. PICK c \in Channels, known \in BOOLEAN : script = new_channel(c, known)
    BY <1>1 DEF RequestScripts
  <2>. QED  BY <2>1, NewChannelFits
<1>2. CASE r = "ReadyChannel"
  <2>1. PICK c \in Channels, ready \in BOOLEAN : script = ready_channel(c, ready)
    BY <1>2 DEF RequestScripts
  <2>. QED  BY <2>1, ReadyChannelFits
<1>3. CASE r = "ChannelRequest"
  <2>1. PICK c \in Channels : script = channel_request(c)
    BY <1>3 DEF RequestScripts
  <2>. QED  BY <2>1, ChannelRequestFits
<1>4. CASE r = "SignWithdrawal"
  <2>1. PICK swept \in SUBSET Channels, funded \in SUBSET Channels :
           script = SignWithdrawal(swept, funded)
    BY <1>4 DEF RequestScripts
  <2>. QED  BY <2>1, SignWithdrawalFits
<1>5. CASE r = "Invoice" \/ r = "TipInfo"
  <2>1. script = Briefly(State) \/ script = Briefly(Tracker)
    BY <1>5 DEF RequestScripts
  <2>2. /\ State \in Mutexes /\ \A k \in H : Before(TRUE, k, State)
        /\ Tracker \in Mutexes /\ \A k \in H : Before(TRUE, k, Tracker)
    BY Ranks DEF Outside, Before
  <2>. QED  BY <2>1, <2>2, BrieflyFits
<1>6. CASE r = "AddBlock"
  <2>1. script = add_block
    BY <1>6 DEF RequestScripts
  <2>. QED  BY <2>1, AddBlockFits
<1>7. CASE r = "GetHeartbeat"
  <2>1. script = get_heartbeat
    BY <1>7 DEF RequestScripts
  <2>. QED  BY <2>1, HeartbeatFits
<1>8. r \in {"NewChannel", "ReadyChannel", "ChannelRequest", "SignWithdrawal", "Invoice",
            "AddBlock", "TipInfo", "GetHeartbeat"}
  BY DEF RequestScripts
<1>. QED  BY <1>1, <1>2, <1>3, <1>4, <1>5, <1>6, <1>7, <1>8

\* What fits under the cloud client's lock does not touch the client.
LEMMA InsideIsLoose ==
    ASSUME NEW cross, NEW s, Fits(cross, s, {PersistClient})
    PROVE  Loose(s)
<1>. SUFFICES ASSUME NEW l \in 1..Len(s), s[l].mutex = PersistClient PROVE FALSE
  BY DEF Loose
<1>1. s \in Seq(Steps) /\ s[l] \in Steps /\ PersistClient \in Mutexes
  BY Ranks DEF Fits
<1>2. ~Before(cross, PersistClient, PersistClient)
  BY Ranks DEF Before
<1>3. \A i \in 1..Len(s) : ~Locks(s, i, PersistClient)
  BY <1>2 DEF Fits, Over, Locks
<1>4. Unlocks(s, l, PersistClient)
  BY <1>1, <1>3 DEF Steps, Locks, Unlocks
<1>5. PICK j \in 1..(l - 1) : Locks(s, j, PersistClient)
  BY <1>1, <1>4 DEF Fits, Opened
<1>6. j \in 1..Len(s)
  BY <1>1, <1>5
<1>. QED  BY <1>3, <1>5, <1>6

\* A request under the cloud client's lock gives it back at its end, and not before.
LEMMA UnderCloud ==
    ASSUME NEW cross, NEW s, Fits(cross, s, {PersistClient})
    PROVE  LET q == Under(PersistClient, s)
           IN  Fits(cross, q, {}) /\ Framed(q) /\ Locks(q, 1, PersistClient)
<1>. DEFINE q == Under(PersistClient, s)
            n == Len(s)
<1>1. s \in Seq(Steps) /\ n \in Nat /\ PersistClient \in Mutexes
  BY Ranks DEF Fits
<1>2. q \in Seq(Steps) /\ Len(q) = n + 2
  BY <1>1 DEF Under, Lock, Unlock, Steps
<1>3. q[1] = Lock(PersistClient) /\ q[n + 2] = Unlock(PersistClient) /\ \A i \in 1..n : q[i + 1] = s[i]
  BY <1>1 DEF Under
<1>4. Fits(cross, q, {})
  <2>1. {} \cup {PersistClient} = {PersistClient}
    OBVIOUS
  <2>. QED  BY <1>1, <2>1, UnderFits
<1>. HIDE DEF q, n
<1>5. Locks(q, 1, PersistClient) /\ Unlocks(q, Len(q), PersistClient) /\ q[1].op # "unlock"
  BY <1>2, <1>3 DEF Lock, Unlock, Locks, Unlocks
<1>6. ASSUME NEW l \in 1..(Len(q) - 1), Unlocks(q, l, PersistClient) PROVE FALSE
  <2>. DEFINE i == l - 1
  <2>1. l # 1
    BY <1>5, <1>6 DEF Unlocks
  <2>2. i \in 1..n /\ i + 1 = l
    BY <1>1, <1>2, <2>1
  <2>. HIDE DEF i
  <2>3. Unlocks(s, i, PersistClient)
    BY <1>3, <1>6, <2>2 DEF Unlocks
  <2>. QED  BY <2>2, <2>3, InsideIsLoose DEF Loose, Unlocks, n
<1>7. q # <<>>
  BY <1>1, <1>2
<1>. QED  BY <1>4, <1>5, <1>6, <1>7 DEF Framed, q

------------------------------------------------------------------------------
(* What is left of a script                                                 *)

\* At its beginning a task holds nothing.
LEMMA WholeRest ==
    ASSUME NEW cross, NEW s, Fits(cross, s, {})
    PROVE  Rest(cross, s, {}) /\ s \in Seq(Steps)
BY DEF Fits, Rest

\* A step is made: its mutex is held, or is not any more.
LEMMA TailRest ==
    ASSUME NEW cross, NEW s \in Seq(Steps), s # <<>>, NEW H \in SUBSET Mutexes,
           Rest(cross, s, H)
    PROVE  /\ Tail(s) \in Seq(Steps) /\ Head(s) \in Steps
           /\ Head(s).op = "lock" => Rest(cross, Tail(s), H \cup {Head(s).mutex})
           /\ Head(s).op = "unlock" => Rest(cross, Tail(s), H \ {Head(s).mutex})
<1>. DEFINE r == Tail(s)
            n == Len(s)
            m == Head(s).mutex
<1>1. /\ r \in Seq(Steps) /\ n \in Nat /\ n >= 1 /\ Len(r) = n - 1 /\ s[1] \in Steps
      /\ Head(s) = s[1]
  OBVIOUS
<1>2. \A i \in 1..Len(r) : r[i] = s[i + 1] /\ i + 1 \in 1..n
  BY <1>1
<1>3. m \in Mutexes /\ m = s[1].mutex
  BY <1>1 DEF Steps
<1>. HIDE DEF r, n, m
<1>4. Closed(r)
  <2>1. ASSUME NEW j \in 1..Len(r), NEW k \in Mutexes, Locks(r, j, k)
        PROVE  \E l \in (j + 1)..Len(r) : Unlocks(r, l, k)
    <3>1. Locks(s, j + 1, k)
      BY <1>2, <2>1 DEF Locks
    <3>2. PICK l \in ((j + 1) + 1)..n : Unlocks(s, l, k)
      BY <1>2, <3>1 DEF Rest, Closed, n
    <3>. DEFINE i == l - 1
    <3>3. i \in (j + 1)..Len(r) /\ i \in 1..Len(r) /\ i + 1 = l
      BY <1>1, <3>2
    <3>. HIDE DEF i
    <3>4. Unlocks(r, i, k)
      BY <1>2, <3>2, <3>3 DEF Unlocks
    <3>. QED  BY <3>3, <3>4
  <2>. QED  BY <2>1 DEF Closed
<1>5. Nested(cross, r)
  <2>1. ASSUME NEW i \in 1..Len(r), NEW j \in 1..Len(r), NEW k \in Mutexes,
               r[i].op = "lock", j < i, Keeps(r, j, i, k)
        PROVE  Before(cross, k, r[i].mutex)
    <3>1. r[i] = s[i + 1] /\ r[j] = s[j + 1] /\ i + 1 \in 1..n /\ j + 1 \in 1..n /\ j + 1 < i + 1
      BY <1>1, <1>2, <2>1
    <3>2. ASSUME NEW l \in ((j + 1) + 1)..((i + 1) - 1) PROVE ~Unlocks(s, l, k)
      <4>. DEFINE e == l - 1
      <4>1. e \in (j + 1)..(i - 1) /\ e \in 1..Len(r) /\ e + 1 = l
        BY <1>1
      <4>. HIDE DEF e
      <4>. QED  BY <1>2, <2>1, <4>1 DEF Keeps, Unlocks
    <3>3. Keeps(s, j + 1, i + 1, k)
      BY <2>1, <3>1, <3>2 DEF Keeps, Locks
    <3>4. Before(cross, k, s[i + 1].mutex)
      BY <2>1, <3>1, <3>3 DEF Rest, Nested, n
    <3>. QED  BY <3>1, <3>4
  <2>. QED  BY <2>1 DEF Nested
<1>6. ASSUME NEW k \in H, ~Unlocks(s, 1, k)
      PROVE  /\ \E l \in 1..Len(r) : Unlocks(r, l, k)
             /\ \A i \in 1..Len(r) :
                   r[i].op = "lock" /\ (\A l \in 1..(i - 1) : ~Unlocks(r, l, k))
                       => Before(cross, k, r[i].mutex)
  <2>1. \E l \in 1..Len(r) : Unlocks(r, l, k)
    <3>1. PICK l \in 1..n : Unlocks(s, l, k)
      BY DEF Rest, n
    <3>. DEFINE i == l - 1
    <3>2. l # 1
      BY <1>6, <3>1
    <3>3. i \in 1..Len(r) /\ i + 1 = l
      BY <1>1, <3>1, <3>2
    <3>. HIDE DEF i
    <3>4. Unlocks(r, i, k)
      BY <1>2, <3>1, <3>3 DEF Unlocks
    <3>. QED  BY <3>3, <3>4
  <2>2. ASSUME NEW i \in 1..Len(r), r[i].op = "lock", \A l \in 1..(i - 1) : ~Unlocks(r, l, k)
        PROVE  Before(cross, k, r[i].mutex)
    <3>1. ASSUME NEW l \in 1..((i + 1) - 1) PROVE ~Unlocks(s, l, k)
      <4>1. CASE l = 1
        BY <1>6, <4>1
      <4>2. CASE l # 1
        <5>. DEFINE e == l - 1
        <5>1. e \in 1..(i - 1) /\ e \in 1..Len(r) /\ e + 1 = l
          BY <1>1, <4>2
        <5>. HIDE DEF e
        <5>. QED  BY <1>2, <2>2, <5>1 DEF Unlocks
      <4>. QED  BY <4>1, <4>2
    <3>2. r[i] = s[i + 1] /\ i + 1 \in 1..n
      BY <1>2
    <3>3. Before(cross, k, s[i + 1].mutex)
      BY <2>2, <3>1, <3>2 DEF Rest, n
    <3>. QED  BY <3>2, <3>3
  <2>. QED  BY <2>1, <2>2
<1>7. ASSUME Head(s).op = "lock" PROVE Rest(cross, r, H \cup {m})
  <2>1. \A k \in H : ~Unlocks(s, 1, k)
    BY <1>1, <1>7 DEF Unlocks
  <2>2. Locks(s, 1, m) /\ 1 \in 1..n
    BY <1>1, <1>3, <1>7 DEF Locks
  <2>3. \E l \in 1..Len(r) : Unlocks(r, l, m)
    <3>1. PICK l \in (1 + 1)..n : Unlocks(s, l, m)
      BY <1>3, <2>2 DEF Rest, Closed, n
    <3>. DEFINE i == l - 1
    <3>2. i \in 1..Len(r) /\ i + 1 = l
      BY <1>1, <3>1
    <3>. HIDE DEF i
    <3>3. Unlocks(r, i, m)
      BY <1>2, <3>1, <3>2 DEF Unlocks
    <3>. QED  BY <3>2, <3>3
  <2>4. ASSUME NEW i \in 1..Len(r), r[i].op = "lock", \A l \in 1..(i - 1) : ~Unlocks(r, l, m)
        PROVE  Before(cross, m, r[i].mutex)
    <3>1. ASSUME NEW l \in (1 + 1)..((i + 1) - 1) PROVE ~Unlocks(s, l, m)
      <4>. DEFINE e == l - 1
      <4>1. e \in 1..(i - 1) /\ e \in 1..Len(r) /\ e + 1 = l
        BY <1>1
      <4>. HIDE DEF e
      <4>. QED  BY <1>2, <2>4, <4>1 DEF Unlocks
    <3>2. r[i] = s[i + 1] /\ i + 1 \in 1..n /\ 1 < i + 1
      BY <1>2
    <3>3. Keeps(s, 1, i + 1, m)
      BY <2>2, <3>1 DEF Keeps
    <3>4. Before(cross, m, s[i + 1].mutex)
      BY <1>3, <2>2, <2>4, <3>2, <3>3 DEF Rest, Nested, n
    <3>. QED  BY <3>2, <3>4
  <2>. QED  BY <1>4, <1>5, <1>6, <2>1, <2>3, <2>4 DEF Rest
<1>8. ASSUME Head(s).op = "unlock" PROVE Rest(cross, r, H \ {m})
  <2>1. \A k \in H \ {m} : ~Unlocks(s, 1, k)
    BY <1>3 DEF Unlocks
  <2>. QED  BY <1>4, <1>5, <1>6, <2>1 DEF Rest
<1>9. r \in Seq(Steps) /\ Head(s) \in Steps
  BY <1>1
<1>. QED  BY <1>7, <1>8, <1>9 DEF r, m

------------------------------------------------------------------------------
(* The steps of the tasks                                                   *)

\* Nobody holds anything at first.
LEMMA InitIInv == ASSUME Init PROVE IInv
<1>1. Nobody \notin Tasks
  BY NodeLocksAssumption
<1>2. Typed
  BY DEF Init, Typed
<1>3. ASSUME NEW t \in Tasks PROVE Rest(Crosses(t), todo[t], Held(t)) /\ Guarded(t)
  <2>1. todo[t] = <<>> /\ Held(t) = {}
    BY <1>1 DEF Init, Held
  <2>2. Rest(Crosses(t), <<>>, {})
    BY EmptyFits, WholeRest
  <2>. QED  BY <2>1, <2>2 DEF Guarded
<1>. QED  BY <1>2, <1>3 DEF IInv

\* A task without a request holds nothing.
LEMMA IdleHoldsNothing ==
    ASSUME IInv, NEW t \in Tasks, todo[t] = <<>>
    PROVE  Held(t) = {}
BY DEF IInv, Rest

\* A request begins: its script is good, and with the cloud is under the client's lock,
\* or is the follower's and does not touch it.
LEMMA BeginIInv ==
    ASSUME IInv, NEW t \in Tasks, NEW scripts, Begin(t, scripts),
           \A script \in scripts : Fits(Crosses(t), script, {}),
           deployment.external_persist =>
               \A script \in scripts :
                   \/ t = Follower /\ Loose(script)
                   \/ Framed(script) /\ Locks(script, 1, PersistClient)
    PROVE  IInv'
<1>0. PICK script \in scripts : todo' = [todo EXCEPT ![t] = script]
  BY DEF Begin
<1>1. /\ todo \in [Tasks -> Seq(Steps)] /\ deployment' = deployment /\ owner' = owner
      /\ todo' = [todo EXCEPT ![t] = script]
  BY <1>0 DEF IInv, Typed, Begin
<1>2. script \in Seq(Steps) /\ Rest(Crosses(t), script, {})
  BY WholeRest
<1>3. todo'[t] = script /\ \A u \in Tasks : u # t => todo'[u] = todo[u]
  BY <1>1
<1>4. \A u \in Tasks : Held(u)' = Held(u)
  BY <1>1 DEF Held
<1>5. Held(t) = {}
  BY IdleHoldsNothing DEF Begin
<1>6. Typed'
  BY <1>1, <1>2 DEF IInv, Typed
<1>7. ASSUME NEW u \in Tasks
      PROVE  /\ Rest(Crosses(u), todo[u], Held(u))'
             /\ deployment.external_persist => Guarded(u)'
  <2>1. CASE u = t
    <3>1. Rest(Crosses(u), todo[u], Held(u))'
      BY <1>1, <1>2, <1>3, <1>4, <1>5, <2>1
    <3>2. ASSUME deployment.external_persist PROVE Guarded(u)'
      BY <1>1, <1>3, <1>4, <1>5, <2>1, <3>2 DEF Guarded
    <3>. QED  BY <3>1, <3>2
  <2>2. CASE u # t
    <3>1. Rest(Crosses(u), todo[u], Held(u))'
      BY <1>1, <1>3, <1>4, <2>2 DEF IInv
    <3>2. ASSUME deployment.external_persist PROVE Guarded(u)'
      BY <1>1, <1>3, <1>4, <2>2, <3>2 DEF Guarded, IInv
    <3>. QED  BY <3>1, <3>2
  <2>. QED  BY <2>1, <2>2
<1>. QED  BY <1>1, <1>6, <1>7 DEF IInv

\* The mutex of the next step.
LEMMA HeadMutex ==
    ASSUME NEW s \in Seq(Steps), s # <<>>
    PROVE  Head(s).mutex \in Mutexes
<1>1. Head(s) \in Steps
  BY HeadTailProperties
<1>. QED  BY <1>1 DEF Steps

\* The lengths of a script and of what is left of it.
LEMMA TailLength ==
    ASSUME NEW s \in Seq(Steps), s # <<>>
    PROVE  /\ Len(s) \in Nat /\ Len(s) >= 1
           /\ Len(s) = 1 => Tail(s) = <<>>
<1>1. Len(s) \in Nat /\ Len(s) # 0
  BY EmptySeq
<1>2. Tail(s) \in Seq(Steps) /\ Len(Tail(s)) = Len(s) - 1
  BY HeadTailProperties
<1>3. ASSUME Len(s) = 1 PROVE Tail(s) = <<>>
  <2>1. Len(Tail(s)) = 0
    BY <1>2, <1>3
  <2>. QED  BY <1>2, <2>1, EmptySeq
<1>. QED  BY <1>1, <1>3

\* What is left of a request under the cloud client's lock is under it too.
LEMMA FramedTail ==
    ASSUME NEW s \in Seq(Steps), Framed(s), Len(s) # 1
    PROVE  Framed(Tail(s))
<1>. DEFINE r == Tail(s)
<1>1. /\ Len(s) \in Nat /\ Len(s) >= 2 /\ r \in Seq(Steps) /\ Len(r) = Len(s) - 1
      /\ \A i \in 1..Len(r) : r[i] = s[i + 1]
  <2>1. s # <<>>
    BY DEF Framed
  <2>2. Len(s) \in Nat /\ Len(s) >= 1
    BY <2>1, TailLength
  <2>3. ASSUME NEW n \in Nat, n >= 1, n # 1 PROVE n >= 2
    BY <2>3
  <2>4. Len(s) >= 2
    BY <2>2, <2>3
  <2>. QED  BY <2>1, <2>2, <2>4, HeadTailProperties
<1>. HIDE DEF r
<1>2. r # <<>> /\ Len(r) \in 1..Len(r) /\ Len(r) + 1 = Len(s)
  BY <1>1
<1>3. Unlocks(r, Len(r), PersistClient)
  BY <1>1, <1>2 DEF Framed, Unlocks
<1>4. ASSUME NEW l \in 1..(Len(r) - 1) PROVE ~Unlocks(r, l, PersistClient)
  <2>1. l \in 1..Len(r) /\ l + 1 \in 1..(Len(s) - 1)
    BY <1>1
  <2>. QED  BY <1>1, <2>1 DEF Framed, Unlocks
<1>. QED  BY <1>2, <1>3, <1>4 DEF Framed, r

\* Nor does what is left of a script that does not touch the client.
LEMMA LooseTail ==
    ASSUME NEW s \in Seq(Steps), s # <<>>, Loose(s)
    PROVE  Loose(Tail(s))
BY DEF Loose

\* A mutex is taken.
LEMMA TakeIInv ==
    ASSUME IInv, NEW t \in Tasks, Take(t)
    PROVE  IInv'
<1>. DEFINE s == todo[t]
            m == Head(s).mutex
<1>1. /\ s \in Seq(Steps) /\ s # <<>> /\ Head(s).op = "lock" /\ Head(s) = s[1]
      /\ deployment' = deployment /\ owner[m] = Nobody
      /\ todo' = [todo EXCEPT ![t] = Tail(s)] /\ owner' = [owner EXCEPT ![m] = t]
  BY DEF IInv, Typed, Take
<1>2. todo \in [Tasks -> Seq(Steps)] /\ owner \in [Mutexes -> Tasks \cup {Nobody}]
  BY DEF IInv, Typed
<1>3. Held(t) \in SUBSET Mutexes /\ Rest(Crosses(t), s, Held(t))
  BY DEF IInv, Held
<1>4. /\ Tail(s) \in Seq(Steps) /\ Head(s) \in Steps
      /\ Rest(Crosses(t), Tail(s), Held(t) \cup {m})
  BY <1>1, <1>3, TailRest
<1>5. m \in Mutexes /\ Nobody \notin Tasks
  BY <1>4, NodeLocksAssumption DEF Steps
<1>. HIDE DEF s, m
<1>6. todo'[t] = Tail(s) /\ \A u \in Tasks : u # t => todo'[u] = todo[u]
  BY <1>1, <1>2
<1>7. owner'[m] = t /\ \A k \in Mutexes : k # m => owner'[k] = owner[k]
  BY <1>1, <1>2, <1>5
<1>8. Held(t)' = Held(t) \cup {m} /\ \A u \in Tasks : u # t => Held(u)' = Held(u)
  BY <1>1, <1>5, <1>7 DEF Held
<1>9. Typed'
  <2>1. todo' \in [Tasks -> Seq(Steps)]
    BY <1>1, <1>2, <1>4
  <2>2. owner' \in [Mutexes -> Tasks \cup {Nobody}]
    BY <1>1, <1>2, <1>5
  <2>. QED  BY <1>1, <2>1, <2>2 DEF IInv, Typed
<1>10. ASSUME NEW u \in Tasks PROVE Rest(Crosses(u), todo[u], Held(u))'
  <2>1. CASE u = t
    BY <1>1, <1>4, <1>6, <1>8, <2>1
  <2>2. CASE u # t
    BY <1>1, <1>6, <1>8, <2>2 DEF IInv
  <2>. QED  BY <2>1, <2>2
<1>11. ASSUME deployment.external_persist, NEW u \in Tasks PROVE Guarded(u)'
  <2>1. CASE u = t
    <3>1. Guarded(t)
      BY <1>11 DEF IInv
    <3>2. CASE t = Follower /\ Loose(s)
      <4>1. Loose(Tail(s))
        BY <1>1, <3>2, LooseTail
      <4>. QED  BY <1>6, <2>1, <3>2, <4>1 DEF Guarded
    <3>4. CASE Framed(s) /\ (Locks(s, 1, PersistClient) \/ owner[PersistClient] = t)
      <4>1. owner'[PersistClient] = t
        <5>1. CASE Locks(s, 1, PersistClient)
          <6>1. m = PersistClient
            BY <1>1, <5>1 DEF Locks, m
          <6>. QED  BY <1>7, <6>1
        <5>2. CASE owner[PersistClient] = t
          <6>1. m # PersistClient
            BY <1>1, <1>5, <5>2
          <6>. QED  BY <1>7, <5>2, <6>1, Ranks
        <5>. QED  BY <3>4, <5>1, <5>2
      <4>2. Len(s) # 1
        BY <1>1, <3>4 DEF Framed, Unlocks
      <4>3. Framed(Tail(s))
        BY <1>1, <3>4, <4>2, FramedTail
      <4>. QED  BY <1>6, <2>1, <4>1, <4>3 DEF Guarded
    <3>. QED  BY <1>1, <3>1, <3>2, <3>4 DEF Guarded, s
  <2>2. CASE u # t
    <3>1. Guarded(u) /\ todo'[u] = todo[u] /\ Held(u)' = Held(u)
      BY <1>6, <1>8, <1>11, <2>2 DEF IInv
    <3>2. owner[PersistClient] = u => owner'[PersistClient] = u
      BY <1>1, <1>5, <1>7, Ranks
    <3>. QED  BY <3>1, <3>2 DEF Guarded
  <2>. QED  BY <2>1, <2>2
<1>. QED  BY <1>1, <1>9, <1>10, <1>11 DEF IInv

\* A mutex is given back.
LEMMA GiveIInv ==
    ASSUME IInv, NEW t \in Tasks, Give(t)
    PROVE  IInv'
<1>. DEFINE s == todo[t]
            m == Head(s).mutex
<1>1. /\ s \in Seq(Steps) /\ s # <<>> /\ Head(s).op = "unlock" /\ Head(s) = s[1]
      /\ deployment' = deployment
      /\ todo' = [todo EXCEPT ![t] = Tail(s)] /\ owner' = [owner EXCEPT ![m] = Nobody]
  BY DEF IInv, Typed, Give
<1>2. todo \in [Tasks -> Seq(Steps)] /\ owner \in [Mutexes -> Tasks \cup {Nobody}]
  BY DEF IInv, Typed
<1>3. Held(t) \in SUBSET Mutexes /\ Rest(Crosses(t), s, Held(t))
  BY DEF IInv, Held
<1>4. /\ Tail(s) \in Seq(Steps) /\ Head(s) \in Steps
      /\ Rest(Crosses(t), Tail(s), Held(t) \ {m})
  BY <1>1, <1>3, TailRest
<1>5. m \in Mutexes /\ Nobody \notin Tasks
  BY <1>4, NodeLocksAssumption DEF Steps
<1>. HIDE DEF s, m
<1>6. todo'[t] = Tail(s) /\ \A u \in Tasks : u # t => todo'[u] = todo[u]
  BY <1>1, <1>2
<1>7. owner'[m] = Nobody /\ \A k \in Mutexes : k # m => owner'[k] = owner[k]
  BY <1>1, <1>2, <1>5
<1>8. \A u \in Tasks : Held(u)' = Held(u) \ {m}
  BY <1>5, <1>7 DEF Held
<1>9. Typed'
  <2>1. todo' \in [Tasks -> Seq(Steps)]
    BY <1>1, <1>2, <1>4
  <2>2. owner' \in [Mutexes -> Tasks \cup {Nobody}]
    BY <1>1, <1>2, <1>5
  <2>. QED  BY <1>1, <2>1, <2>2 DEF IInv, Typed
<1>10. ASSUME NEW u \in Tasks PROVE Rest(Crosses(u), todo[u], Held(u))'
  <2>1. CASE u = t
    BY <1>1, <1>4, <1>6, <1>8, <2>1
  <2>2. CASE u # t
    <3>1. Rest(Crosses(u), todo[u], Held(u))
      BY DEF IInv
    <3>2. Rest(Crosses(u), todo[u], Held(u) \ {m})
      BY <3>1 DEF Rest
    <3>. QED  BY <1>1, <1>6, <1>8, <2>2, <3>2
  <2>. QED  BY <2>1, <2>2
<1>11. ASSUME deployment.external_persist, NEW u \in Tasks PROVE Guarded(u)'
  <2>1. Guarded(t) /\ Guarded(u)
    BY <1>11 DEF IInv
  <2>2. ~Locks(s, 1, PersistClient)
    BY <1>1 DEF Locks
  <2>3. (t = Follower /\ Loose(s)) \/ (Framed(s) /\ owner[PersistClient] = t)
    BY <1>1, <2>1, <2>2 DEF Guarded, s
  <2>4. CASE u = t
    <3>1. CASE t = Follower /\ Loose(s)
      <4>1. Loose(Tail(s))
        BY <1>1, <3>1, LooseTail
      <4>. QED  BY <1>6, <2>4, <3>1, <4>1 DEF Guarded
    <3>2. CASE Framed(s) /\ Len(s) = 1
      <4>1. Tail(s) = <<>>
        BY <1>1, <3>2, TailLength
      <4>. QED  BY <1>6, <2>4, <4>1 DEF Guarded
    <3>3. CASE Framed(s) /\ Len(s) # 1 /\ owner[PersistClient] = t
      <4>1. Framed(Tail(s))
        BY <1>1, <3>3, FramedTail
      <4>2. ~Unlocks(s, 1, PersistClient)
        <5>1. Len(s) \in Nat /\ Len(s) >= 1
          BY <1>1, TailLength
        <5>2. 1 \in 1..(Len(s) - 1)
          BY <3>3, <5>1
        <5>. QED  BY <3>3, <5>2 DEF Framed
      <4>3. m # PersistClient
        BY <1>1, <4>2 DEF Unlocks, m
      <4>4. owner'[PersistClient] = t
        BY <1>7, <3>3, <4>3, Ranks
      <4>. QED  BY <1>6, <2>4, <4>1, <4>4 DEF Guarded
    <3>. QED  BY <2>3, <3>1, <3>2, <3>3
  <2>5. CASE u # t
    <3>1. todo'[u] = todo[u] /\ (Held(u) = {} => Held(u)' = {})
      BY <1>6, <1>8, <2>5
    <3>2. ASSUME owner[PersistClient] = u PROVE owner'[PersistClient] = u
      <4>1. Loose(s)
        BY <2>3, <2>5, <3>2
      <4>2. 1 \in 1..Len(s)
        BY <1>1, TailLength
      <4>3. m # PersistClient
        BY <1>1, <4>1, <4>2 DEF Loose, m
      <4>. QED  BY <1>7, <3>2, <4>3, Ranks
    <3>. QED  BY <2>1, <3>1, <3>2 DEF Guarded
  <2>. QED  BY <2>4, <2>5
<1>. QED  BY <1>1, <1>9, <1>10, <1>11 DEF IInv

\* A request behind do_handle is good, and with the cloud is under the client's lock.
LEMMA HandledFits ==
    ASSUME IInv, NEW cross, NEW script,
           Fits(cross, script, {}), Fits(cross, script, {PersistClient})
    PROVE  /\ Fits(cross, do_handle(script), {})
           /\ deployment.external_persist =>
                 Framed(do_handle(script)) /\ Locks(do_handle(script), 1, PersistClient)
<1>1. deployment.external_persist \in BOOLEAN
  BY NodeLocksAssumption DEF IInv, Typed
<1>2. CASE deployment.external_persist = TRUE
  <2>1. do_handle(script) = Under(PersistClient, script)
    BY <1>2 DEF do_handle
  <2>. QED  BY <2>1, UnderCloud
<1>3. CASE deployment.external_persist = FALSE
  <2>1. do_handle(script) = script
    BY <1>3 DEF do_handle
  <2>. QED  BY <1>3, <2>1
<1>. QED  BY <1>1, <1>2, <1>3

\* Every step preserves the invariant.
LEMMA NextIInv == ASSUME IInv, [Next]_vars PROVE IInv'
<1>1. Outside({}) /\ Outside({PersistClient})
  BY DEF Outside
<1>2. ASSUME NEW t \in Clients, NEW r \in DOMAIN RequestScripts,
             Begin(t, {do_handle(script) : script \in RequestScripts[r]})
      PROVE  IInv'
  <2>1. t \in Tasks /\ Crosses(t) = TRUE
    BY NodeLocksAssumption DEF Tasks, Crosses
  <2>2. \A script \in RequestScripts[r] :
           /\ Fits(TRUE, do_handle(script), {})
           /\ deployment.external_persist =>
                 Framed(do_handle(script)) /\ Locks(do_handle(script), 1, PersistClient)
    BY <1>1, RequestFits, HandledFits
  <2>. DEFINE scripts == {do_handle(script) : script \in RequestScripts[r]}
  <2>3. Begin(t, scripts)
    BY <1>2
  <2>4. /\ \A script \in scripts : Fits(Crosses(t), script, {})
        /\ deployment.external_persist =>
              \A script \in scripts : Framed(script) /\ Locks(script, 1, PersistClient)
    BY <2>1, <2>2
  <2>. HIDE DEF scripts
  <2>. QED  BY <2>1, <2>3, <2>4, BeginIInv
<1>3. ASSUME NEW r \in DOMAIN FollowerScripts, Begin(Follower, {FollowerScripts[r]}) PROVE IInv'
  <2>. DEFINE script == FollowerScripts[r]
  <2>1. Follower \in Tasks /\ Crosses(Follower) = FALSE
    BY DEF Tasks, Crosses
  <2>2. /\ Fits(FALSE, script, {})
        /\ deployment.external_persist =>
              Loose(script) \/ (Framed(script) /\ Locks(script, 1, PersistClient))
    <3>1. CASE r = "AddBlock"
      <4>1. script = do_handle(add_block)
        BY <3>1 DEF FollowerScripts
      <4>2. Fits(FALSE, add_block, {}) /\ Fits(FALSE, add_block, {PersistClient})
        BY <1>1, AddBlockFits
      <4>. QED  BY <4>1, <4>2, HandledFits
    <3>2. CASE r = "TipInfo"
      <4>1. script = Briefly(Tracker)
        BY <3>2 DEF FollowerScripts
      <4>2. Before(FALSE, PersistClient, Tracker) /\ Tracker \in Mutexes
        BY Ranks DEF Before
      <4>3. Fits(FALSE, Briefly(Tracker), {}) /\ Fits(FALSE, Briefly(Tracker), {PersistClient})
        BY <4>2, BrieflyFits
      <4>. QED  BY <4>1, <4>3, InsideIsLoose
    <3>3. CASE r = "Beat"
      <4>1. script = get_heartbeat
        BY <3>3 DEF FollowerScripts
      <4>2. Fits(FALSE, get_heartbeat, {}) /\ Fits(FALSE, get_heartbeat, {PersistClient})
        BY <1>1, HeartbeatFits
      <4>. QED  BY <4>1, <4>2, InsideIsLoose
    <3>. QED  BY <3>1, <3>2, <3>3 DEF FollowerScripts
  <2>. HIDE DEF script
  <2>3. Begin(Follower, {script})
    BY <1>3 DEF script
  <2>. DEFINE scripts == {script}
  <2>4. /\ \A s \in scripts : Fits(Crosses(Follower), s, {})
        /\ deployment.external_persist =>
              \A s \in scripts : \/ Follower = Follower /\ Loose(s)
                                 \/ Framed(s) /\ Locks(s, 1, PersistClient)
    BY <2>1, <2>2
  <2>5. Begin(Follower, scripts)
    BY <2>3
  <2>. HIDE DEF scripts
  <2>. QED  BY <2>1, <2>4, <2>5, BeginIInv
<1>4. ASSUME UNCHANGED vars PROVE IInv'
  BY <1>4 DEF vars, IInv, Typed, Guarded, Held
<1>. QED  BY <1>2, <1>3, <1>4, TakeIInv, GiveIInv DEF Next

------------------------------------------------------------------------------
(* How tasks may wait in a circle                                           *)

Wanted(t) == Head(todo[t]).mutex

\* In a circle everyone waits for a mutex that another one of the circle holds, and that
\* is allowed with all that it holds itself.
LEMMA InCircle ==
    ASSUME IInv, NEW S \in SUBSET Tasks, Circle(S), NEW t \in S
    PROVE  /\ t \in Tasks /\ todo[t] # <<>> /\ Head(todo[t]) = Lock(Wanted(t))
           /\ Wanted(t) \in Mutexes /\ owner[Wanted(t)] \in S
           /\ \A k \in Mutexes : owner[k] = t => Before(Crosses(t), k, Wanted(t))
<1>. DEFINE s == todo[t]
<1>1. PICK u \in S : WaitsFor(t, u)
  BY DEF Circle
<1>2. s \in Seq(Steps) /\ s # <<>> /\ Head(s).op = "lock" /\ owner[Wanted(t)] = u
  BY <1>1 DEF WaitsFor, Wanted, IInv, Typed
<1>3. Rest(Crosses(t), s, Held(t))
  BY DEF IInv
<1>4. Head(s) \in Steps /\ Wanted(t) \in Mutexes
  BY <1>2, HeadMutex, HeadTailProperties DEF Wanted
<1>5. Head(s) = Lock(Wanted(t))
  BY <1>2, <1>4 DEF Steps, Lock, Wanted
<1>. HIDE DEF s
<1>6. 1 \in 1..Len(s) /\ Head(s) = s[1]
  BY <1>2, TailLength
<1>7. ASSUME NEW k \in Mutexes, owner[k] = t PROVE Before(Crosses(t), k, Wanted(t))
  <2>1. k \in Held(t)
    BY <1>7 DEF Held
  <2>2. \A l \in 1..(1 - 1) : ~Unlocks(s, l, k)
    OBVIOUS
  <2>3. Before(Crosses(t), k, s[1].mutex)
    BY <1>2, <1>3, <1>6, <2>1, <2>2 DEF Rest
  <2>. QED  BY <1>6, <2>3 DEF s, Wanted
<1>. QED  BY <1>2, <1>4, <1>5, <1>7 DEF s

\* The mutexes by rank.
LEMMA RankOne ==
    ASSUME NEW m \in Mutexes
    PROVE  /\ Rank(m) = 0 => m = PersistClient
           /\ Rank(m) = 1 => m = Tracker
           /\ Rank(m) = 2 => m = ChannelMap
<1>1. \/ m \in {PersistClient, Tracker, ChannelMap, State}
      \/ \E c \in Channels : m = Slot(c) \/ m = Monitor(c)
  BY DEF Mutexes
<1>. QED  BY <1>1, Ranks

\* Nobody in a circle waits for a slot, the state or a monitor: the ranks of the mutexes
\* waited for would rise without end from there.
LEMMA CircleIsLow ==
    ASSUME IInv, NEW S \in SUBSET Tasks, Circle(S), NEW t \in S
    PROVE  Rank(Wanted(t)) <= 2
<1>. DEFINE R(u) == Rank(Wanted(u))
<1>1. \A u \in S : R(u) \in 0..5
  BY InCircle, Ranks
<1>2. ASSUME NEW u \in S, R(u) > 2 PROVE \E v \in S : R(v) > R(u)
  <2>. DEFINE v == owner[Wanted(u)]
  <2>1. v \in S /\ Wanted(u) \in Mutexes
    BY InCircle
  <2>2. Before(Crosses(v), Wanted(u), Wanted(v))
    BY <2>1, InCircle
  <2>3. Wanted(u) # ChannelMap
    BY <1>2, Ranks
  <2>. QED  BY <2>1, <2>2, <2>3 DEF Before
<1>. HIDE DEF R
<1>3. SUFFICES ASSUME R(t) > 2 PROVE FALSE
  BY <1>1 DEF R
<1>4. \E u \in S : R(u) > 3
  BY <1>1, <1>2, <1>3
<1>5. \E u \in S : R(u) > 4
  BY <1>1, <1>2, <1>4
<1>. QED  BY <1>1, <1>2, <1>5

\* With the cloud, who holds a mutex and waits for another has the client's lock, or is
\* the follower.
LEMMA WaiterIsAlone ==
    ASSUME IInv, deployment.external_persist = TRUE,
           NEW t \in Tasks, NEW k \in Mutexes, owner[k] = t, todo[t] # <<>>, t # Follower
    PROVE  owner[PersistClient] = t
<1>1. Guarded(t) /\ k \in Held(t)
  BY DEF IInv, Held
<1>. QED  BY <1>1 DEF Guarded

\* Where the map and the tracker cross, there are two, and the follower has the tracker if
\* requests are serialised.
LEMMA CrossedByTwo ==
    ASSUME IInv, NEW S \in SUBSET Tasks, Circle(S), NEW t \in S, NEW u \in S,
           owner[ChannelMap] = t, Wanted(t) = Tracker,
           owner[Tracker] = u, Wanted(u) = ChannelMap
    PROVE  t # u /\ Crossed(t, u) /\ (deployment.external_persist => u = Follower)
<1>1. t # u /\ Crossed(t, u)
  BY InCircle, Ranks DEF Crossed
<1>2. ASSUME deployment.external_persist = TRUE PROVE u = Follower
  <2>1. Before(Crosses(t), ChannelMap, Tracker)
    BY InCircle, Ranks
  <2>2. t # Follower
    BY <2>1, Ranks DEF Before, Crosses
  <2>3. owner[PersistClient] = t
    BY <1>2, <2>2, InCircle, Ranks, WaiterIsAlone
  <2>4. ASSUME u # Follower PROVE FALSE
    <3>1. owner[PersistClient] = u
      BY <1>2, <2>4, InCircle, Ranks, WaiterIsAlone
    <3>. QED  BY <1>1, <2>3, <3>1
  <2>. QED  BY <2>4
<1>3. deployment.external_persist \in BOOLEAN
  BY NodeLocksAssumption DEF IInv, Typed
<1>. QED  BY <1>1, <1>2, <1>3

\* The invariant leaves one kind of circle.
LEMMA OnlyOneCircle == ASSUME IInv PROVE OnlyMapAndTrackerCross
<1>. SUFFICES ASSUME NEW S \in SUBSET Tasks, Circle(S)
               PROVE  \E t, u \in S : /\ t # u /\ Crossed(t, u)
                                      /\ deployment.external_persist => u = Follower
  BY DEF OnlyMapAndTrackerCross
<1>2. ASSUME NEW t \in S
      PROVE  Wanted(t) = PersistClient \/ Wanted(t) = Tracker \/ Wanted(t) = ChannelMap
  BY InCircle, CircleIsLow, RankOne, Ranks
<1>3. ASSUME NEW t \in S, Wanted(t) = Tracker
      PROVE  owner[Tracker] \in S /\ Wanted(owner[Tracker]) = ChannelMap
  <2>. DEFINE u == owner[Tracker]
  <2>1. u \in S
    BY <1>3, InCircle
  <2>2. Before(Crosses(u), Tracker, Wanted(u))
    BY <2>1, InCircle, Ranks
  <2>. QED  BY <1>2, <2>1, <2>2, Ranks DEF Before
<1>4. ASSUME NEW t \in S, Wanted(t) = ChannelMap
      PROVE  owner[ChannelMap] \in S /\ Wanted(owner[ChannelMap]) = Tracker
  <2>. DEFINE u == owner[ChannelMap]
  <2>1. u \in S
    BY <1>4, InCircle
  <2>2. Before(Crosses(u), ChannelMap, Wanted(u))
    BY <2>1, InCircle, Ranks
  <2>. QED  BY <1>2, <2>1, <2>2, Ranks DEF Before
<1>5. PICK t \in S : Wanted(t) = Tracker \/ Wanted(t) = ChannelMap
  <2>1. PICK u \in S : TRUE
    BY DEF Circle
  <2>2. CASE Wanted(u) = PersistClient
    <3>. DEFINE v == owner[PersistClient]
    <3>1. v \in S
      BY <2>2, InCircle
    <3>2. Before(Crosses(v), PersistClient, Wanted(v))
      BY <3>1, InCircle, Ranks
    <3>3. Wanted(v) # PersistClient
      BY <3>2, Ranks DEF Before
    <3>. QED  BY <1>2, <3>1, <3>3
  <2>. QED  BY <1>2, <2>1, <2>2
<1>6. /\ owner[ChannelMap] \in S /\ Wanted(owner[ChannelMap]) = Tracker
      /\ owner[Tracker] \in S /\ Wanted(owner[Tracker]) = ChannelMap
  BY <1>3, <1>4, <1>5
<1>. QED  BY <1>6, CrossedByTwo

------------------------------------------------------------------------------
(* Theorems                                                                 *)

\* The inductive invariant: what is left of each request takes its mutexes in order but for
\* the tracker under the map, which only clients do, and gives all of them back.
THEOREM LocksInvariant == Spec => []IInv
<1>1. Init => IInv
  BY InitIInv
<1>2. IInv /\ [Next]_vars => IInv'
  BY NextIInv
<1>. QED  BY <1>1, <1>2, PTL DEF Spec

\* In every deployment, for any number of clients, channels and requests of each, tasks wait
\* in a circle only where the map and the tracker are crossed.
THEOREM OnlyOneWayToDeadlock == Spec => []OnlyMapAndTrackerCross
<1>1. IInv => OnlyMapAndTrackerCross
  BY OnlyOneCircle
<1>. QED  BY <1>1, LocksInvariant, PTL

\* A request that has ended has left no mutex locked: the safety half of RequestsEnd.
THEOREM NothingStaysLocked ==
    Spec => [](\A t \in Tasks : todo[t] = <<>> => Held(t) = {})
<1>1. IInv => \A t \in Tasks : todo[t] = <<>> => Held(t) = {}
  BY IdleHoldsNothing
<1>. QED  BY <1>1, LocksInvariant, PTL

==============================================================================
