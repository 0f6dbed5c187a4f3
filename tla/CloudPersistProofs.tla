-------------------------- MODULE CloudPersistProofs --------------------------
(***************************************************************************)
(* What the in-place signer keeps up while puts and answers get lost, for  *)
(* any number of clients, keys, contents and versions.                     *)
(***************************************************************************)
EXTENDS CloudPersist, TLAPS

\* The stages in which a task holds the lock of the storage client.
Holding == {"put", "stored", "failed", "conflict"}

\* One task at most is between its handler and the end of its put, and only while the
\* process runs.
LockHeld ==
    /\ \A t \in Tasks : work[t].stage \in Holding => lock = t
    /\ ~up => (unsaved = {} /\ \A t \in Tasks : work[t] = Idle)

\* What is being put is what the memory has, one version after the server's entry or
\* after one that could not be put.
PutFits ==
    \A t \in Tasks : work[t].stage = "put" =>
        \A k \in DOMAIN work[t].muts :
            /\ work[t].muts[k] = store[k]
            /\ \/ store[k].version = cloud[k].version + 1
               \/ \E w \in unsaved : w.key = k /\ w.entry.version = store[k].version - 1

\* The server has it, or its put failed for another request than this one.
Covered(t, w) ==
    \/ Durable(w.key, w.entry)
    \/ w \in unsaved /\ w.key \notin DOMAIN work[t].muts

\* What a reply will stand for is covered once the put is stored.
WroteFits ==
    \A t \in Tasks : \A w \in work[t].wrote :
        /\ work[t].stage = "put" =>
               IF w.key \in DOMAIN work[t].muts THEN w.entry = work[t].muts[w.key]
               ELSE Covered(t, w)
        /\ work[t].stage \in {"stored", "reply"} => Covered(t, w)

IInv ==
    /\ TypeOK
    /\ LockHeld
    /\ PutFits
    /\ WroteFits
    /\ MemoryIsOnServer
    /\ ConflictsOnlyAfterFailure

------------------------------------------------------------------------------
(* The types of what requests write and put                                 *)

\* What TypeOK says of one task: its mutations are entries of some of the keys.
LEMMA WorkType ==
    ASSUME TypeOK, NEW t \in Tasks
    PROVE  /\ work[t] \in Jobs
           /\ DOMAIN work[t].muts \subseteq Keys
           /\ \A k \in DOMAIN work[t].muts : work[t].muts[k] \in Entries
<1>1. work[t] \in Jobs
  BY DEF TypeOK
<1>2. PICK written \in SUBSET Keys : work[t].muts \in [written -> Entries]
  BY <1>1 DEF Mutations, Jobs
<1>. QED  BY <1>1, <1>2

\* get_dirty gives the entries that differ, as they are afterwards.
LEMMA DirtyEntries ==
    ASSUME NEW before \in [Keys -> Entries], NEW after \in [Keys -> Entries]
    PROVE  /\ get_dirty(before, after) \in Mutations
           /\ DOMAIN get_dirty(before, after) = {k \in Keys : before[k] # after[k]}
           /\ \A k \in DOMAIN get_dirty(before, after) : get_dirty(before, after)[k] = after[k]
<1> DEFINE changed == {k \in Keys : before[k] # after[k]}
<1>1. get_dirty(before, after) = [k \in changed |-> after[k]]
  BY DEF get_dirty, Restrict
<1>2. [k \in changed |-> after[k]] \in [changed -> Entries]
  OBVIOUS
<1>3. get_dirty(before, after) \in Mutations
  BY <1>1, <1>2 DEF Mutations
<1>. QED  BY <1>1, <1>3

\* do_insert keeps an entry or advances it by one version.
LEMMA InsertAdvances ==
    ASSUME NEW entry \in Entries, NEW value \in Contents,
           do_insert(entry, value).version <= MaxVersion
    PROVE  /\ do_insert(entry, value) \in Entries
           /\ do_insert(entry, value) # entry =>
                  do_insert(entry, value).version = entry.version + 1
  BY CloudPersistAssumption DEF do_insert, Entries

\* The same for all the entries that a request writes.
LEMMA InsertedEntries ==
    ASSUME TypeOK, NEW written \in SUBSET Keys, NEW request \in [written -> Contents],
           \A k \in Keys : Inserted(request)[k].version <= MaxVersion
    PROVE  /\ Inserted(request) \in [Keys -> Entries]
           /\ \A k \in Keys : Inserted(request)[k] # store[k] =>
                  Inserted(request)[k].version = store[k].version + 1
<1>1. ASSUME NEW k \in Keys
      PROVE  /\ Inserted(request)[k] \in Entries
             /\ Inserted(request)[k] # store[k] =>
                    Inserted(request)[k].version = store[k].version + 1
  <2>1. store[k] \in Entries
    BY DEF TypeOK
  <2>2. CASE k \in written
    <3>1. Inserted(request)[k] = do_insert(store[k], request[k])
      BY <2>2 DEF Inserted
    <3>. QED  BY <2>1, <2>2, <3>1, InsertAdvances
  <2>3. CASE k \notin written
    BY <2>1, <2>3 DEF Inserted
  <2>. QED  BY <2>2, <2>3
<1>2. Inserted(request) = [k \in Keys |-> Inserted(request)[k]]
  BY DEF Inserted
<1>. QED  BY <1>1, <1>2

------------------------------------------------------------------------------
(* Every step keeps the invariant                                           *)

\* A task that serves no request has nothing to put and nothing to answer for.
LEMMA IdleType ==
    /\ Idle \in Jobs
    /\ Idle.stage = "idle" /\ Idle.wrote = {}
<1>1. [k \in {} |-> Absent] \in [{} -> Entries]
  OBVIOUS
<1>2. [k \in {} |-> Absent] \in Mutations
  BY <1>1 DEF Mutations
<1>. QED  BY <1>2 DEF Idle, Jobs

\* With nothing on the server and nobody at work the invariant holds.
LEMMA InitHolds == Init => IInv
<1> SUFFICES ASSUME Init PROVE IInv
  OBVIOUS
<1>1. Absent \in Entries
  BY CloudPersistAssumption DEF Absent, Entries
<1>2. TypeOK
  BY <1>1, IdleType DEF Init, TypeOK
<1>3. \A t \in Tasks : work[t].stage = "idle" /\ work[t].wrote = {}
  BY IdleType DEF Init
<1>4. LockHeld
  BY <1>3 DEF Init, LockHeld, Holding
<1>. QED  BY <1>2, <1>3, <1>4 DEF Init, IInv, PutFits, WroteFits, MemoryIsOnServer,
            ConflictsOnlyAfterFailure

\* While nobody holds the lock, the memory is the server's but for what failed.
LEMMA MemoryAtRest ==
    ASSUME IInv, up, lock = Nobody, NEW k \in Keys
    PROVE  store[k] = cloud[k] \/ At(k, store[k]) \in unsaved
<1>1. \A t \in Tasks : work[t].stage # "put"
  BY CloudPersistAssumption DEF IInv, LockHeld, Holding
<1>. QED  BY <1>1 DEF IInv, MemoryIsOnServer

\* A task that takes the lock with what its request changed keeps the invariant.
LEMMA ServeKeeps ==
    ASSUME IInv, NEW t \in Tasks, NEW written \in SUBSET Keys,
           NEW request \in [written -> Contents], do_handle(t, request)
    PROVE  IInv'
<1> DEFINE after == Inserted(request)
           muts == get_dirty(store, after)
           wrote == {At(k, after[k]) : k \in DOMAIN request}
           puts == t = Follower \/ DOMAIN muts # {}
           job == [stage |-> IF puts THEN "put" ELSE "reply", muts |-> muts, wrote |-> wrote]
<1>1. /\ up /\ lock = Nobody /\ work[t].stage = "idle"
      /\ \A k \in Keys : after[k].version <= MaxVersion
      /\ store' = after
      /\ lock' = IF puts THEN t ELSE Nobody
      /\ work' = [work EXCEPT ![t] = job]
      /\ cloud' = cloud /\ unsaved' = unsaved /\ up' = up
  BY DEF do_handle, Serve
<1>2. TypeOK
  BY DEF IInv
<1>3. /\ after \in [Keys -> Entries]
      /\ \A k \in Keys : after[k] # store[k] => after[k].version = store[k].version + 1
  BY <1>1, <1>2, InsertedEntries
<1>4. /\ muts \in Mutations
      /\ DOMAIN muts = {k \in Keys : store[k] # after[k]}
      /\ \A k \in DOMAIN muts : muts[k] = after[k]
  BY <1>2, <1>3, DirtyEntries DEF TypeOK
<1>5. wrote \in SUBSET [key : Keys, entry : Entries]
  BY <1>3 DEF At
<1>6. /\ work'[t] = job
      /\ \A s \in Tasks : s # t => work'[s] = work[s]
  BY <1>1, <1>2 DEF TypeOK
<1>7. \A s \in Tasks : work[s].stage \notin Holding
  BY <1>1, CloudPersistAssumption DEF IInv, LockHeld
<1>8. TypeOK'
  <2>1. job \in Jobs
    BY <1>4, <1>5 DEF Jobs
  <2> HIDE DEF job, after
  <2>. QED  BY <1>1, <1>2, <1>3, <2>1 DEF TypeOK
<1>9. LockHeld'
  BY <1>1, <1>6, <1>7 DEF IInv, LockHeld, Holding
<1>10. ASSUME NEW k \in Keys
       PROVE  store[k] = cloud[k] \/ At(k, store[k]) \in unsaved
  BY <1>1, MemoryAtRest
<1>11. PutFits'
  <2> SUFFICES ASSUME NEW s \in Tasks, work'[s].stage = "put", NEW k \in DOMAIN work'[s].muts
               PROVE  /\ work'[s].muts[k] = store'[k]
                      /\ \/ store'[k].version = cloud'[k].version + 1
                         \/ \E w \in unsaved' :
                                w.key = k /\ w.entry.version = store'[k].version - 1
    BY DEF PutFits
  <2>1. s = t
    BY <1>6, <1>7 DEF Holding
  <2>2. k \in Keys /\ after[k] # store[k] /\ work'[s].muts[k] = after[k]
    BY <1>4, <1>6, <2>1
  <2>3. after[k].version = store[k].version + 1 /\ store[k].version \in Int
    BY <1>2, <1>3, <2>2 DEF TypeOK, Entries
  <2>4. CASE store[k] = cloud[k]
    BY <1>1, <2>2, <2>3, <2>4
  <2>5. CASE At(k, store[k]) \in unsaved
    <3>1. At(k, store[k]).key = k /\ At(k, store[k]).entry.version = after[k].version - 1
      BY <2>3 DEF At
    <3>. QED  BY <1>1, <2>2, <2>5, <3>1
  <2>. QED  BY <1>10, <2>2, <2>4, <2>5
<1>12. ASSUME NEW w \in wrote
       PROVE  IF w.key \in DOMAIN muts THEN w.entry = muts[w.key]
              ELSE w \in unsaved \/ Durable(w.key, w.entry)
  <2>1. PICK k \in written : w = At(k, after[k])
    OBVIOUS
  <2>2. w.key = k /\ w.entry = after[k] /\ k \in Keys
    BY <2>1 DEF At
  <2>3. CASE k \in DOMAIN muts
    BY <1>4, <2>2, <2>3
  <2>4. CASE k \notin DOMAIN muts
    <3>1. after[k] = store[k]
      BY <1>4, <2>2, <2>4
    <3>. QED  BY <1>10, <2>1, <2>2, <2>4, <3>1 DEF Durable
  <2>. QED  BY <2>3, <2>4
<1>13. WroteFits'
  <2> SUFFICES ASSUME NEW s \in Tasks, NEW w \in work'[s].wrote
               PROVE  /\ work'[s].stage = "put" =>
                             IF w.key \in DOMAIN work'[s].muts THEN w.entry = work'[s].muts[w.key]
                             ELSE Covered(s, w)'
                      /\ work'[s].stage \in {"stored", "reply"} => Covered(s, w)'
    BY DEF WroteFits
  <2>1. CASE s = t
    <3>1. work'[s].muts = muts /\ w \in wrote /\ work'[s].stage \in {"put", "reply"}
      BY <1>6, <2>1
    <3>2. work'[s].stage = "reply" => DOMAIN muts = {}
      <4>1. puts => work'[s].stage = "put"
        BY <1>6, <2>1
      <4>2. ~puts => DOMAIN muts = {}
        OBVIOUS
      <4>. QED  BY <4>1, <4>2
    <3> HIDE DEF muts, wrote
    <3>. QED  BY <1>1, <1>12, <3>1, <3>2 DEF Covered, Durable
  <2>2. CASE s # t
    BY <1>1, <1>6, <2>2 DEF IInv, WroteFits, Covered, Durable
  <2>. QED  BY <2>1, <2>2
<1>14. MemoryIsOnServer'
  <2> SUFFICES ASSUME NEW k \in Keys
               PROVE  \/ store'[k] = cloud'[k]
                      \/ At(k, store'[k]) \in unsaved'
                      \/ \E s \in Tasks : work'[s].stage = "put" /\ k \in DOMAIN work'[s].muts
    BY DEF MemoryIsOnServer, At
  <2>1. CASE after[k] = store[k]
    BY <1>1, <1>10, <2>1
  <2>2. CASE after[k] # store[k]
    <3>1. k \in DOMAIN muts
      BY <1>4, <2>2
    <3>2. work'[t].stage = "put" /\ work'[t].muts = muts
      BY <1>6, <3>1
    <3>. QED  BY <3>1, <3>2
  <2>. QED  BY <2>1, <2>2
<1>15. ConflictsOnlyAfterFailure'
  <2>1. \A s \in Tasks : work'[s].stage # "conflict"
    BY <1>6, <1>7 DEF Holding
  <2>. QED  BY <2>1 DEF ConflictsOnlyAfterFailure
<1>. QED  BY <1>8, <1>9, <1>11, <1>13, <1>14, <1>15 DEF IInv

\* A put that the server does not have goes on record, and with that nothing is owed.
LEMMA PutLostKeeps ==
    ASSUME IInv, NEW t \in Tasks, NEW end \in {"failed", "conflict"},
           work[t].stage = "put",
           work' = [work EXCEPT ![t].stage = end],
           unsaved' = unsaved \cup {At(k, work[t].muts[k]) : k \in DOMAIN work[t].muts},
           store' = store, cloud' = cloud, lock' = lock, up' = up,
           end = "conflict" =>
               \E w \in unsaved : /\ w.key \in DOMAIN work[t].muts
                                  /\ w.entry.version = work[t].muts[w.key].version - 1
    PROVE  IInv'
<1> DEFINE muts == work[t].muts
<1>1. TypeOK
  BY DEF IInv
<1>2. /\ DOMAIN muts \subseteq Keys
      /\ \A k \in DOMAIN muts : muts[k] \in Entries /\ muts[k] = store[k]
  BY <1>1, WorkType DEF IInv, PutFits
<1>3. /\ work'[t] = [work[t] EXCEPT !.stage = end]
      /\ \A s \in Tasks : s # t => work'[s] = work[s]
  BY <1>1 DEF TypeOK
<1>4. work'[t].stage = end /\ work'[t].muts = muts /\ work'[t].wrote = work[t].wrote
  BY <1>1, <1>3, WorkType DEF Jobs
<1>5. up /\ lock = t /\ \A s \in Tasks : s # t => work[s].stage \notin Holding
  <2>1. lock = t
    BY DEF IInv, LockHeld, Holding
  <2>2. up
    BY IdleType DEF IInv, LockHeld
  <2>. QED  BY <2>1, <2>2 DEF IInv, LockHeld
<1>6. TypeOK'
  <2>1. [work[t] EXCEPT !.stage = end] \in Jobs
    BY <1>1, WorkType DEF Jobs
  <2>2. unsaved' \subseteq [key : Keys, entry : Entries]
    BY <1>1, <1>2 DEF TypeOK, At
  <2>. QED  BY <1>1, <2>1, <2>2 DEF TypeOK
<1>7. LockHeld'
  BY <1>3, <1>5 DEF IInv, LockHeld
<1>8. PutFits'
  BY <1>3, <1>4, <1>5 DEF PutFits, Holding
<1>9. WroteFits'
  BY <1>3, <1>4, <1>5 DEF IInv, WroteFits, Covered, Durable, Holding
<1>10. MemoryIsOnServer'
  <2> SUFFICES ASSUME NEW k \in Keys
               PROVE  store'[k] = cloud'[k] \/ At(k, store'[k]) \in unsaved'
    BY DEF MemoryIsOnServer, At
  <2>1. \/ store[k] = cloud[k] \/ At(k, store[k]) \in unsaved
        \/ \E s \in Tasks : work[s].stage = "put" /\ k \in DOMAIN work[s].muts
    BY <1>5 DEF IInv, MemoryIsOnServer
  <2>2. CASE k \in DOMAIN muts
    BY <1>2, <2>2
  <2>3. CASE k \notin DOMAIN muts
    BY <1>5, <2>1, <2>3 DEF Holding
  <2>. QED  BY <2>2, <2>3
<1>11. ConflictsOnlyAfterFailure'
  BY <1>3, <1>4, <1>5 DEF ConflictsOnlyAfterFailure, Holding
<1>. QED  BY <1>6, <1>7, <1>8, <1>9, <1>10, <1>11 DEF IInv

\* The server's side of a put: all of it is stored, or none and it is on record.
LEMMA PutKeeps ==
    ASSUME IInv, NEW t \in Tasks, put(t)
    PROVE  IInv'
<1> DEFINE muts == work[t].muts
           failed == {At(k, muts[k]) : k \in DOMAIN muts}
<1>1. /\ work[t].stage = "put"
      /\ store' = store /\ lock' = lock /\ up' = up
  BY DEF put
<1>2. TypeOK
  BY DEF IInv
<1>3. /\ DOMAIN muts \subseteq Keys
      /\ \A k \in DOMAIN muts : muts[k] \in Entries /\ muts[k] = store[k]
  BY <1>1, <1>2, WorkType DEF IInv, PutFits
<1>4. up /\ lock = t /\ \A s \in Tasks : s # t => work[s].stage \notin Holding
  <2>1. lock = t
    BY <1>1 DEF IInv, LockHeld, Holding
  <2>2. up
    BY <1>1, IdleType DEF IInv, LockHeld
  <2>. QED  BY <2>1, <2>2 DEF IInv, LockHeld
<1>5. CASE Conflicts(muts) = {}
  <2>1. /\ cloud' = Stored(muts)
        /\ work' = [work EXCEPT ![t].stage = "stored"]
        /\ unsaved' = unsaved
    BY <1>5 DEF put
  <2>2. /\ work'[t] = [work[t] EXCEPT !.stage = "stored"]
        /\ \A s \in Tasks : s # t => work'[s] = work[s]
    BY <1>2, <2>1 DEF TypeOK
  <2>3. /\ work'[t].stage = "stored"
        /\ work'[t].muts = muts
        /\ work'[t].wrote = work[t].wrote
    BY <1>2, <2>2, WorkType
  <2>4. ASSUME NEW k \in Keys
        PROVE  IF k \in DOMAIN muts
               THEN /\ cloud'[k] = muts[k]
                    /\ cloud'[k].version = cloud[k].version + 1
               ELSE cloud'[k] = cloud[k]
    BY <1>5, <2>1 DEF Stored, Conflicts
  <2>5. TypeOK'
    <3>1. Stored(muts) \in [Keys -> Entries]
      BY <1>2, <1>3 DEF Stored, TypeOK
    <3>2. [work[t] EXCEPT !.stage = "stored"] \in Jobs
      BY <1>2, WorkType DEF Jobs
    <3>. QED  BY <1>1, <1>2, <2>1, <3>1, <3>2 DEF TypeOK
  <2>6. LockHeld'
    BY <1>1, <1>4, <2>1, <2>2 DEF IInv, LockHeld
  <2>7. PutFits'
    BY <1>4, <2>2, <2>3 DEF PutFits, Holding
  <2>8. ASSUME NEW w \in [key : Keys, entry : Entries], Durable(w.key, w.entry)
        PROVE  Durable(w.key, w.entry)'
    <3>1. cloud[w.key].version \in Int /\ w.entry.version \in Int
      BY <1>2 DEF TypeOK, Entries
    <3>. QED  BY <2>4, <2>8, <3>1 DEF Durable
  <2>9. WroteFits'
    <3> SUFFICES ASSUME NEW s \in Tasks, NEW w \in work'[s].wrote
                 PROVE  /\ work'[s].stage # "put"
                        /\ work'[s].stage \in {"stored", "reply"} => Covered(s, w)'
      BY DEF WroteFits
    <3>1. w \in work[s].wrote /\ w \in [key : Keys, entry : Entries]
      BY <1>2, <2>2, <2>3, WorkType DEF Jobs
    <3>2. CASE s = t
      <4>1. CASE w.key \in DOMAIN muts
        <5>1. w.entry = muts[w.key]
          BY <1>1, <3>1, <3>2, <4>1 DEF IInv, WroteFits
        <5>. QED  BY <2>3, <2>4, <3>1, <3>2, <4>1, <5>1 DEF Covered, Durable
      <4>2. CASE w.key \notin DOMAIN muts
        <5>1. Covered(t, w)
          BY <1>1, <3>1, <3>2, <4>2 DEF IInv, WroteFits
        <5>. QED  BY <2>1, <2>3, <2>8, <3>1, <3>2, <4>2, <5>1 DEF Covered
      <4>. QED  BY <4>1, <4>2
    <3>3. CASE s # t
      <4>1. work'[s] = work[s] /\ work[s].stage # "put"
        BY <1>4, <2>2, <3>3 DEF Holding
      <4>2. work[s].stage \in {"stored", "reply"} => Covered(s, w)
        BY <3>1 DEF IInv, WroteFits
      <4>. QED  BY <2>1, <2>8, <3>1, <4>1, <4>2 DEF Covered
    <3>. QED  BY <3>2, <3>3
  <2>10. MemoryIsOnServer'
    <3> SUFFICES ASSUME NEW k \in Keys
                 PROVE  store'[k] = cloud'[k] \/ At(k, store'[k]) \in unsaved'
      BY DEF MemoryIsOnServer, At
    <3>1. CASE k \in DOMAIN muts
      BY <1>1, <1>3, <2>4, <3>1
    <3>2. CASE k \notin DOMAIN muts
      <4>1. \/ store[k] = cloud[k] \/ At(k, store[k]) \in unsaved
            \/ \E s \in Tasks : work[s].stage = "put" /\ k \in DOMAIN work[s].muts
        BY <1>4 DEF IInv, MemoryIsOnServer
      <4>2. store[k] = cloud[k] \/ At(k, store[k]) \in unsaved
        BY <1>4, <3>2, <4>1 DEF Holding
      <4>. QED  BY <1>1, <2>1, <2>4, <3>2, <4>2
    <3>. QED  BY <3>1, <3>2
  <2>11. ConflictsOnlyAfterFailure'
    BY <1>4, <2>2, <2>3 DEF ConflictsOnlyAfterFailure, Holding
  <2>. QED  BY <2>5, <2>6, <2>7, <2>9, <2>10, <2>11 DEF IInv
<1>6. CASE Conflicts(muts) # {}
  <2>1. /\ cloud' = cloud
        /\ work' = [work EXCEPT ![t].stage = "conflict"]
        /\ unsaved' = unsaved \cup failed
    BY <1>6 DEF put
  <2>2. PICK k \in DOMAIN muts : muts[k].version # cloud[k].version + 1
    BY <1>6 DEF Conflicts
  <2>3. \E w \in unsaved : w.key = k /\ w.entry.version = muts[k].version - 1
    BY <1>1, <1>3, <2>2 DEF IInv, PutFits
  <2>. QED  BY <1>1, <1>4, <2>1, <2>2, <2>3, PutLostKeeps
<1>. QED  BY <1>5, <1>6

\* A task whose put is over goes on: it gives the lock back, replies or begins anew.
LEMMA TaskGoesOn ==
    ASSUME IInv, NEW t \in Tasks, NEW job,
           \/ job = Idle
           \/ job = [work[t] EXCEPT !.stage = "failed"] /\ lock' = lock
           \/ job = [work[t] EXCEPT !.stage = "reply"],
           job # Idle => work[t].stage = "stored",
           work[t].stage \notin {"idle", "put"},
           work' = [work EXCEPT ![t] = job],
           lock' = lock \/ lock' = Unlocked(t),
           job = Idle => (work[t].stage = "reply" \/ lock' = Unlocked(t)),
           store' = store, cloud' = cloud, unsaved' = unsaved, up' = up
    PROVE  IInv'
<1>1. TypeOK
  BY DEF IInv
<1>2. work'[t] = job /\ \A s \in Tasks : s # t => work'[s] = work[s]
  BY <1>1 DEF TypeOK
<1>3. /\ job \in Jobs
      /\ job.stage \in {"idle", "failed", "reply"}
      /\ job.stage = "idle" => job.wrote = {}
      /\ job.stage # "idle" => job.muts = work[t].muts /\ job.wrote = work[t].wrote
  BY <1>1, WorkType, IdleType DEF Jobs
<1>4. up
  BY IdleType DEF IInv, LockHeld
<1>5. TypeOK'
  BY <1>1, <1>3 DEF TypeOK, Unlocked
<1>6. LockHeld'
  <2>1. ASSUME NEW s \in Tasks, work'[s].stage \in Holding
        PROVE  lock' = s
    <3>1. CASE s = t
      <4>1. job = [work[t] EXCEPT !.stage = "failed"] /\ lock' = lock
        BY <1>1, <1>2, <2>1, <3>1, WorkType, IdleType DEF Holding, Jobs
      <4>2. work[t].stage = "stored"
        BY <1>2, <2>1, <3>1, IdleType DEF Holding
      <4>. QED  BY <3>1, <4>1, <4>2 DEF IInv, LockHeld, Holding
    <3>2. CASE s # t
      <4>1. lock = s
        BY <1>2, <2>1, <3>2 DEF IInv, LockHeld
      <4>. QED  BY <3>2, <4>1 DEF Unlocked
    <3>. QED  BY <3>1, <3>2
  <2>. QED  BY <1>4, <2>1 DEF LockHeld
<1>7. PutFits'
  BY <1>2, <1>3 DEF IInv, PutFits
<1>8. WroteFits'
  <2> SUFFICES ASSUME NEW s \in Tasks, NEW w \in work'[s].wrote
               PROVE  /\ work'[s].stage = "put" =>
                             IF w.key \in DOMAIN work'[s].muts THEN w.entry = work'[s].muts[w.key]
                             ELSE Covered(s, w)'
                      /\ work'[s].stage \in {"stored", "reply"} => Covered(s, w)'
    BY DEF WroteFits
  <2>1. CASE s # t
    BY <1>2, <2>1 DEF IInv, WroteFits, Covered, Durable
  <2>2. CASE s = t
    <3>1. job # Idle /\ work[t].stage = "stored" /\ w \in work[t].wrote
      BY <1>2, <1>3, <2>2, IdleType
    <3>2. Covered(t, w)
      BY <3>1 DEF IInv, WroteFits
    <3>. QED  BY <1>2, <1>3, <2>2, <3>1, <3>2, IdleType DEF Covered, Durable
  <2>. QED  BY <2>1, <2>2
<1>9. MemoryIsOnServer'
  BY <1>2, <1>3, <1>4 DEF IInv, MemoryIsOnServer, At
<1>10. ConflictsOnlyAfterFailure'
  BY <1>2, <1>3 DEF IInv, ConflictsOnlyAfterFailure
<1>. QED  BY <1>5, <1>6, <1>7, <1>8, <1>9, <1>10 DEF IInv

\* A stop leaves only what is on the server.
LEMMA StopKeeps ==
    ASSUME IInv, Stop
    PROVE  IInv'
<1>1. Absent \in Entries
  BY CloudPersistAssumption DEF Absent, Entries
<1>2. TypeOK'
  BY <1>1, IdleType DEF IInv, TypeOK, Stop
<1>3. \A t \in Tasks : work'[t] = Idle
  BY DEF Stop
<1>4. LockHeld'
  BY <1>3, IdleType DEF Stop, LockHeld, Holding
<1>. QED  BY <1>2, <1>3, <1>4, IdleType DEF Stop, IInv, PutFits, WroteFits, MemoryIsOnServer,
            ConflictsOnlyAfterFailure

\* A start takes what is on the server, and puts the entries of a node that is new.
LEMMA StartKeeps ==
    ASSUME IInv, NEW content \in Contents, Start(content)
    PROVE  IInv'
<1> DEFINE new == IF \A k \in NodeKeys : cloud[k] = Absent THEN NodeKeys ELSE {}
           built == [k \in Keys |-> IF k \in new THEN do_insert(cloud[k], content) ELSE cloud[k]]
           muts == get_dirty(cloud, built)
           job == [stage |-> "put", muts |-> muts, wrote |-> {}]
<1>1. /\ ~up /\ up' = TRUE
      /\ store' = built
      /\ lock' = IF DOMAIN muts = {} THEN Nobody ELSE Root
      /\ work' = IF DOMAIN muts = {} THEN work ELSE [work EXCEPT ![Root] = job]
      /\ cloud' = cloud /\ unsaved' = unsaved
  BY DEF Start
<1>2. TypeOK /\ Root \in Tasks
  BY DEF IInv, Tasks
<1>3. unsaved = {} /\ \A t \in Tasks : work[t] = Idle
  BY <1>1 DEF IInv, LockHeld
<1>4. ASSUME NEW k \in Keys
      PROVE  /\ built[k] \in Entries
             /\ built[k] # cloud[k] => built[k].version = cloud[k].version + 1
  <2>1. cloud[k] \in Entries
    BY <1>2 DEF TypeOK
  <2>2. CASE k \in new
    <3>1. cloud[k] = Absent /\ built[k] = do_insert(cloud[k], content)
      BY <2>2
    <3>2. do_insert(cloud[k], content).version <= MaxVersion
      BY <3>1, CloudPersistAssumption DEF do_insert, Absent
    <3>. QED  BY <2>1, <3>1, <3>2, InsertAdvances
  <2>3. CASE k \notin new
    BY <2>1, <2>3
  <2>. QED  BY <2>2, <2>3
<1>5. built \in [Keys -> Entries]
  BY <1>4
<1>6. /\ muts \in Mutations
      /\ DOMAIN muts = {k \in Keys : cloud[k] # built[k]}
      /\ \A k \in DOMAIN muts : muts[k] = built[k]
  <2> HIDE DEF built
  <2>. QED  BY <1>2, <1>5, DirtyEntries DEF TypeOK
<1> HIDE DEF muts, built
<1>7. \A t \in Tasks : \/ work'[t] = Idle
                       \/ t = Root /\ work'[t] = job /\ lock' = Root
  BY <1>1, <1>2, <1>3 DEF TypeOK
<1>8. TypeOK'
  <2>1. job \in Jobs
    BY <1>6 DEF Jobs
  <2>. QED  BY <1>1, <1>2, <1>5, <2>1 DEF TypeOK
<1>9. LockHeld'
  BY <1>1, <1>7, IdleType DEF LockHeld, Holding
<1>10. PutFits'
  BY <1>1, <1>4, <1>6, <1>7, IdleType DEF PutFits
<1>11. WroteFits'
  BY <1>7, IdleType DEF WroteFits
<1>12. MemoryIsOnServer'
  <2> SUFFICES ASSUME NEW k \in Keys
               PROVE  \/ store'[k] = cloud'[k]
                      \/ \E t \in Tasks : work'[t].stage = "put" /\ k \in DOMAIN work'[t].muts
    BY DEF MemoryIsOnServer, At
  <2>1. CASE built[k] = cloud[k]
    BY <1>1, <2>1
  <2>2. CASE built[k] # cloud[k]
    <3>1. k \in DOMAIN muts
      BY <1>6, <2>2
    <3>2. work'[Root] = job
      BY <1>1, <1>2, <3>1 DEF TypeOK
    <3>. QED  BY <1>2, <3>1, <3>2
  <2>. QED  BY <2>1, <2>2
<1>13. ConflictsOnlyAfterFailure'
  BY <1>7, IdleType DEF ConflictsOnlyAfterFailure
<1>. QED  BY <1>8, <1>9, <1>10, <1>11, <1>12, <1>13 DEF IInv

\* One step per action of Next.
LEMMA NextKeeps == IInv /\ [Next]_vars => IInv'
<1> SUFFICES ASSUME IInv, [Next]_vars PROVE IInv'
  OBVIOUS
<1>1. CASE UNCHANGED vars
  BY <1>1 DEF vars, IInv, TypeOK, LockHeld, PutFits, WroteFits, Covered, Durable,
     MemoryIsOnServer, ConflictsOnlyAfterFailure, At
<1>2. ASSUME NEW t \in Tasks, NEW written \in Writes[t], NEW request \in [written -> Contents],
             do_handle(t, request)
      PROVE  IInv'
  <2>1. written \in SUBSET Keys
    BY CloudPersistAssumption
  <2>. QED  BY <1>2, <2>1, ServeKeeps
<1>3. ASSUME NEW t \in Tasks, put(t) PROVE IInv'
  BY <1>3, PutKeeps
<1>4. ASSUME NEW t \in Tasks, LosePut(t) PROVE IInv'
  BY <1>4, PutLostKeeps DEF LosePut
<1>5. ASSUME NEW t \in Tasks, LoseAnswer(t) PROVE IInv'
  <2>1. work' = [work EXCEPT ![t] = [work[t] EXCEPT !.stage = "failed"]]
    BY <1>5 DEF LoseAnswer
  <2>2. [work[t] EXCEPT !.stage = "failed"] # Idle
    BY WorkType, IdleType DEF IInv, Jobs
  <2>. QED  BY <1>5, <2>1, <2>2, TaskGoesOn DEF LoseAnswer
<1>6. ASSUME NEW t \in Tasks, Acknowledged(t) PROVE IInv'
  <2>1. work' = [work EXCEPT ![t] = [work[t] EXCEPT !.stage = "reply"]]
    BY <1>6 DEF Acknowledged
  <2>. QED  BY <1>6, <2>1, TaskGoesOn DEF Acknowledged
<1>7. ASSUME NEW t \in Tasks, Failed(t) PROVE IInv'
  <2>1. CASE Stop
    BY <2>1, StopKeeps
  <2>2. CASE ~Stop
    <3>1. /\ work[t].stage \in {"failed", "conflict"}
          /\ lock' = Unlocked(t) /\ work' = [work EXCEPT ![t] = Idle]
          /\ store' = store /\ cloud' = cloud /\ unsaved' = unsaved /\ up' = up
      BY <1>7, <2>2 DEF Failed
    <3>. QED  BY <3>1, TaskGoesOn
  <2>. QED  BY <2>1, <2>2
<1>8. ASSUME NEW t \in Tasks, Reply(t) PROVE IInv'
  BY <1>8, TaskGoesOn DEF Reply
<1>9. CASE Stop
  BY <1>9, StopKeeps
<1>10. ASSUME NEW content \in Contents, Start(content) PROVE IInv'
  BY <1>10, StartKeeps
<1>. QED  BY <1>1, <1>2, <1>3, <1>4, <1>5, <1>6, <1>7, <1>8, <1>9, <1>10 DEF Next

------------------------------------------------------------------------------
(* The theorems                                                             *)

\* The inductive invariant of the in-place signer with a storage server.
THEOREM CloudInvariant == Spec => []IInv
  BY InitHolds, NextKeeps, PTL DEF Spec

\* What is being put, and what failed, are entries of the store.
THEOREM CloudTypes == Spec => []TypeOK
<1>1. IInv => TypeOK
  BY DEF IInv
<1>. QED  BY <1>1, CloudInvariant, PTL

\* A reply stands for something that the server does not have only when the put of that
\* very entry has failed, for an earlier request: the answer never precedes the put.
THEOREM RepliesFollowPuts == Spec => []AnsweredOrPutFailed
<1>1. IInv => AnsweredOrPutFailed
  BY DEF IInv, WroteFits, Covered, AnsweredOrPutFailed
<1>. QED  BY <1>1, CloudInvariant, PTL

\* The lock of the storage client keeps the versions in order: a put conflicts only when
\* an earlier one for the same key has failed.
THEOREM VersionsComeInOrder == Spec => []ConflictsOnlyAfterFailure
<1>1. IInv => ConflictsOnlyAfterFailure
  BY DEF IInv
<1>. QED  BY <1>1, CloudInvariant, PTL

\* A stop forgets only what is being put or could not be put.
THEOREM NothingElseIsForgotten == Spec => []MemoryIsOnServer
<1>1. IInv => MemoryIsOnServer
  BY DEF IInv
<1>. QED  BY <1>1, CloudInvariant, PTL

==============================================================================
