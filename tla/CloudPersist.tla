----------------------------- MODULE CloudPersist -----------------------------
(***************************************************************************)
(* Persistence to a storage server, in the signer that runs inside the     *)
(* hsmd process.  A request changes the node and, in its thread's persist  *)
(* context, the versioned copy of its entries; what changed is then put to *)
(* the server, and the reply leaves when the put has been acknowledged.    *)
(* The lock of the storage client is held from before the request until    *)
(* after the put.  A put or its answer may be lost, and the process may    *)
(* stop at any time; it comes back with the server's entries.              *)
(*                                                                         *)
(* The server is the one trusted to be correct: its HMACs are not part of  *)
(* the model, and a put that was under way when the process stopped has    *)
(* either been stored or never will be.  A request writes an entry at most *)
(* once, as every request of the code does.                                *)
(***************************************************************************)
EXTENDS Integers, Functions, TLC

CONSTANTS
    Keys,       \* the keys of the entries
    NodeKeys,   \* those of the entries that a new node writes before it serves
    Contents,   \* what an entry may say
    NoContent,  \* not one of them: of an entry that does not exist
    Clients,    \* the clients that were connected through another one
    Root,       \* the first client, with which the process ends
    Follower,   \* the chain follower
    Writes,     \* for each of these tasks, the sets of keys that its requests write
    MaxVersion  \* bound: the last version of an entry

Nobody == "nobody"

Tasks == Clients \cup {Root, Follower}

ASSUME CloudPersistAssumption ==
    /\ NodeKeys \subseteq Keys
    /\ NoContent \notin Contents
    /\ Root \notin Clients /\ Follower \notin Clients \cup {Root}
    /\ Nobody \notin Tasks
    /\ Writes \in [Tasks -> SUBSET SUBSET Keys]
    /\ MaxVersion \in Nat

VARIABLES
    store,    \* ExternalPersistWithHelper.state: the entries as the memory has them
    cloud,    \* the entries on the server
    lock,     \* the task that holds persist_client, or Nobody
    work,     \* for each task, how far its request is, and what is put for it
    unsaved,  \* history: the entries whose put has failed since the process started
    up        \* the process runs

vars == <<store, cloud, lock, work, unsaved, up>>

Absent == [version |-> -1, value |-> NoContent]

\* An entry as it was written for a key.
At(k, entry) == [key |-> k, entry |-> entry]

Idle == [stage |-> "idle", muts |-> [k \in {} |-> Absent], wrote |-> {}]

------------------------------------------------------------------------------
(* The memory's copy                                                        *)

\* An entry that stays as it is keeps its version and is not dirty.
do_insert(entry, value) ==
    IF entry.value = value THEN entry
    ELSE [version |-> entry.version + 1, value |-> value]

\* Mutant: only entries that are new are marked.
BugMarksNewOnly(before, after) ==
    Restrict(after, {k \in Keys : before[k] # after[k] /\ before[k] = Absent})

get_dirty(before, after) == Restrict(after, {k \in Keys : before[k] # after[k]})

\* The copy after a request that makes the entries of some keys say this.
Inserted(request) ==
    [k \in Keys |-> IF k \in DOMAIN request THEN do_insert(store[k], request[k]) ELSE store[k]]

------------------------------------------------------------------------------
(* The server                                                               *)

Conflicts(muts) == {k \in DOMAIN muts : muts[k].version # cloud[k].version + 1}

Stored(muts) == [k \in Keys |-> IF k \in DOMAIN muts THEN muts[k] ELSE cloud[k]]

------------------------------------------------------------------------------
(* The tasks                                                                *)

\* Nothing is on the server, and no process has run yet.
Init ==
    /\ store = [k \in Keys |-> Absent]
    /\ cloud = [k \in Keys |-> Absent]
    /\ lock = Nobody
    /\ work = [t \in Tasks |-> Idle]
    /\ unsaved = {}
    /\ up = FALSE

\* The lock, the handler and its context; the follower puts even when nothing changed.
\* Channels are made by the first client.  A request that is refused stops the process.
Serve(t, request, held) ==
    /\ up
    /\ lock = Nobody
    /\ work[t].stage = "idle"
    /\ t # Root => \A k \in DOMAIN request : store[k] # Absent
    /\ \A k \in Keys : Inserted(request)[k].version <= MaxVersion
    /\ LET muts == get_dirty(store, Inserted(request))
           wrote == {At(k, Inserted(request)[k]) : k \in DOMAIN request}
           puts == t = Follower \/ DOMAIN muts # {}
       IN  /\ store' = Inserted(request)
           /\ lock' = IF puts THEN held ELSE Nobody
           /\ work' = [work EXCEPT ![t] = [stage |-> IF puts THEN "put" ELSE "reply",
                                           muts |-> muts, wrote |-> wrote]]
    /\ UNCHANGED <<cloud, unsaved, up>>

\* Mutant: the lock is taken for the handler, and again for the put.
BugLocksTwice(t, request) == Serve(t, request, Nobody)

do_handle(t, request) == Serve(t, request, t)

\* The server has the put: it stores every entry of it or none.
put(t) ==
    /\ work[t].stage = "put"
    /\ IF Conflicts(work[t].muts) = {}
       THEN /\ cloud' = Stored(work[t].muts)
            /\ work' = [work EXCEPT ![t].stage = "stored"]
            /\ UNCHANGED unsaved
       ELSE /\ work' = [work EXCEPT ![t].stage = "conflict"]
            /\ unsaved' = unsaved \cup {At(k, work[t].muts[k]) : k \in DOMAIN work[t].muts}
            /\ UNCHANGED cloud
    /\ UNCHANGED <<store, lock, up>>

\* The put never comes to the server.
LosePut(t) ==
    /\ work[t].stage = "put"
    /\ work' = [work EXCEPT ![t].stage = "failed"]
    /\ unsaved' = unsaved \cup {At(k, work[t].muts[k]) : k \in DOMAIN work[t].muts}
    /\ UNCHANGED <<store, cloud, lock, up>>

\* The server has stored it, and its answer does not come.
LoseAnswer(t) ==
    /\ work[t].stage = "stored"
    /\ work' = [work EXCEPT ![t].stage = "failed"]
    /\ UNCHANGED <<store, cloud, lock, unsaved, up>>

Unlocked(t) == IF lock = t THEN Nobody ELSE lock

Acknowledged(t) ==
    /\ work[t].stage = "stored"
    /\ lock' = Unlocked(t)
    /\ work' = [work EXCEPT ![t].stage = "reply"]
    /\ UNCHANGED <<store, cloud, unsaved, up>>

Stop ==
    /\ up
    /\ up' = FALSE
    /\ store' = [k \in Keys |-> Absent]
    /\ lock' = Nobody
    /\ work' = [t \in Tasks |-> Idle]
    /\ unsaved' = {}
    /\ UNCHANGED cloud

\* Mutant: a client whose put failed has its reply all the same.
BugRepliesOnFailure(t) ==
    /\ work[t].stage \in {"failed", "conflict"}
    /\ lock' = Unlocked(t)
    /\ work' = [work EXCEPT ![t].stage = "reply"]
    /\ UNCHANGED <<store, cloud, unsaved, up>>

\* The error ends the loop of the client, and another connects for the same channel.
\* With the first client the process ends, and with the follower it aborts.
Failed(t) ==
    /\ work[t].stage \in {"failed", "conflict"}
    /\ \/ /\ t \in Clients
          /\ lock' = Unlocked(t)
          /\ work' = [work EXCEPT ![t] = Idle]
          /\ UNCHANGED <<store, cloud, unsaved, up>>
       \/ /\ t \notin Clients
          /\ Stop

\* The lock is given back before the reply is written.
Reply(t) ==
    /\ work[t].stage = "reply"
    /\ work' = [work EXCEPT ![t] = Idle]
    /\ UNCHANGED <<store, cloud, lock, unsaved, up>>

\* init_state and the building of the handler, which makes a node if there is none.
Start(content) ==
    /\ ~up
    /\ up' = TRUE
    /\ LET new == IF \A k \in NodeKeys : cloud[k] = Absent THEN NodeKeys ELSE {}
           built == [k \in Keys |-> IF k \in new THEN do_insert(cloud[k], content) ELSE cloud[k]]
           muts == get_dirty(cloud, built)
       IN  /\ store' = built
           /\ lock' = IF DOMAIN muts = {} THEN Nobody ELSE Root
           /\ work' = IF DOMAIN muts = {} THEN work
                      ELSE [work EXCEPT ![Root] = [stage |-> "put", muts |-> muts, wrote |-> {}]]
    /\ UNCHANGED <<cloud, unsaved>>

Next ==
    \/ \E t \in Tasks :
           \/ \E written \in Writes[t] : \E request \in [written -> Contents] : do_handle(t, request)
           \/ put(t)
           \/ LosePut(t)
           \/ LoseAnswer(t)
           \/ Acknowledged(t)
           \/ Failed(t)
           \/ Reply(t)
    \/ Stop
    \/ \E content \in Contents : Start(content)

Spec == Init /\ [][Next]_vars

------------------------------------------------------------------------------
(* Properties                                                               *)

Entries == [version : -1..MaxVersion, value : Contents \cup {NoContent}]

Mutations == UNION {[written -> Entries] : written \in SUBSET Keys}

Jobs == [stage : {"idle", "put", "stored", "failed", "conflict", "reply"},
         muts : Mutations,
         wrote : SUBSET [key : Keys, entry : Entries]]

\* The type invariant: what the tasks put and answer are entries of the store.
TypeOK ==
    /\ store \in [Keys -> Entries]
    /\ cloud \in [Keys -> Entries]
    /\ lock \in Tasks \cup {Nobody}
    /\ work \in [Tasks -> Jobs]
    /\ unsaved \subseteq [key : Keys, entry : Entries]
    /\ up \in BOOLEAN

\* The server has the entry, or a later version of it.
Durable(k, entry) == cloud[k] = entry \/ cloud[k].version > entry.version

\* A reply stands for something that is not on the server only when the put of that very
\* entry has failed before, for another request.
AnsweredOrPutFailed ==
    \A t \in Tasks : work[t].stage = "reply" =>
        \A w \in work[t].wrote :
            \/ Durable(w.key, w.entry)
            \/ w \in unsaved /\ w.key \notin DOMAIN work[t].muts

\* Puts come to the server in the order of their versions: one that conflicts, for all
\* the tasks at work, follows another for the same key that has failed.
ConflictsOnlyAfterFailure ==
    \A t \in Tasks : work[t].stage = "conflict" =>
        \E w \in unsaved :
            /\ w.key \in DOMAIN work[t].muts
            /\ w.entry.version = work[t].muts[w.key].version - 1

\* The memory is ahead of the server only by what is being put or could not be put, so
\* that a stop forgets nothing else.
MemoryIsOnServer ==
    up => \A k \in Keys :
        \/ store[k] = cloud[k]
        \/ At(k, store[k]) \in unsaved
        \/ \E t \in Tasks : work[t].stage = "put" /\ k \in DOMAIN work[t].muts

==============================================================================
