------------------------------ MODULE NodeLocks ------------------------------
(***************************************************************************)
(* The mutexes of a Node and the order in which the requests take them.    *)
(* When the signer runs inside the node's process (remote_hsmd_inplace)    *)
(* there is one task per connected client, and the chain follower's, all   *)
(* on the same Node; a remote signer (vlsd2, serial) has one task, which   *)
(* serves everybody.                                                       *)
(*                                                                         *)
(* A request is the sequence of lock and unlock steps its code makes; a    *)
(* MutexGuard's scope is Under(lock, body).  What is done with the data is *)
(* left out, as are the mutexes under which nothing else is locked         *)
(* (allowlist, validator_factory, the approver's).                         *)
(***************************************************************************)
EXTENDS Integers, Sequences, FiniteSetsExt

CONSTANTS
    Clients,          \* the connected clients: lightningd and its daemons
    Follower,         \* the chain follower's task
    Channels,         \* the channels of the node
    Deployments,      \* the ways the signer is run: see Init
    Nobody            \* the owner of a free mutex

Tasks == Clients \cup {Follower}

ASSUME NodeLocksAssumption ==
    /\ Follower \notin Clients
    /\ Nobody \notin Tasks
    /\ IsFiniteSet(Channels)
    /\ Deployments \subseteq [external_persist : BOOLEAN, tasks : SUBSET Tasks,
                               max_requests : Nat]

PersistClient == <<"persist_client">>
Tracker == <<"tracker">>
ChannelMap == <<"channels">>
State == <<"state">>
Slot(c) == <<"slot", c>>
Monitor(c) == <<"monitor", c>>

Mutexes == {PersistClient, Tracker, ChannelMap, State}
             \cup {Slot(c) : c \in Channels} \cup {Monitor(c) : c \in Channels}

VARIABLES
    deployment, \* how this signer is run, for good
    owner,      \* the task that holds each mutex, or Nobody
    todo,       \* the steps of its request that each task still has to make
    made        \* the number of requests each task has begun

vars == <<deployment, owner, todo, made>>

------------------------------------------------------------------------------
(* The requests                                                             *)

Lock(m) == [op |-> "lock", mutex |-> m]
Unlock(m) == [op |-> "unlock", mutex |-> m]

Under(m, body) == <<Lock(m)>> \o body \o <<Unlock(m)>>
Briefly(m) == Under(m, <<>>)
ForEach(cs, body) == FoldSet(LAMBDA c, s : s \o body[c], <<>>, cs)

\* Node::get_channel gives the map back before the slot is locked.
with_ready_channel(c, body) == Briefly(ChannelMap) \o Under(Slot(c), body)

\* Most requests of a channel: the payments and the chain state are read under its slot.
channel_request(c) == with_ready_channel(c, Under(State, Briefly(Monitor(c))))

\* known: the map already holds the channel.
new_channel(c, known) ==
    Under(ChannelMap, IF known THEN Briefly(Slot(c)) ELSE Briefly(Tracker))

\* The tracker's entry has the state of every monitor.
update_tracker == ForEach(Channels, [c \in Channels |-> Briefly(Monitor(c))])

\* Mutant: the map stays locked when the channel is put back into it.
BugReadyChannelKeepsMap(c, ready) ==
    Under(Tracker, Under(ChannelMap, Briefly(Slot(c))
                           \o IF ready THEN <<>> ELSE Under(ChannelMap, update_tracker)))

\* ready: the channel is ready already, or what is asked for is refused.
ready_channel(c, ready) ==
    Under(Tracker, Under(ChannelMap, Briefly(Slot(c)))
                     \o IF ready THEN <<>> ELSE Under(ChannelMap, update_tracker))

prune_channels == Under(ChannelMap, ForEach(Channels, [c \in Channels |-> Briefly(Slot(c))]))

\* Mutant: the state is kept while the channels are pruned.
BugHeartbeatKeepsState == Under(State, Under(Tracker, prune_channels))

get_heartbeat == Briefly(State) \o Under(Tracker, prune_channels)

find_channel_with_funding_outpoint == ForEach(Channels, [c \in Channels |-> Briefly(Slot(c))])

\* funded: the channels that an output of the transaction funds.
check_onchain_tx(funded) ==
    Under(ChannelMap, find_channel_with_funding_outpoint
                        \o ForEach(funded, [c \in funded |-> Briefly(Slot(c))]))
      \o Briefly(State)

unchecked_sign_onchain_tx(funded) ==
    Under(ChannelMap, find_channel_with_funding_outpoint
                        \o Under(Tracker, ForEach(funded, [c \in funded |->
                                             Under(Slot(c), Briefly(Monitor(c)))])
                                            \o update_tracker))

\* swept: the channels whose closing outputs are spent.
SignWithdrawal(swept, funded) ==
    ForEach(swept, [c \in swept |-> with_ready_channel(c, <<>>)])
      \o check_onchain_tx(funded) \o unchecked_sign_onchain_tx(funded)

\* Every monitor is told of the block; then the tracker is persisted.
add_block ==
    Under(Tracker, ForEach(Channels, [c \in Channels |-> Briefly(Monitor(c))]) \o update_tracker)

RequestScripts ==
    [ NewChannel     |-> {new_channel(c, known) : c \in Channels, known \in BOOLEAN},
      ReadyChannel   |-> {ready_channel(c, ready) : c \in Channels, ready \in BOOLEAN},
      ChannelRequest |-> {channel_request(c) : c \in Channels},
      SignWithdrawal |-> {SignWithdrawal(swept, funded) :
                              swept \in SUBSET Channels, funded \in SUBSET Channels},
      Invoice        |-> {Briefly(State)},
      AddBlock       |-> {add_block},
      TipInfo        |-> {Briefly(Tracker)},
      GetHeartbeat   |-> {get_heartbeat} ]

\* With cloud persistence, requests are served under the lock of the cloud client.
do_handle(script) == IF deployment.external_persist THEN Under(PersistClient, script) ELSE script

\* NodeFront: the follower's heartbeat and tip_info are not under that lock.
FollowerScripts ==
    [ AddBlock |-> do_handle(add_block),
      TipInfo  |-> Briefly(Tracker),
      Beat     |-> get_heartbeat ]

------------------------------------------------------------------------------
(* The tasks                                                                *)

\* A deployment says whether the signer persists to the cloud (VLS_LSS), which tasks it
\* has, and how many requests each makes.
Init ==
    /\ deployment \in Deployments
    /\ owner = [m \in Mutexes |-> Nobody]
    /\ todo = [t \in Tasks |-> <<>>]
    /\ made = [t \in Tasks |-> 0]

Begin(t, scripts) ==
    /\ todo[t] = <<>>
    /\ t \in deployment.tasks /\ made[t] < deployment.max_requests
    /\ \E script \in scripts : todo' = [todo EXCEPT ![t] = script]
    /\ made' = [made EXCEPT ![t] = @ + 1]
    /\ UNCHANGED <<deployment, owner>>

Take(t) ==
    /\ todo[t] # <<>>
    /\ Head(todo[t]).op = "lock"
    /\ owner[Head(todo[t]).mutex] = Nobody
    /\ owner' = [owner EXCEPT ![Head(todo[t]).mutex] = t]
    /\ todo' = [todo EXCEPT ![t] = Tail(@)]
    /\ UNCHANGED <<deployment, made>>

Give(t) ==
    /\ todo[t] # <<>>
    /\ Head(todo[t]).op = "unlock"
    /\ owner' = [owner EXCEPT ![Head(todo[t]).mutex] = Nobody]
    /\ todo' = [todo EXCEPT ![t] = Tail(@)]
    /\ UNCHANGED <<deployment, made>>

Next ==
    \/ \E t \in Clients, r \in DOMAIN RequestScripts :
          Begin(t, {do_handle(script) : script \in RequestScripts[r]})
    \/ \E r \in DOMAIN FollowerScripts : Begin(Follower, {FollowerScripts[r]})
    \/ \E t \in Tasks : Take(t)
    \/ \E t \in Tasks : Give(t)

\* A task that can go on does.  Who gets a contended mutex is left open: with the
\* requests bounded, a task that waits is not overtaken for ever.
Spec == Init /\ [][Next]_vars /\ \A t \in Tasks : WF_vars(Take(t) \/ Give(t))

------------------------------------------------------------------------------
(* Properties                                                               *)

\* t waits for a mutex that u holds.
WaitsFor(t, u) ==
    /\ todo[t] # <<>>
    /\ Head(todo[t]).op = "lock"
    /\ owner[Head(todo[t]).mutex] = u

\* Everyone in S waits for someone in S.
Circle(S) == S # {} /\ \A t \in S : \E u \in S : WaitsFor(t, u)

\* t is where new_channel and unchecked_sign_onchain_tx take the tracker under the map, and
\* u where ready_channel and get_heartbeat take the map under the tracker.
Crossed(t, u) ==
    /\ owner[ChannelMap] = t /\ Head(todo[t]) = Lock(Tracker)
    /\ owner[Tracker] = u /\ Head(todo[u]) = Lock(ChannelMap)

\* No tasks wait for one another in a circle, nor does one for itself: "ensure no
\* deadlock" of the comment in Node::unchecked_sign_onchain_tx.  It is not so.
NoCircularWait == \A S \in SUBSET Tasks : ~Circle(S)

\* What is so in every deployment, whatever is asked: whenever tasks wait in a circle, two
\* of them have the map and the tracker and each wants the other's.  With the cloud, where
\* requests are serialised, one of the two is the follower's heartbeat.  Every other nesting
\* of the five kinds of mutex is in one order, and a task alone is never stuck.
OnlyMapAndTrackerCross ==
    \A S \in SUBSET Tasks : Circle(S) =>
        \E t, u \in S :
            /\ t # u /\ Crossed(t, u)
            /\ deployment.external_persist => u = Follower

\* Whenever requests have begun there comes a time when all have ended and no mutex is left
\* locked, or when the map and the tracker are crossed.
RequestsEnd ==
    (\E t \in Tasks : todo[t] # <<>>) ~>
        \/ /\ \A t \in Tasks : todo[t] = <<>>
           /\ \A m \in Mutexes : owner[m] = Nobody
        \/ \E t, u \in deployment.tasks : t # u /\ Crossed(t, u)

==============================================================================
