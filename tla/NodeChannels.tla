----------------------------- MODULE NodeChannels -----------------------------
(***************************************************************************)
(* The map of a node's channels: stubs are made, become ready and are      *)
(* pruned, and the chain tracker gets a listener, the channel's monitor,   *)
(* for every ready channel.  The map, the tracker and the disk are changed *)
(* one after the other, under the locks of the map and the tracker, and    *)
(* the signer can stop between any two of the writes.                      *)
(*                                                                         *)
(* A channel keeps its first id for good, as with every handler of the     *)
(* code.  The disk is the one of KVJsonPersister, whose writes either      *)
(* happen or panic.                                                        *)
(***************************************************************************)
EXTENDS Integers, FiniteSets, SequencesExt

CONSTANTS
    ChannelIds,  \* ids made of a peer and a number
    Outpoints,   \* funding outpoints
    Terms,       \* all else that a ChannelSetup says
    MaxChannels, \* policy.max_channels
    PruneBlocks, \* CHANNEL_STUB_PRUNE_BLOCKS
    BaseHeight,  \* the height at which the node is made, above 0
    MaxHeight    \* bound: the last height

ASSUME NodeChannelsAssumption ==
    /\ IsFiniteSet(ChannelIds)
    /\ {MaxChannels, PruneBlocks, BaseHeight, MaxHeight} \subseteq Nat
    /\ 0 < BaseHeight /\ BaseHeight <= MaxHeight

VARIABLES
    channels, \* Node.channels: a function from ids to slots
    tracker,  \* ChainTracker: its height, and the monitor at each funding outpoint
    stored,   \* the persisted channels and tracker
    writes,   \* the writes that are left of the request being served
    answered, \* the setups that the caller was told are ready
    status    \* "up", or "panic" when an assertion about the disk has failed

mapVars == <<channels, tracker, stored, writes, answered, status>>

Setups == [outpoint : Outpoints, terms : Terms]

\* A monitor is named after the channel it was made for.
Stub(blockheight) == [kind |-> "stub", blockheight |-> blockheight]
Ready(setup, monitor) == [kind |-> "ready", setup |-> setup, monitor |-> monitor]

IsReady(slot) == slot.kind = "ready"

Put(f, k, v) == [x \in {k} \cup DOMAIN f |-> IF x = k THEN v ELSE f[x]]
Drop(f, k) == Restrict(f, DOMAIN f \ {k})

MapInit ==
    /\ channels = <<>>
    /\ tracker = [height |-> BaseHeight, listeners |-> <<>>]
    /\ stored = [channels |-> <<>>, tracker |-> tracker]
    /\ writes = <<>>
    /\ answered = <<>>
    /\ status = "up"

Idle == status = "up" /\ writes = <<>>

------------------------------------------------------------------------------
(* Requests: what they do in memory, and the writes that follow             *)

\* An id that exists is answered without a change, unless the map is full.
new_channel(id) ==
    /\ Idle
    /\ Cardinality(DOMAIN channels) < MaxChannels
    /\ id \notin DOMAIN channels
    /\ channels' = Put(channels, id, Stub(tracker.height))
    /\ writes' = <<[op |-> "new_channel", id |-> id]>>
    /\ UNCHANGED <<tracker, stored, answered, status>>

\* Mutant: the channel is written before the tracker.
BugChannelWrittenFirst(id, setup) ==
    /\ channels' = Put(channels, id, Ready(setup, id))
    /\ tracker' = [tracker EXCEPT !.listeners = Put(@, setup.outpoint, id)]
    /\ writes' = <<[op |-> "update_channel", id |-> id], [op |-> "update_tracker"]>>
    /\ UNCHANGED answered

\* The stub becomes a channel with a new monitor, which replaces any other listener at
\* the outpoint.
Promote(id, setup) ==
    /\ channels' = Put(channels, id, Ready(setup, id))
    /\ tracker' = [tracker EXCEPT !.listeners = Put(@, setup.outpoint, id)]
    /\ writes' = <<[op |-> "update_tracker"], [op |-> "update_channel", id |-> id]>>
    /\ UNCHANGED answered

\* Mutant: a channel that is ready takes another setup.
BugReadyTwice(id, setup) ==
    /\ Idle
    /\ id \in DOMAIN channels
    /\ Promote(id, setup)
    /\ UNCHANGED <<stored, status>>

\* The setup has passed validate_ready_channel; one that has not changes nothing.
ready_channel(id, setup) ==
    /\ Idle
    /\ id \in DOMAIN channels
    /\ IF IsReady(channels[id])
       THEN /\ channels[id].setup = setup
            /\ answered' = Put(answered, id, setup)
            /\ UNCHANGED <<channels, tracker, writes>>
       ELSE Promote(id, setup)
    /\ UNCHANGED <<stored, status>>

\* Blocks reach the map only as heights.
SetHeight(height) ==
    /\ Idle
    /\ height \in {tracker.height - 1, tracker.height + 1} \cap 1..MaxHeight
    /\ tracker' = [tracker EXCEPT !.height = height]
    /\ writes' = <<[op |-> "update_tracker"]>>
    /\ UNCHANGED <<channels, stored, answered, status>>

Prunable ==
    {id \in DOMAIN channels :
        /\ ~IsReady(channels[id])
        /\ tracker.height - channels[id].blockheight > PruneBlocks}

\* Mutant: the stubs stay on the disk.
BugPrunesMemoryOnly ==
    /\ Idle
    /\ channels' = Restrict(channels, DOMAIN channels \ Prunable)
    /\ UNCHANGED <<tracker, stored, writes, answered, status>>

\* Called by the heartbeat.  A height below that of the stub counts as 0 blocks.
prune_channels ==
    /\ Idle
    /\ channels' = Restrict(channels, DOMAIN channels \ Prunable)
    /\ writes' = [i \in 1..Cardinality(Prunable) |->
                     [op |-> "delete_channel", id |-> SetToSeq(Prunable)[i]]]
    /\ UNCHANGED <<tracker, stored, answered, status>>

------------------------------------------------------------------------------
(* The persister                                                            *)

\* "already exists" and "does not exist when updating" abort the transaction.
WriteOk(w) ==
    CASE w.op = "new_channel"    -> w.id \notin DOMAIN stored.channels
      [] w.op = "update_channel" -> w.id \in DOMAIN stored.channels
      [] OTHER                   -> TRUE

Written(w) ==
    CASE w.op = "update_tracker" -> [stored EXCEPT !.tracker = tracker]
      [] w.op = "delete_channel" -> [stored EXCEPT !.channels = Drop(@, w.id)]
      [] OTHER                   -> [stored EXCEPT !.channels = Put(@, w.id, channels[w.id])]

\* One write; the answer leaves with the last one.
WriteNext ==
    /\ status = "up"
    /\ writes # <<>>
    /\ LET w == Head(writes) IN
       IF WriteOk(w)
       THEN /\ stored' = Written(w)
            /\ writes' = Tail(writes)
            /\ answered' = IF w.op = "update_channel"
                           THEN Put(answered, w.id, channels[w.id].setup) ELSE answered
            /\ UNCHANGED status
       ELSE status' = "panic" /\ UNCHANGED <<stored, writes, answered>>
    /\ UNCHANGED <<channels, tracker>>

\* Mutant: a restored channel gets a monitor of its own.
BugMakesMonitor(id, entry, listeners) ==
    IF IsReady(entry) THEN Ready(entry.setup, <<"restored", id>>) ELSE entry

\* The monitor of a restored channel is the one the tracker has at its outpoint.
restore_channel(id, entry, listeners) ==
    IF IsReady(entry) THEN Ready(entry.setup, listeners[entry.setup.outpoint]) ELSE entry

\* The signer stops, wherever it is, and starts again: restore_node.
RestartNode ==
    /\ writes' = <<>>
    /\ tracker' = stored.tracker
    /\ IF \A id \in DOMAIN stored.channels :
             IsReady(stored.channels[id]) =>
                 stored.channels[id].setup.outpoint \in DOMAIN stored.tracker.listeners
       THEN /\ channels' = [id \in DOMAIN stored.channels |->
                               restore_channel(id, stored.channels[id], stored.tracker.listeners)]
            /\ status' = "up"
       ELSE channels' = <<>> /\ status' = "panic"
    /\ UNCHANGED <<stored, answered>>

MapNext ==
    \/ \E id \in ChannelIds : new_channel(id)
    \/ \E id \in ChannelIds, setup \in Setups : ready_channel(id, setup)
    \/ \E height \in 1..MaxHeight : SetHeight(height)
    \/ prune_channels
    \/ WriteNext
    \/ RestartNode

MapSpec == MapInit /\ [][MapNext]_mapVars

------------------------------------------------------------------------------
(* Properties                                                               *)

\* A channel that the caller was told is ready stays so, with the same setup, in memory
\* and on the disk, whatever is pruned and whenever the signer restarts.
ReadyForGood ==
    status = "up" =>
        \A id \in DOMAIN answered, map \in {channels, stored.channels} :
            /\ id \in DOMAIN map
            /\ IsReady(map[id])
            /\ map[id].setup = answered[id]

\* restore_channel finds the monitor of every ready channel ("monitor key"), and what is
\* made or updated is on the disk exactly if it should be.
NeverPanics == status # "panic"

\* Between requests nothing is in memory that a restart would lose, and nothing on the
\* disk that it would bring back.
MemoryIsDurable ==
    Idle =>
        /\ tracker = stored.tracker
        /\ DOMAIN channels = DOMAIN stored.channels
        /\ \A id \in DOMAIN channels :
              /\ IsReady(channels[id]) <=> IsReady(stored.channels[id])
              /\ IF IsReady(channels[id])
                 THEN channels[id].setup = stored.channels[id].setup
                 ELSE channels[id] = stored.channels[id]

\* The tracker feeds the monitor that a ready channel reads its chain state from, also
\* after a ready_channel that was cut off, as long as no other ready channel was given
\* the same outpoint.
MonitorIsFed ==
    status = "up" =>
        \A id \in DOMAIN channels :
            LET outpoint == channels[id].setup.outpoint
                Shares(other) == /\ other # id
                                 /\ IsReady(channels[other])
                                 /\ channels[other].setup.outpoint = outpoint
            IN  (IsReady(channels[id]) /\ ~\E other \in DOMAIN channels : Shares(other)) =>
                    /\ outpoint \in DOMAIN tracker.listeners
                    /\ tracker.listeners[outpoint] = channels[id].monitor

==============================================================================
