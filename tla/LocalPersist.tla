----------------------------- MODULE LocalPersist -----------------------------
(***************************************************************************)
(* The persisters that keep a node on storage of its own, and the start of *)
(* a signer from what they kept:                                           *)
(*   kv      KVJsonPersister: buckets of a store with a write cache;       *)
(*   fat     FatJsonPersister: files on the card of the embedded signer,   *)
(*           one per entry, each replaced through its .new and .old names; *)
(*   backup  BackupPersister: every entry in a main store and in a backup, *)
(*           which are the two of its test: maps whose every write inserts *)
(*           (the backup is a ThreadMemoPersister);                        *)
(*   kvbackup  BackupPersister with a KVJsonPersister for the main store,  *)
(*           whose new_* calls require that the entry is not there and     *)
(*           whose update_channel requires that it is.                     *)
(* A call of a persister is a sequence of steps on the storage.  The power *)
(* can fail between any two of them, and the main store of a backup can be *)
(* lost while the signer is down.  The embedded signer finds out from its  *)
(* card which node to run; nodes are made and deleted in its setup mode.   *)
(*                                                                         *)
(* The file system and the store of kv are libraries: a rename, and a step *)
(* on a store, happens or does not.                                        *)
(***************************************************************************)
EXTENDS Integers, FiniteSets, SequencesExt, SetupFS

CONSTANTS
    Deployments,   \* the persisters of the signers considered
    Channels,      \* the first ids of channels
    Unreadable,    \* bytes that do not parse as an entry
    MaxVersion,    \* bound: how often an entry changes
    MaxCrashes     \* bound: how often the power fails within a call, or a store is lost

Keys == {"node", "nodestate", "tracker", "allowlist"} \cup Channels

\* The names of an entry: in the cache and on the disk (kv), the three of a file (fat),
\* in the main and in the backup store.
Slots == {"cache", "disk", "new", "json", "old", "main", "backup"}

ASSUME LocalPersistAssumption ==
    /\ Deployments \subseteq {"kv", "fat", "backup", "kvbackup"}
    /\ IsFiniteSet(Channels)
    /\ Cardinality({None, Unreadable, Emptied, Full}) = 4
    /\ MaxVersion \in Nat /\ MaxCrashes \in Nat

VARIABLES
    deployment,
    card,        \* the files that select a node (fat)
    stored,      \* the storage: for each key and slot, what is there
    memory,      \* the node: for each key, the entry it would write
    todo,        \* the steps of the calls that the request still has to make
    phase,       \* down; initializing, menu, setup, deleting, selected, testing (fat); creating, restoring or
                 \* recovering (do_build); up; serving; panicked
    restored,    \* BackupPersister.initial_restore_complete
    acked,       \* history: the memory as the last answer left it
    asked,       \* history: the memory as the last request would leave it
    cut,         \* history: what power failures have cut short
    crashes      \* history: how many of them there were, and of losses

storage == <<deployment, card, stored>>
history == <<acked, asked, cut, crashes>>
vars == <<deployment, card, stored, memory, todo, phase, restored, acked, asked, cut, crashes>>

HasBackup == deployment \in {"backup", "kvbackup"}

SetupPhases == {"initializing", "setup", "deleting"}

\* An entry: its version, and the channels it is about.  The tracker's are those it has
\* a listener for; a channel's entry is about itself from the time it has a setup.
Entry(version, channels) == [version |-> version, channels |-> channels]

Contents == [version : 0..MaxVersion, channels : SUBSET Channels]

Stub == Entry(0, {})

IsStub(entry) == entry # None /\ entry.channels = {}

NoMemory == [k \in Keys |-> None]

------------------------------------------------------------------------------
(* Steps on the storage.  Each has the set of the storages it may leave; an  *)
(* empty set is an error.                                                    *)

Put(s, k, slot, entry) == [s EXCEPT ![k][slot] = entry]

\* create_file opens a file that is there and does not truncate it: a .new that a power
\* failure left may be longer than the value.
write_new_file(s, k, entry) ==
    {Put(s, k, "new", entry)}
        \cup (IF s[k]["new"] = None THEN {} ELSE {Put(s, k, "new", Unreadable)})

\* NotFound without the one name, AlreadyExists with the other.
rename(s, k, from, to) ==
    IF s[k][from] # None /\ s[k][to] = None
    THEN {Put(Put(s, k, to, s[k][from]), k, from, None)}
    ELSE {}

retire_cur_file(s, k) == rename(s, k, "json", "old")

replace_file(s, k) == rename(s, k, "new", "json")

expunge_old_file(s, k) == IF s[k]["old"] = None THEN {} ELSE {Put(s, k, "old", None)}

Set(s, k, entry) == {Put(s, k, "cache", entry)}

\* Of the bucket, in which no other entry is waiting.
flush(s, k) == {Put(s, k, "disk", s[k]["cache"])}

contains(s, k) == s[k]["cache"] # None

recovery_required(s) == s["node"]["main"] = None

main_is_ready(s) == ~recovery_required(s) \/ restored

Main(s, k, entry) == {IF main_is_ready(s) THEN Put(s, k, "main", entry) ELSE s}

\* What a KVJsonPersister asserts of an entry, or aborts its transaction on.
MainHas(s, k, there) ==
    IF main_is_ready(s) /\ deployment = "kvbackup" /\ there # (s[k]["main"] # None)
    THEN {} ELSE {s}

\* Every write of a ThreadMemoPersister inserts.
Backup(s, k, entry) == {Put(s, k, "backup", entry)}

Do(step, s) ==
    CASE step.do = "write_new" -> write_new_file(s, step.key, step.entry)
      [] step.do = "retire"    -> retire_cur_file(s, step.key)
      [] step.do = "replace"   -> replace_file(s, step.key)
      [] step.do = "expunge"   -> expunge_old_file(s, step.key)
      [] step.do = "absent"    -> IF contains(s, step.key) THEN {} ELSE {s}
      [] step.do = "present"   -> IF contains(s, step.key) THEN {s} ELSE {}
      [] step.do = "set"       -> Set(s, step.key, step.entry)
      [] step.do = "flush"     -> flush(s, step.key)
      [] step.do = "main_absent"  -> MainHas(s, step.key, FALSE)
      [] step.do = "main_present" -> MainHas(s, step.key, TRUE)
      [] step.do = "main"      -> Main(s, step.key, step.entry)
      [] step.do = "backup"    -> Backup(s, step.key, step.entry)

\* "ok if it's not there".
Outcomes(step, s) ==
    IF step.ok /\ Do(step, s) = {} THEN {s} ELSE Do(step, s)

------------------------------------------------------------------------------
(* FatJsonPersister                                                         *)

Step(do, k, entry) == [do |-> do, key |-> k, entry |-> entry, ok |-> FALSE]

Ok(step) == [step EXCEPT !.ok = TRUE]

upsert_value(k, entry) ==
    <<Step("write_new", k, entry), Ok(Step("retire", k, None)),
      Step("replace", k, None), Ok(Step("expunge", k, None))>>

insert_value(k, entry) == <<Step("write_new", k, entry), Step("replace", k, None)>>


update_value(k, entry) ==
    <<Step("write_new", k, entry), Step("retire", k, None),
      Step("replace", k, None), Step("expunge", k, None)>>

delete_value(k) == <<Step("retire", k, None), Step("expunge", k, None)>>

read_value(k) == stored[k]["json"]

\* "bad file": any name but <key>.json in the bucket.
list_keys_fails == \E c \in Channels : stored[c]["new"] # None \/ stored[c]["old"] # None

FatNode(m) == insert_value("node", m["node"]) \o upsert_value("nodestate", m["nodestate"])

FatTracker(m) == upsert_value("tracker", m["tracker"])

FatAllowlist(m) == upsert_value("allowlist", m["allowlist"])

------------------------------------------------------------------------------
(* KVJsonPersister                                                          *)

Save(k, entry) == <<Step("set", k, entry), Step("flush", k, None)>>

KVNode(m) ==
    <<Step("absent", "node", None)>> \o Save("nodestate", m["nodestate"])
        \o Save("node", m["node"])

KVTracker(m) == <<Step("absent", "tracker", None)>> \o Save("tracker", m["tracker"])

KVNewChannel(c, entry) == <<Step("absent", c, None)>> \o Save(c, entry)

\* Mutant: the write is left to the cache.
KVUpdateChannelUnflushed(c, entry) ==
    <<Step("present", c, None), Step("set", c, entry)>>

KVUpdateChannel(c, entry) == <<Step("present", c, None)>> \o Save(c, entry)

------------------------------------------------------------------------------
(* BackupPersister: "The main persister is written to first."               *)

Both(k, entry) == <<Step("main", k, entry), Step("backup", k, entry)>>

BothNew(k, entry) == <<Step("main_absent", k, None)>> \o Both(k, entry)

BothUpdate(k, entry) == <<Step("main_present", k, None)>> \o Both(k, entry)

BackupNode(m) ==
    <<Step("main_absent", "node", None),
      Step("main", "nodestate", m["nodestate"]), Step("main", "node", m["node"]),
      Step("backup", "nodestate", m["nodestate"]), Step("backup", "node", m["node"])>>

------------------------------------------------------------------------------
(* The calls of a persister, by what they write                             *)

On(kv, fat, backup) ==
    CASE deployment = "kv"  -> kv
      [] deployment = "fat" -> fat
      [] HasBackup          -> backup

new_node(m) == On(KVNode(m), FatNode(m), BackupNode(m))

new_chain_tracker(m) == On(KVTracker(m), FatTracker(m), BothNew("tracker", m["tracker"]))

update_node_allowlist(m) ==
    On(Save("allowlist", m["allowlist"]), FatAllowlist(m), Both("allowlist", m["allowlist"]))

\* update_node and update_tracker.
update(k, m) == On(Save(k, m[k]), update_value(k, m[k]), Both(k, m[k]))

new_channel(c, m) ==
    On(KVNewChannel(c, m[c]), insert_value(c, m[c]), BothNew(c, m[c]))

update_channel(c, m) ==
    On(KVUpdateChannel(c, m[c]), update_value(c, m[c]), BothUpdate(c, m[c]))

delete_channel(c) == On(Save(c, None), delete_value(c), Both(c, None))

------------------------------------------------------------------------------
(* The start of a signer                                                    *)

\* Node::new, with the allowlist of the configuration.
NewNode ==
    [k \in Keys |-> IF k \in Channels THEN None ELSE Entry(0, {})]

\* Where a get_* call reads.
ReadSlot ==
    On("disk", "json", IF main_is_ready(stored) THEN "main" ELSE "backup")

Read(k) == stored[k][ReadSlot]

\* None of the nodes' entries.
no_nodes == IF deployment = "fat" THEN read_value("node") = None ELSE Read("node") = None

Readable(k) == Read(k) \notin {None, Unreadable}

get_nodes_fails == ~Readable("node") \/ ~Readable("nodestate")

\* kv and backup answer an empty list for an allowlist that is not there.
get_node_allowlist ==
    IF deployment # "fat" /\ Read("allowlist") = None THEN Entry(0, {}) ELSE Read("allowlist")

get_tracker_fails == ~Readable("tracker")

get_node_channels_fails ==
    deployment = "fat" /\ (list_keys_fails \/ \E c \in Channels : read_value(c) = Unreadable)

\* "monitor key".
restore_channel_fails ==
    \E c \in Channels : Readable(c) /\ ~(Read(c).channels \subseteq Read("tracker").channels)

CanRestore ==
    /\ ~get_nodes_fails
    /\ get_node_allowlist \notin {None, Unreadable}
    /\ ~get_tracker_fails
    /\ ~get_node_channels_fails
    /\ ~restore_channel_fails

restore_node == [[k \in Keys |-> Read(k)] EXCEPT !["allowlist"] = get_node_allowlist]

\* on_initial_restore is TRUE of a BackupPersister only.  A stub is not written.
maybe_sync_persister(m) ==
    IF ~HasBackup THEN <<>>
    ELSE LET ready == SetToSeq({c \in Channels : m[c] # None /\ ~IsStub(m[c])})
         IN  new_node(m) \o update_node_allowlist(m) \o update("tracker", m)
                \o FlattenSeq([i \in 1..Len(ready) |-> update_channel(ready[i], m)])

\* add_allowlist persists the allowlist before the node exists.
Create ==
    /\ no_nodes
    /\ memory' = NewNode
    /\ asked' = IF acked = NoMemory THEN NewNode ELSE asked
    /\ todo' = update_node_allowlist(NewNode) \o new_node(NewNode) \o new_chain_tracker(NewNode)
    /\ phase' = "creating"
    /\ UNCHANGED restored

Restore ==
    /\ ~no_nodes
    /\ CanRestore
    /\ memory' = restore_node
    /\ todo' = maybe_sync_persister(restore_node)
    /\ restored' = HasBackup
    /\ phase' = IF todo' = <<>> THEN "up"
                ELSE IF main_is_ready(stored) THEN "restoring" ELSE "recovering"
    /\ UNCHANGED asked

FailToRestore ==
    /\ ~no_nodes
    /\ ~CanRestore
    /\ phase' = "panicked"
    /\ UNCHANGED <<memory, todo, restored, asked>>

do_build ==
    /\ phase = IF deployment = "fat" THEN "selected" ELSE "down"
    /\ deployment = "fat" => card["RUNPATH"] = NodeDir /\ context_ok(card, NodeDir)
    /\ Create \/ Restore \/ FailToRestore
    /\ UNCHANGED <<storage, acked, cut, crashes>>

------------------------------------------------------------------------------
(* Requests                                                                 *)

\* A request changes the memory, then makes its calls.
Request(m, calls) ==
    /\ phase = "up"
    /\ memory' = m
    /\ acked' = memory
    /\ asked' = m
    /\ todo' = calls
    /\ phase' = "serving"
    /\ UNCHANGED <<storage, restored, cut, crashes>>

Next1(entry) == [entry EXCEPT !.version = @ + 1]

Changes(k) == memory[k] # None /\ memory[k].version < MaxVersion

NewChannel(c) ==
    /\ memory[c] = None
    /\ LET m == [memory EXCEPT ![c] = Stub] IN Request(m, new_channel(c, m))

SetupChannel(c) ==
    /\ IsStub(memory[c])
    /\ Changes("tracker")
    /\ LET m == [memory EXCEPT ![c].channels = {c},
                     !["tracker"] = [Next1(@) EXCEPT !.channels = @ \cup {c}]]
       IN  Request(m, update("tracker", m) \o update_channel(c, m))

UpdateChannel(c) ==
    /\ Changes(c) /\ ~IsStub(memory[c])
    /\ LET m == [memory EXCEPT ![c] = Next1(@)] IN Request(m, update_channel(c, m))

\* NewInvoice and the like, and blocks.
Update(k) ==
    /\ Changes(k)
    /\ LET m == [memory EXCEPT ![k] = Next1(@)] IN Request(m, update(k, m))

UpdateAllowlist ==
    /\ Changes("allowlist")
    /\ LET m == [memory EXCEPT !["allowlist"] = Next1(@)]
       IN  Request(m, update_node_allowlist(m))

\* prune_channels, of a stub that has become old.
PruneChannel(c) ==
    /\ IsStub(memory[c])
    /\ Request([memory EXCEPT ![c] = None], delete_channel(c))

\* A step, with which the start or the request may be over.
Persist ==
    /\ todo # <<>> /\ phase \notin SetupPhases
    /\ stored' \in Outcomes(Head(todo), stored)
    /\ todo' = Tail(todo)
    /\ phase' = IF todo' = <<>> THEN "up" ELSE phase
    /\ acked' = IF todo' = <<>> /\ phase \in {"creating", "serving"} THEN memory ELSE acked
    /\ UNCHANGED <<deployment, card, memory, restored, asked, cut, crashes>>

Stop(ending) ==
    /\ phase' = ending
    /\ memory' = NoMemory
    /\ todo' = <<>>
    /\ restored' = FALSE

\* "handle", "channel was in storage but not in memory", "new transaction": an error ends
\* the process; in a start, the start has failed.
PersistFails ==
    /\ todo # <<>> /\ phase \notin SetupPhases
    /\ Outcomes(Head(todo), stored) = {}
    /\ Stop(IF phase = "serving" THEN "down" ELSE "panicked")
    /\ UNCHANGED <<storage, acked, asked, cut, crashes>>

\* The cache may have been written in part; so may the file that was being written.
Remains ==
    LET cached == {[k \in Keys |->
                       LET kept == IF k \in lost THEN stored[k]["disk"] ELSE stored[k]["cache"]
                       IN  [stored[k] EXCEPT !["disk"] = kept, !["cache"] = kept]] :
                   lost \in SUBSET {k \in Keys : stored[k]["cache"] # stored[k]["disk"]}}
        torn == IF todo # <<>> /\ phase \notin SetupPhases /\ Head(todo).do = "write_new"
                THEN {Put(stored, Head(todo).key, "new", Unreadable)}
                ELSE {}
    IN  cached \cup torn

\* A call of which only the removal of the old file is left; of a channel's file the start
\* lists the names.
Replaced == Head(todo).do = "expunge" /\ Head(todo).key \notin Channels

Crash ==
    /\ todo # <<>>
    /\ crashes < MaxCrashes
    /\ stored' \in Remains
    /\ crashes' = crashes + 1
    /\ cut' = cut \cup {IF phase = "serving" /\ Replaced THEN "replaced" ELSE phase}
    /\ Stop("down")
    /\ UNCHANGED <<deployment, card, acked, asked>>

Shutdown ==
    /\ phase \in {"up", "menu", "testing", "panicked"}
    /\ stored' \in Remains
    /\ Stop("down")
    /\ UNCHANGED <<deployment, card, history>>

\* What a BackupPersister is for.
LoseMain ==
    /\ HasBackup
    /\ phase = "down"
    /\ ~recovery_required(stored)
    /\ crashes < MaxCrashes
    /\ crashes' = crashes + 1
    /\ stored' = [k \in Keys |-> [stored[k] EXCEPT !["main"] = None]]
    /\ UNCHANGED <<deployment, card, memory, todo, phase, restored, acked, asked, cut>>

------------------------------------------------------------------------------
(* The embedded signer before do_build                                      *)

Idle == <<storage, memory, restored, history>>

\* init_setupfs, which a press of the button follows with setup_mode.
PowerOn ==
    /\ deployment = "fat"
    /\ phase = "down"
    /\ todo' = initialize_steps(card)
    /\ phase' \in IF initialize_panics(card) THEN {"panicked"}
                  ELSE IF todo' # <<>> THEN {"initializing"} ELSE {"selected", "menu"}
    /\ UNCHANGED Idle

create_node == create_rundir(NodeDir) \o select_runpath(NodeDir)

\* "New Node", a node to launch, or one to delete, after which the tests are selected.
setup_mode ==
    /\ phase = "menu"
    /\ \/ /\ list_nodes_panics(card)
          /\ phase' = "panicked" /\ UNCHANGED todo
       \/ /\ ~list_nodes_panics(card)
          /\ \/ card[NodeDir] = None /\ todo' = create_node /\ phase' = "setup"
             \/ \E d \in list_nodes(card) : todo' = select_runpath(d) /\ phase' = "setup"
             \/ /\ NodeDir \in list_nodes(card)
                /\ todo' = delete_rundir(NodeDir) \o select_runpath(TestDir)
                /\ phase' = "deleting"
    /\ UNCHANGED Idle

\* The node that is deleted takes what was answered with it.
SetupStep ==
    /\ phase \in SetupPhases
    /\ IF Head(todo).file = "STATE"
       THEN /\ stored' = [k \in Keys |-> [slot \in Slots |-> None]]
            /\ acked' = NoMemory /\ asked' = NoMemory
            /\ UNCHANGED card
       ELSE /\ card' = [card EXCEPT ![Head(todo).file] = Head(todo).content]
            /\ UNCHANGED <<stored, acked, asked>>
    /\ todo' = Tail(todo)
    /\ phase' \in IF todo' # <<>> THEN {phase}
                  ELSE CASE phase = "initializing" -> {"selected", "menu"}
                         [] phase = "setup"        -> {"selected"}
                         [] phase = "deleting"     -> {"menu"}
    /\ UNCHANGED <<deployment, memory, restored, cut, crashes>>

\* Without a node to run: the mode for tests, which keeps nothing, or a panic.
run_context ==
    /\ phase = "selected"
    /\ LET d == card["RUNPATH"] IN
       /\ ~(d = NodeDir /\ context_ok(card, d))
       /\ phase' = IF context_ok(card, d) /\ is_testing(card, d) THEN "testing" ELSE "panicked"
    /\ UNCHANGED <<Idle, todo>>

------------------------------------------------------------------------------
Init ==
    /\ deployment \in Deployments
    /\ card = BlankCard
    /\ stored = [k \in Keys |-> [slot \in Slots |-> None]]
    /\ memory = NoMemory
    /\ todo = <<>>
    /\ phase = "down"
    /\ restored = FALSE
    /\ acked = NoMemory /\ asked = NoMemory
    /\ cut = {} /\ crashes = 0

Next ==
    \/ do_build
    \/ \E c \in Channels :
          NewChannel(c) \/ SetupChannel(c) \/ UpdateChannel(c) \/ PruneChannel(c)
    \/ \E k \in {"nodestate", "tracker"} : Update(k)
    \/ UpdateAllowlist
    \/ Persist
    \/ PersistFails
    \/ Crash
    \/ Shutdown
    \/ LoseMain
    \/ PowerOn
    \/ setup_mode
    \/ SetupStep
    \/ run_context

Spec == Init /\ [][Next]_vars

------------------------------------------------------------------------------
(* Properties                                                               *)

\* A signer that serves after a start has every entry as the last answer left it, or as
\* the request that was cut short would have: none of them is older, and none is gone.
\* Three exceptions, all of a BackupPersister whose main store was lost: a channel that has
\* no setup yet may be gone, because maybe_sync_persister does not write it to the new main
\* store; one that was pruned may be back, because a delete that is cut short after the main
\* store leaves it in the backup for good; and anything may be lost when the recovery itself
\* was cut short, because the main store counts as recovered as soon as it has the node's
\* entry.
NoSilentRollback ==
    phase = "up" =>
        \A k \in Keys :
            \/ memory[k] \in {acked[k], asked[k]}
            \/ HasBackup /\ memory[k] = None /\ IsStub(acked[k])
            \/ HasBackup /\ IsStub(memory[k]) /\ acked[k] = None
            \/ HasBackup /\ "recovering" \in cut


==============================================================================
