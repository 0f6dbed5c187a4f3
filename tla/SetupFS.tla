------------------------------- MODULE SetupFS -------------------------------
(***************************************************************************)
(* The card of the embedded signer: a directory for each node, one for     *)
(* tests, and the file RUNPATH, which says which of them to run.  A write  *)
(* of a file truncates it first.  One node at a time is modelled, and the  *)
(* file that makes a node permissive is left out.                          *)
(***************************************************************************)
EXTENDS Naturals, Sequences

CONSTANTS
    None,     \* no such file
    Emptied,  \* a file that was truncated and not yet written
    Full      \* a file that has its contents, or a directory

TestDir == "test-mode"
NodeDir == "node"
Dirs == {TestDir, NodeDir}

File(dir, name) == dir \o "/" \o name

RunFiles ==
    [d \in Dirs |-> <<File(d, "NETWORK"), File(d, "KDSTYLE"),
                      IF d = TestDir THEN File(d, "TESTING") ELSE File(d, "hsm_secret")>>]

CardFiles == {"RUNPATH"} \cup Dirs \cup {RunFiles[d][i] : d \in Dirs, i \in 1..3}

BlankCard == [f \in CardFiles |-> None]

\* A step: the file gets the content; "STATE" is the persister's directory.
Becomes(f, content) == [file |-> f, content |-> content]

write_file_string(f, content) == <<Becomes(f, Emptied), Becomes(f, content)>>

create_rundir(d) ==
    <<Becomes(d, Full)>> \o write_file_string(RunFiles[d][1], Full)
        \o write_file_string(RunFiles[d][2], Full) \o write_file_string(RunFiles[d][3], Full)

select_runpath(d) == write_file_string("RUNPATH", d)

\* rmdir takes the files in the order in which they were made.
delete_rundir(d) ==
    <<Becomes(RunFiles[d][1], None), Becomes(RunFiles[d][2], None),
      Becomes(RunFiles[d][3], None), Becomes("STATE", None), Becomes(d, None)>>

\* read_file_string of a file without a byte indexes buffer[len - 1].
read_panics(card, f) == card[f] = Emptied

initialize_steps(card) ==
    IF card["RUNPATH"] = None THEN create_rundir(TestDir) \o select_runpath(TestDir) ELSE <<>>

initialize_panics(card) == read_panics(card, "RUNPATH")

\* The directory is there, and the kind of derivation, the network and the seed in it.
context_ok(card, d) ==
    /\ card[d] = Full
    /\ \A i \in 1..2 : card[RunFiles[d][i]] = Full
    /\ d = NodeDir => card[RunFiles[d][3]] = Full

is_testing(card, d) == d = TestDir /\ card[RunFiles[d][3]] # None

list_nodes_panics(card) == \E d \in Dirs : read_panics(card, RunFiles[d][1])

list_nodes(card) == {d \in Dirs : card[RunFiles[d][1]] = Full}

==============================================================================
