----------------------------- MODULE MCNodeLocks -----------------------------
(* A node small enough for TLC, and the ways it is run.                     *)
EXTENDS NodeLocks

CONSTANT Lightningd     \* the client that a remote signer serves everyone through

\* In the node's process, with a local persister.
Local == [external_persist |-> FALSE, tasks |-> Tasks, max_requests |-> 1]

\* In the node's process, persisting to the cloud.
Cloud == [external_persist |-> TRUE, tasks |-> Tasks, max_requests |-> 1]

\* A signer of its own, which serves one stream.
Remote == [external_persist |-> FALSE, tasks |-> {Lightningd}, max_requests |-> 2]

EveryDeployment == {Local, Cloud, Remote}
InPlaceLocal == {Local}
InPlaceCloud == {Cloud}

==============================================================================
