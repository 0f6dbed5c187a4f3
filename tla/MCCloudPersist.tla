---------------------------- MODULE MCCloudPersist ----------------------------
(* A channel and the tracker: the first client makes the channel, its clients *)
(* change it, together with the tracker in ready_channel, and the follower    *)
(* changes the tracker.                                                       *)
EXTENDS CloudPersist

CONSTANTS channel, tracker, client, client2, root, follower

MCWrites ==
    [t \in Tasks |->
        CASE t = root     -> {{channel}}
          [] t = follower -> {{tracker}}
          [] OTHER        -> {{channel}, {channel, tracker}}]

NameSymmetry == Permutations(Contents) \cup Permutations(Clients)

==============================================================================
