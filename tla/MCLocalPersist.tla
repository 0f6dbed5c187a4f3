---------------------------- MODULE MCLocalPersist ----------------------------
(* LocalPersist with two channels, for each of the three persisters.       *)
EXTENDS LocalPersist

==============================================================================
