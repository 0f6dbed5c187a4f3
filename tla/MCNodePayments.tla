---------------------------- MODULE MCNodePayments ----------------------------
(* Channels are interchangeable.                                            *)
EXTENDS NodePayments, TLC

ChannelSymmetry == Permutations(Channels)

==============================================================================
