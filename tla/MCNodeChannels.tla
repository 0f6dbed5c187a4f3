---------------------------- MODULE MCNodeChannels ----------------------------
(* Ids, outpoints and terms are interchangeable.                            *)
EXTENDS NodeChannels

NameSymmetry ==
    Permutations(ChannelIds) \cup Permutations(Outpoints) \cup Permutations(Terms)

==============================================================================
