----------------------------- MODULE MCApprovals -----------------------------
(* Payment hashes are interchangeable.                                      *)
EXTENDS Approvals, TLC

MCMemorized == {Keysend(h, 2) : h \in Hashes}

HashSymmetry == Permutations(Hashes)

==============================================================================
