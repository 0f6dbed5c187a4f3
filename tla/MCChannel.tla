------------------------------ MODULE MCChannel ------------------------------
(* A channel small enough for TLC: three commitments of one content, or two *)
(* commitments of two contents each.                                        *)
EXTENDS Channel, TLC

\* Nothing looks inside a secret: two behaviours that swap secrets are alike.
SecretSymmetry == Permutations(Secrets)

FewCommitments ==
    /\ estate.next_holder_commit_num <= 2
    /\ estate.next_counterparty_commit_num <= 2

OneContent ==
    /\ \A commit \in countersigned \cup counterpartyOut : commit.info \in HtlcFree
    /\ {estate.current_holder_commit_info, estate.current_counterparty_commit_info,
        estate.previous_counterparty_commit_info} \subseteq HtlcFree \cup {None}

Small == FewCommitments \/ OneContent

==============================================================================
