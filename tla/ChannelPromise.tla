---------------------------- MODULE ChannelPromise ----------------------------
(***************************************************************************)
(* What a channel of the signer promises to the world: only what has left  *)
(* it, with no memory, no disk and no crash.  Each step is one answer, and *)
(* its guard speaks only of the earlier answers.  Channel implements this. *)
(***************************************************************************)
EXTENDS Integers

VARIABLES secretsOut, holderOut, counterpartyOut, closeOut

vars == <<secretsOut, holderOut, counterpartyOut, closeOut>>

Init ==
    /\ secretsOut = {}
    /\ holderOut = {}
    /\ counterpartyOut = {}
    /\ closeOut = {}

\* A secret leaves only for a commitment that was never signed, and, once the
\* channel is closing, only for one older than the state that is closed.
Revoke(n) ==
    /\ \A h \in holderOut : h.num > n
    /\ \A k \in closeOut : n + 2 <= k
    /\ secretsOut' = secretsOut \cup {n}
    /\ UNCHANGED <<holderOut, counterpartyOut, closeOut>>

\* A holder commitment is signed only when it is newer than every revoked one.
SignHolder(h) ==
    /\ \A n \in secretsOut : n < h.num
    /\ holderOut' = holderOut \cup {h}
    /\ UNCHANGED <<secretsOut, counterpartyOut, closeOut>>

\* The counterparty's commitments are signed in order, each number for one
\* point and one content.
SignCounterparty(c) ==
    /\ \A d \in counterpartyOut : d.num < c.num \/ d = c
    /\ counterpartyOut' = counterpartyOut \cup {c}
    /\ UNCHANGED <<secretsOut, holderOut, closeOut>>

\* The channel closes at one state only: every mutual close names the same one.
Close(k) ==
    /\ \A n \in secretsOut : n + 2 <= k
    /\ \A j \in closeOut : j = k
    /\ closeOut' = closeOut \cup {k}
    /\ UNCHANGED <<secretsOut, holderOut, counterpartyOut>>

Next ==
    \/ \E n \in secretsOut' : Revoke(n)
    \/ \E h \in holderOut' : SignHolder(h)
    \/ \E c \in counterpartyOut' : SignCounterparty(c)
    \/ \E k \in closeOut' : Close(k)

Spec == Init /\ [][Next]_vars

==============================================================================
