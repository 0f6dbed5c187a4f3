---------------------------- MODULE ChannelProofs ----------------------------
(***************************************************************************)
(* The safety of Channel, for any number of commitments, any contents and  *)
(* any secrets; and below it that of NodeChannels, the map the channels    *)
(* are kept in, over stops between any two writes.                         *)
(*                                                                         *)
(* The argument: an EnforcementState "covers" a set of answers when its    *)
(* counters, points and secrets account for each of them.  The durable     *)
(* state covers what has left the signer, and while a request is served    *)
(* the state in memory covers that and the answer that waits.  So a crash  *)
(* never uncovers anything that is out.                                    *)
(***************************************************************************)
EXTENDS Channel, NodeChannels, FiniteSetTheorems, TLAPS

\* The holder's side of e covers secrets S, signatures H and closes K; cs are the
\* commitments the counterparty's signature was seen for.
HolderCovers(e, S, H, K, cs) ==
    /\ \A n \in S : n + 2 <= e.next_holder_commit_num
    /\ \A x \in H : e.channel_closed /\ x.num + 1 >= e.next_holder_commit_num
    /\ \A k \in K : e.channel_closed /\ k = e.next_holder_commit_num
    /\ e.next_holder_commit_num > 0 =>
          /\ e.current_holder_commit_info \in Infos
          /\ [num |-> e.next_holder_commit_num - 1,
              info |-> e.current_holder_commit_info] \in cs
    /\ e.next_holder_commit_num = 0 => e.current_holder_commit_info = None
    /\ e.next_holder_commit_num = 1 => e.current_holder_commit_info \in HtlcFree

\* The counterparty's counters and points fit each other.
CounterpartyFits(e) ==
    LET c == e.next_counterparty_commit_num
        r == e.next_counterparty_revoke_num
    IN  /\ (c = 0 /\ r = 0) \/ (r + 1 <= c /\ c <= r + 2)
        /\ c > 0 => /\ e.current_counterparty_point \in Points
                    /\ e.current_counterparty_commit_info \in Infos
        /\ c = 1 => e.current_counterparty_commit_info \in HtlcFree
        /\ c > 1 => e.previous_counterparty_point \in Points
        /\ \A x \in e.counterparty_secrets : x.num < r
        /\ (r > 0 /\ c = r + 1) =>
              \E x \in e.counterparty_secrets :
                  x.num = r - 1 /\ PointOf(x.secret) = e.previous_counterparty_point

\* The counterparty's side of e covers the signed commitments C.
CounterpartyCovers(e, C) ==
    LET c == e.next_counterparty_commit_num
        r == e.next_counterparty_revoke_num
    IN  /\ \A x \in C : x.num < c
        /\ \A x \in C : x.num + 1 = c => /\ x.point = e.current_counterparty_point
                                        /\ x.info = e.current_counterparty_commit_info
        /\ \A x \in C : x.num + 2 = c => x.point = e.previous_counterparty_point
        /\ \A x \in C : x.num < r =>
              \E y \in e.counterparty_secrets : y.num = x.num /\ PointOf(y.secret) = x.point
        /\ \A x, y \in C : x.num = y.num => x = y

Covers(e, S, H, C, K, cs) ==
    /\ HolderCovers(e, S, H, K, cs)
    /\ CounterpartyFits(e)
    /\ CounterpartyCovers(e, C)

\* What one request may do to a state: the counters do not go back, and a closed
\* channel keeps its holder commitment.
Progress(d, e) ==
    /\ e.next_holder_commit_num >= d.next_holder_commit_num
    /\ e.next_counterparty_commit_num >= d.next_counterparty_commit_num
    /\ e.next_counterparty_revoke_num >= d.next_counterparty_revoke_num
    /\ d.channel_closed =>
          /\ e.channel_closed
          /\ e.next_holder_commit_num = d.next_holder_commit_num
          /\ e.current_holder_commit_info = d.current_holder_commit_info

DiskCovers == Covers(disk, secretsOut, holderOut, counterpartyOut, closeOut, countersigned)

MemoryCovers ==
    phase # "down" =>
        Covers(estate, secretsOut \cup reply.secrets, holderOut \cup reply.holder,
               counterpartyOut \cup reply.counterparty, closeOut \cup reply.close,
               countersigned)

PhaseFits ==
    /\ phase \in {"ready", "reply"} => estate = disk
    /\ phase \in {"ready", "down"} => reply = NoReply
    /\ phase # "down" => Progress(disk, estate)

\* The inductive invariant.
IInv == TypeOK /\ PhaseFits /\ DiskCovers /\ MemoryCovers

------------------------------------------------------------------------------
(* The changes keep a state covering                                        *)

\* The holder's side reads only the holder's fields.
LEMMA HolderFrame ==
    ASSUME NEW e, NEW f, NEW S, NEW H, NEW K, NEW cs,
           HolderCovers(e, S, H, K, cs),
           f.next_holder_commit_num = e.next_holder_commit_num,
           f.current_holder_commit_info = e.current_holder_commit_info,
           f.channel_closed = e.channel_closed
    PROVE  HolderCovers(f, S, H, K, cs)
BY DEF HolderCovers

\* The counterparty's side reads only the counterparty's fields.
LEMMA CounterpartyFrame ==
    ASSUME NEW e, NEW f, NEW C,
           CounterpartyFits(e), CounterpartyCovers(e, C),
           f.next_counterparty_commit_num = e.next_counterparty_commit_num,
           f.next_counterparty_revoke_num = e.next_counterparty_revoke_num,
           f.current_counterparty_point = e.current_counterparty_point,
           f.previous_counterparty_point = e.previous_counterparty_point,
           f.current_counterparty_commit_info = e.current_counterparty_commit_info,
           f.counterparty_secrets = e.counterparty_secrets
    PROVE  CounterpartyFits(f) /\ CounterpartyCovers(f, C)
BY DEF CounterpartyFits, CounterpartyCovers

\* The changes keep the type of the state.
LEMMA ChangeTypes ==
    ASSUME NEW e \in EnforcementStates, NEW num \in Nat, NEW info \in Infos
    PROVE  /\ set_next_holder_commit_num(e, num, info) \in EnforcementStates
           /\ \A point \in Points :
                 set_next_counterparty_commit_num(e, num, point, info) \in EnforcementStates
<1>1. set_next_holder_commit_num(e, num, info) \in EnforcementStates
  BY DEF set_next_holder_commit_num, EnforcementStates
<1>2. ASSUME NEW point \in Points
      PROVE  set_next_counterparty_commit_num(e, num, point, info) \in EnforcementStates
  BY <1>2 DEF set_next_counterparty_commit_num, EnforcementStates
<1> QED
  BY <1>1, <1>2

\* So does a revocation.
LEMMA RevokeType ==
    ASSUME NEW e \in EnforcementStates, NEW num \in Nat
    PROVE  set_next_counterparty_revoke_num(e, num) \in EnforcementStates
BY DEF set_next_counterparty_revoke_num, EnforcementStates

\* advance_holder_commitment_state: the state that counts the new commitment covers
\* the secret of the one before it.
LEMMA HolderAdvance ==
    ASSUME NEW e \in EnforcementStates, NEW S \in SUBSET Nat,
           NEW H \in SUBSET HolderCommits, NEW K \in SUBSET Nat, NEW cs,
           NEW num \in Nat, NEW info \in Infos,
           HolderCovers(e, S, H, K, cs),
           validate_holder_commitment_tx(e, num, info),
           set_next_holder_commit_num_ok(e, num + 1)
    PROVE  HolderCovers(set_next_holder_commit_num(e, num + 1, info),
                        S \cup (IF num >= 1 THEN {num - 1} ELSE {}), H, K,
                        cs \cup {[num |-> num, info |-> info]})
<1> DEFINE f == set_next_holder_commit_num(e, num + 1, info)
           T == S \cup (IF num >= 1 THEN {num - 1} ELSE {})
<1>1. /\ f.next_holder_commit_num = num + 1
      /\ f.current_holder_commit_info = info
      /\ f.channel_closed = e.channel_closed
  BY DEF set_next_holder_commit_num, EnforcementStates
<1>2. e.next_holder_commit_num \in Nat
  BY DEF EnforcementStates
<1>3. \/ num = e.next_holder_commit_num /\ ~e.channel_closed
      \/ num + 1 = e.next_holder_commit_num /\ info = e.current_holder_commit_info
  BY <1>2 DEF set_next_holder_commit_num_ok, validate_holder_commitment_tx
<1>4. \A n \in T : n + 2 <= num + 1
  BY <1>2, <1>3 DEF HolderCovers
<1>5. \A x \in H : e.channel_closed /\ x.num + 1 >= num + 1
  BY <1>2, <1>3 DEF HolderCovers
<1>6. \A k \in K : e.channel_closed /\ k = num + 1
  BY <1>2, <1>3 DEF HolderCovers
<1>7. num + 1 = 1 => info \in HtlcFree
  BY DEF validate_holder_commitment_tx, validate_commitment_tx
<1>8. num + 1 - 1 = num /\ num + 1 > 0 /\ num + 1 # 0
  OBVIOUS
<1> QED
  BY <1>1, <1>4, <1>5, <1>6, <1>7, <1>8 DEF HolderCovers

\* Signing a holder commitment or a close: the state that is marked closed covers the
\* signature, because its number is not below the current one.
LEMMA HolderClose ==
    ASSUME NEW e \in EnforcementStates, NEW S, NEW H, NEW K, NEW cs,
           NEW X \in SUBSET HolderCommits, NEW L \in SUBSET Nat,
           HolderCovers(e, S, H, K, cs),
           \A x \in X : x.num + 1 >= e.next_holder_commit_num,
           \A k \in L : k = e.next_holder_commit_num
    PROVE  HolderCovers([e EXCEPT !.channel_closed = TRUE], S, H \cup X, K \cup L, cs)
<1> DEFINE f == [e EXCEPT !.channel_closed = TRUE]
<1>1. /\ f.next_holder_commit_num = e.next_holder_commit_num
      /\ f.current_holder_commit_info = e.current_holder_commit_info
      /\ f.channel_closed = TRUE
  BY DEF EnforcementStates
<1> QED
  BY <1>1 DEF HolderCovers

\* set_next_counterparty_commit_num: what was current becomes previous, so the state
\* covers the new signature; a retry gives the signature already covered.
LEMMA CounterpartyAdvance ==
    ASSUME NEW e \in EnforcementStates, NEW C \in SUBSET CounterpartyCommits,
           NEW num \in Nat, NEW point \in Points, NEW info \in Infos,
           CounterpartyFits(e), CounterpartyCovers(e, C),
           validate_counterparty_commitment_tx(e, num, point, info),
           set_next_counterparty_commit_num_ok(e, num + 1, point)
    PROVE  LET f == set_next_counterparty_commit_num(e, num + 1, point, info)
               D == C \cup {[num |-> num, point |-> point, info |-> info]}
           IN  CounterpartyFits(f) /\ CounterpartyCovers(f, D)
<1> DEFINE f == set_next_counterparty_commit_num(e, num + 1, point, info)
           x0 == [num |-> num, point |-> point, info |-> info]
           c == e.next_counterparty_commit_num
           r == e.next_counterparty_revoke_num
<1>0. c \in Nat /\ r \in Nat /\ \A x \in C : x.num \in Nat
  BY DEF EnforcementStates, CounterpartyCommits
<1>1. CASE num + 1 = c
  <2>1. f = e
    BY <1>0, <1>1 DEF set_next_counterparty_commit_num
  <2>2. point = e.current_counterparty_point /\ info = e.current_counterparty_commit_info
    BY <1>1 DEF validate_counterparty_commitment_tx
  <2>3. r + 2 <= c \/ (c = 1 /\ r = 0)
    BY <1>0, <1>1 DEF set_next_counterparty_commit_num_ok
  <2>4. \A x \in C : x.num = num => x = x0
    BY <1>0, <1>1, <2>2 DEF CounterpartyCovers, CounterpartyCommits
  <2>5. x0.num < c /\ x0.num + 2 # c /\ ~(x0.num < r)
    BY <1>0, <1>1, <2>3
  <2>6. CounterpartyCovers(e, C \cup {x0})
    BY <1>0, <1>1, <2>2, <2>4, <2>5 DEF CounterpartyCovers
  <2> QED
    BY <2>1, <2>6
<1>2. CASE num = c
  <2>1. /\ f.next_counterparty_commit_num = c + 1
        /\ f.next_counterparty_revoke_num = r
        /\ f.current_counterparty_point = point
        /\ f.previous_counterparty_point = e.current_counterparty_point
        /\ f.current_counterparty_commit_info = info
        /\ f.counterparty_secrets = e.counterparty_secrets
    BY <1>0, <1>2 DEF set_next_counterparty_commit_num, EnforcementStates
  <2>2. c + 1 = r + 2 \/ (c = 0 /\ r = 0)
    BY <1>0, <1>2 DEF set_next_counterparty_commit_num_ok
  <2>3. c = 0 => info \in HtlcFree
    BY <1>2 DEF validate_counterparty_commitment_tx, validate_commitment_tx
  <2>4. CounterpartyFits(f)
    BY <1>0, <2>1, <2>2, <2>3 DEF CounterpartyFits
  <2>5. \A x \in C : x.num < c
    BY DEF CounterpartyCovers
  <2>6. ~(x0.num < r)
    BY <1>0, <1>2, <2>2
  <2>7. \A x \in C : x.num # x0.num
    BY <1>0, <1>2, <2>5
  <2>8. CounterpartyCovers(f, C \cup {x0})
    <3>1. \A x \in C \cup {x0} : x.num < c + 1
      BY <1>0, <1>2, <2>5
    <3>2. \A x \in C \cup {x0} : x.num + 1 = c + 1 => x.point = point /\ x.info = info
      BY <1>0, <1>2, <2>5
    <3>3. \A x \in C \cup {x0} : x.num + 2 = c + 1 => x.point = e.current_counterparty_point
      BY <1>0, <1>2, <2>5 DEF CounterpartyCovers
    <3>4. \A x \in C \cup {x0} : x.num < r =>
            \E y \in e.counterparty_secrets : y.num = x.num /\ PointOf(y.secret) = x.point
      BY <2>6 DEF CounterpartyCovers
    <3>5. \A x, y \in C \cup {x0} : x.num = y.num => x = y
      BY <2>7 DEF CounterpartyCovers
    <3> QED
      BY <2>1, <3>1, <3>2, <3>3, <3>4, <3>5 DEF CounterpartyCovers
  <2> QED
    BY <2>4, <2>8
<1>3. num + 1 = c \/ num = c
  BY <1>0 DEF set_next_counterparty_commit_num_ok
<1> QED
  BY <1>1, <1>2, <1>3

\* provide_secret and set_next_counterparty_revoke_num: the secret is in the store before
\* the counter passes its commitment.
LEMMA CounterpartyRevoke ==
    ASSUME NEW e \in EnforcementStates, NEW C \in SUBSET CounterpartyCommits,
           NEW num \in Nat, NEW secret \in Secrets,
           CounterpartyFits(e), CounterpartyCovers(e, C),
           validate_counterparty_revocation(e, num, secret),
           set_next_counterparty_revoke_num_ok(e, num + 1)
    PROVE  LET f == set_next_counterparty_revoke_num(provide_secret(e, num, secret), num + 1)
           IN  CounterpartyFits(f) /\ CounterpartyCovers(f, C)
<1> DEFINE g == provide_secret(e, num, secret)
           f == set_next_counterparty_revoke_num(g, num + 1)
           x0 == [num |-> num, secret |-> secret]
           c == e.next_counterparty_commit_num
           r == e.next_counterparty_revoke_num
<1>0. /\ c \in Nat /\ r \in Nat /\ \A x \in C : x.num \in Nat
      /\ \A x \in e.counterparty_secrets : x.num \in Nat
  BY DEF EnforcementStates, CounterpartyCommits
<1>1. g \in EnforcementStates
  BY DEF provide_secret, EnforcementStates
<1>2. /\ f.next_counterparty_commit_num = c
      /\ f.next_counterparty_revoke_num = num + 1
      /\ f.current_counterparty_point = e.current_counterparty_point
      /\ f.previous_counterparty_point = e.previous_counterparty_point
      /\ f.current_counterparty_commit_info = e.current_counterparty_commit_info
      /\ f.counterparty_secrets = g.counterparty_secrets
  BY <1>1 DEF set_next_counterparty_revoke_num, provide_secret, EnforcementStates
<1>3. num + 2 = c
  <2>1. num + 2 <= c
    BY <1>0 DEF set_next_counterparty_revoke_num_ok
  <2>2. num + 1 = c \/ num + 2 = c
    BY ChannelAssumption
       DEF validate_counterparty_revocation, get_previous_counterparty_point, PointOf
  <2> QED
    BY <1>0, <2>1, <2>2
<1>4. PointOf(secret) = e.previous_counterparty_point
  BY <1>0, <1>3 DEF validate_counterparty_revocation, get_previous_counterparty_point
<1>5. CASE num = r
  <2>1. \A x \in e.counterparty_secrets : ~(x.num >= num)
    BY <1>0, <1>5 DEF CounterpartyFits
  <2>2. g.counterparty_secrets = e.counterparty_secrets \cup {x0}
    BY <2>1 DEF provide_secret, EnforcementStates
  <2>3. CounterpartyFits(f)
    <3>1. \A x \in f.counterparty_secrets : x.num < num + 1
      BY <1>0, <1>2, <1>5, <2>2 DEF CounterpartyFits
    <3>2. x0 \in f.counterparty_secrets /\ x0.num = num + 1 - 1
             /\ PointOf(x0.secret) = f.previous_counterparty_point
      BY <1>2, <1>4, <2>2
    <3>3. num + 1 + 1 <= c /\ c <= num + 1 + 2
      BY <1>3, <1>0
    <3> QED
      BY <1>0, <1>2, <3>1, <3>2, <3>3 DEF CounterpartyFits
  <2>4. \A x \in C : x.num < num + 1 =>
           \E y \in f.counterparty_secrets : y.num = x.num /\ PointOf(y.secret) = x.point
    <3> SUFFICES ASSUME NEW x \in C, x.num < num + 1
                 PROVE  \E y \in f.counterparty_secrets :
                            y.num = x.num /\ PointOf(y.secret) = x.point
      OBVIOUS
    <3>1. CASE x.num < r
      BY <1>2, <2>2, <3>1 DEF CounterpartyCovers
    <3>2. CASE x.num = num
      <4>1. x.point = PointOf(secret)
        BY <1>3, <1>4, <3>2 DEF CounterpartyCovers
      <4>2. x0 \in f.counterparty_secrets
        BY <1>2, <2>2
      <4> QED
        BY <3>2, <4>1, <4>2
    <3> QED
      BY <1>0, <1>5, <3>1, <3>2
  <2>5. CounterpartyCovers(f, C)
    BY <1>2, <2>4 DEF CounterpartyCovers
  <2> QED
    BY <2>3, <2>5
<1>6. CASE num + 1 = r
  <2>1. \E x \in e.counterparty_secrets :
            x.num = num /\ PointOf(x.secret) = e.previous_counterparty_point
    BY <1>0, <1>3, <1>6 DEF CounterpartyFits
  <2>2. \E x \in e.counterparty_secrets : x.num >= num
    BY <2>1
  <2>3. g = e
    BY <2>2 DEF provide_secret
  <2> QED
    BY <1>2, <1>6, <2>3 DEF CounterpartyFits, CounterpartyCovers
<1>7. num = r \/ num + 1 = r
  BY DEF validate_counterparty_revocation
<1> QED
  BY <1>5, <1>6, <1>7

------------------------------------------------------------------------------
(* The invariant                                                            *)

\* A smaller set of answers is covered by what covers a larger one.
LEMMA CoversFewer ==
    ASSUME NEW e, NEW S, NEW H, NEW C, NEW K, NEW cs,
           NEW S2, NEW H2, NEW C2, NEW K2,
           Covers(e, S \cup S2, H \cup H2, C \cup C2, K \cup K2, cs)
    PROVE  Covers(e, S, H, C, K, cs)
BY DEF Covers, HolderCovers, CounterpartyFits, CounterpartyCovers

\* NoReply adds nothing to what must be covered.
LEMMA NoReplyEmpty ==
    /\ NoReply \in Replies
    /\ NoReply.secrets = {} /\ NoReply.holder = {}
    /\ NoReply.counterparty = {} /\ NoReply.close = {}
BY DEF NoReply, Replies

\* A channel starts covering the nothing that has left it.
LEMMA InitIInv == Init => IInv
<1> SUFFICES ASSUME Init PROVE IInv
  OBVIOUS
<1>1. EnforcementState_new \in EnforcementStates
  BY DEF EnforcementState_new, EnforcementStates
<1>2. TypeOK
  BY <1>1, NoReplyEmpty DEF Init, TypeOK, ChainStates
<1>3. Covers(EnforcementState_new, {}, {}, {}, {}, {})
  BY DEF Covers, HolderCovers, CounterpartyFits, CounterpartyCovers, EnforcementState_new
<1>4. Progress(EnforcementState_new, EnforcementState_new)
  BY <1>1 DEF Progress, EnforcementStates
<1>5. PhaseFits
  BY <1>4 DEF Init, PhaseFits
<1>6. DiskCovers
  BY <1>3 DEF Init, DiskCovers
<1>7. MemoryCovers
  BY <1>3, NoReplyEmpty DEF Init, MemoryCovers
<1> QED
  BY <1>2, <1>5, <1>6, <1>7 DEF IInv

\* A handler that ends in Advance keeps the invariant when its new state covers the
\* answer and is progress.
LEMMA AdvanceIInv ==
    ASSUME IInv, Handling, NEW e \in EnforcementStates, NEW r \in Replies,
           Advance(e, r), countersigned' \in SUBSET HolderCommits,
           countersigned \subseteq countersigned',
           Covers(e, secretsOut \cup r.secrets, holderOut \cup r.holder,
                  counterpartyOut \cup r.counterparty, closeOut \cup r.close,
                  countersigned'),
           Progress(estate, e)
    PROVE  IInv'
<1>1. TypeOK'
  BY DEF IInv, TypeOK, Handling, Advance, history
<1>2. PhaseFits'
  BY DEF IInv, PhaseFits, Handling, Advance
<1>3. DiskCovers'
  BY DEF IInv, DiskCovers, Handling, history, Covers, HolderCovers
<1>4. MemoryCovers'
  BY DEF MemoryCovers, Handling, history, Advance
<1> QED
  BY <1>1, <1>2, <1>3, <1>4 DEF IInv

\* A handler that only reads keeps the invariant when the secrets it gives out are of
\* replaced commitments.
LEMMA AnswerIInv ==
    ASSUME IInv, Handling, NEW r \in Replies, Answer(r), UNCHANGED countersigned,
           \A n \in r.secrets : n + 2 <= estate.next_holder_commit_num,
           r.holder = {}, r.counterparty = {}, r.close = {}
    PROVE  IInv'
<1>1. TypeOK'
  BY DEF IInv, TypeOK, Handling, Answer, history
<1>2. PhaseFits'
  BY DEF IInv, PhaseFits, Handling, Answer
<1>3. DiskCovers'
  BY DEF IInv, DiskCovers, Handling, history
<1>4. MemoryCovers'
  BY NoReplyEmpty DEF IInv, PhaseFits, MemoryCovers, Handling, history, Answer, Covers, HolderCovers
<1> QED
  BY <1>1, <1>2, <1>3, <1>4 DEF IInv

\* A refusal, like a crash, loses the memory and the answer; the disk covers the rest.
LEMMA StopIInv ==
    ASSUME IInv, Stop, UNCHANGED <<disk, cstate, history, countersigned>>
    PROVE  IInv'
<1>1. TypeOK'
  BY NoReplyEmpty DEF IInv, TypeOK, Stop, history
<1>2. PhaseFits'
  BY DEF PhaseFits, Stop
<1>3. DiskCovers'
  BY DEF IInv, DiskCovers, history
<1>4. MemoryCovers'
  BY DEF MemoryCovers, Stop
<1> QED
  BY <1>1, <1>2, <1>3, <1>4 DEF IInv

\* When the signer is ready, the state in memory covers exactly what has left.
LEMMA ReadyCovers ==
    ASSUME IInv, phase = "ready"
    PROVE  /\ estate \in EnforcementStates
           /\ estate = disk
           /\ HolderCovers(estate, secretsOut, holderOut, closeOut, countersigned)
           /\ CounterpartyFits(estate)
           /\ CounterpartyCovers(estate, counterpartyOut)
           /\ secretsOut \in SUBSET Nat /\ holderOut \in SUBSET HolderCommits
           /\ counterpartyOut \in SUBSET CounterpartyCommits /\ closeOut \in SUBSET Nat
           /\ countersigned \in SUBSET HolderCommits
BY DEF IInv, TypeOK, PhaseFits, DiskCovers, Covers

\* Marking a state closed to sign something of the holder's: a step all closing
\* requests share.
LEMMA CloseIInv ==
    ASSUME IInv, Handling, UNCHANGED countersigned,
           NEW X \in SUBSET HolderCommits, NEW L \in SUBSET Nat,
           \A x \in X : x.num + 1 >= estate.next_holder_commit_num,
           \A k \in L : k = estate.next_holder_commit_num,
           NEW r \in Replies, r.secrets = {}, r.holder = X, r.counterparty = {}, r.close = L,
           Advance([estate EXCEPT !.channel_closed = TRUE], r)
    PROVE  IInv'
<1> DEFINE e == [estate EXCEPT !.channel_closed = TRUE]
<1>1. phase = "ready"
  BY DEF Handling
<1>2. e \in EnforcementStates /\ Progress(estate, e)
  <2>1. e \in EnforcementStates
    BY <1>1, ReadyCovers DEF EnforcementStates
  <2> QED
    BY <1>1, <2>1, ReadyCovers DEF EnforcementStates, Progress
<1>3. HolderCovers(e, secretsOut, holderOut \cup X, closeOut \cup L, countersigned)
  BY <1>1, ReadyCovers, HolderClose
<1>4. CounterpartyFits(e) /\ CounterpartyCovers(e, counterpartyOut)
  BY <1>1, ReadyCovers, CounterpartyFrame DEF EnforcementStates
<1>5. Covers(e, secretsOut \cup r.secrets, holderOut \cup r.holder,
             counterpartyOut \cup r.counterparty, closeOut \cup r.close, countersigned')
  BY <1>3, <1>4 DEF Covers
<1>6. countersigned' \in SUBSET HolderCommits /\ countersigned \subseteq countersigned'
  BY <1>1, ReadyCovers
<1> QED
  BY <1>2, <1>5, <1>6, AdvanceIInv

\* The answers of the requests have the type of answers.
LEMMA ReplyTypes ==
    /\ \A T \in SUBSET Nat : [NoReply EXCEPT !.secrets = T] \in Replies
    /\ \A X \in SUBSET HolderCommits : [NoReply EXCEPT !.holder = X] \in Replies
    /\ \A D \in SUBSET CounterpartyCommits : [NoReply EXCEPT !.counterparty = D] \in Replies
    /\ \A L \in SUBSET Nat : [NoReply EXCEPT !.close = L] \in Replies
BY DEF NoReply, Replies

\* Every request, and every step of the persister, the caller, the chain and the crashes,
\* keeps the invariant.
LEMMA NextIInv == IInv /\ [Next]_vars => IInv'
<1> SUFFICES ASSUME IInv, [Next]_vars PROVE IInv'
  OBVIOUS
<1>0. \A num \in CommitNums : num \in Nat
  BY ChannelAssumption DEF CommitNums
<1>1. ASSUME NEW num \in CommitNums, GetPerCommitmentPoint(num)
      PROVE  IInv'
  <2> DEFINE T == IF num >= 2 THEN {num - 2} ELSE {}
             r == [NoReply EXCEPT !.secrets = T]
  <2>1. Handling /\ UNCHANGED countersigned
    BY <1>1 DEF GetPerCommitmentPoint
  <2>2. CASE Stop
    BY <2>1, <2>2, StopIInv DEF Handling
  <2>3. CASE /\ Answer(r)
             /\ num >= 2 => get_per_commitment_secret_ok(estate, num - 2)
    <3>1. T \in SUBSET Nat
      BY <1>0
    <3>2. r \in Replies
      BY <3>1, ReplyTypes
    <3>3. r.secrets = T /\ r.holder = {} /\ r.counterparty = {} /\ r.close = {}
      BY DEF NoReply
    <3>4. \A n \in r.secrets : n + 2 <= estate.next_holder_commit_num
      BY <2>3, <3>3 DEF get_per_commitment_secret_ok
    <3> QED
      BY <2>1, <2>3, <3>2, <3>3, <3>4, AnswerIInv
  <2> QED
    BY <1>1, <2>2, <2>3 DEF GetPerCommitmentPoint
<1>2. ASSUME NEW num \in CommitNums, GetPerCommitmentSecret(num)
      PROVE  IInv'
  <2> DEFINE r == [NoReply EXCEPT !.secrets = {num}]
  <2>1. Handling /\ UNCHANGED countersigned
    BY <1>2 DEF GetPerCommitmentSecret
  <2>2. CASE Stop
    BY <2>1, <2>2, StopIInv DEF Handling
  <2>3. CASE Answer(r) /\ get_per_commitment_secret_ok(estate, num)
    <3>1. {num} \in SUBSET Nat
      BY <1>0
    <3>2. r \in Replies
      BY <3>1, ReplyTypes
    <3>3. r.secrets = {num} /\ r.holder = {} /\ r.counterparty = {} /\ r.close = {}
      BY DEF NoReply
    <3>4. \A n \in r.secrets : n + 2 <= estate.next_holder_commit_num
      BY <2>3, <3>3 DEF get_per_commitment_secret_ok
    <3> QED
      BY <2>1, <2>3, <3>2, <3>3, <3>4, AnswerIInv
  <2> QED
    BY <1>2, <2>2, <2>3 DEF GetPerCommitmentSecret
<1>3. ASSUME NEW num \in CommitNums, NEW info \in Infos, NEW ok \in BOOLEAN,
             ValidateHolderCommitmentTx(num, info, ok)
      PROVE  IInv'
  <2> DEFINE T == IF num >= 1 THEN {num - 1} ELSE {}
             r == [NoReply EXCEPT !.secrets = T]
             e == set_next_holder_commit_num(estate, num + 1, info)
             cs == countersigned \cup {[num |-> num, info |-> info]}
  <2>1. Handling /\ phase = "ready"
    BY <1>3 DEF ValidateHolderCommitmentTx, Handling
  <2>2. CASE Stop /\ UNCHANGED countersigned
    BY <2>1, <2>2, StopIInv DEF Handling
  <2>3. CASE /\ Advance(e, r) /\ countersigned' = cs
             /\ validate_holder_commitment_tx(estate, num, info)
             /\ set_next_holder_commit_num_ok(estate, num + 1)
    <3>1. T \in SUBSET Nat /\ num \in Nat
      BY <1>0
    <3>2. r \in Replies
      BY <3>1, ReplyTypes
    <3>3. r.secrets = T /\ r.holder = {} /\ r.counterparty = {} /\ r.close = {}
      BY DEF NoReply
    <3>4. e \in EnforcementStates
      <4>1. num + 1 \in Nat /\ estate \in EnforcementStates
        BY <2>1, <3>1, ReadyCovers
      <4> QED
        BY <4>1, ChangeTypes
    <3>5. HolderCovers(e, secretsOut \cup T, holderOut, closeOut, cs)
      BY <2>1, <2>3, <3>1, ReadyCovers, HolderAdvance
    <3>6. CounterpartyFits(e) /\ CounterpartyCovers(e, counterpartyOut)
      BY <2>1, ReadyCovers, CounterpartyFrame DEF set_next_holder_commit_num, EnforcementStates
    <3>7. Covers(e, secretsOut \cup r.secrets, holderOut \cup r.holder,
                 counterpartyOut \cup r.counterparty, closeOut \cup r.close, countersigned')
      BY <2>3, <3>3, <3>5, <3>6 DEF Covers
    <3>8. Progress(estate, e)
      <4>1. /\ e.next_holder_commit_num = num + 1
            /\ e.current_holder_commit_info = info
            /\ e.channel_closed = estate.channel_closed
            /\ e.next_counterparty_commit_num = estate.next_counterparty_commit_num
            /\ e.next_counterparty_revoke_num = estate.next_counterparty_revoke_num
        BY <2>1, ReadyCovers DEF set_next_holder_commit_num, EnforcementStates
      <4>2. /\ estate.next_holder_commit_num \in Nat
            /\ estate.next_counterparty_commit_num \in Nat
            /\ estate.next_counterparty_revoke_num \in Nat
        BY <2>1, ReadyCovers DEF EnforcementStates
      <4> QED
        BY <2>3, <3>1, <4>1, <4>2
           DEF Progress, set_next_holder_commit_num_ok, validate_holder_commitment_tx
    <3>9. countersigned' \in SUBSET HolderCommits /\ countersigned \subseteq countersigned'
      BY <2>1, <2>3, <3>1, ReadyCovers DEF HolderCommits
    <3> QED
      BY <2>1, <2>3, <3>2, <3>4, <3>7, <3>8, <3>9, AdvanceIInv
  <2> QED
    BY <1>3, <2>2, <2>3 DEF ValidateHolderCommitmentTx
<1>4. ASSUME NEW num \in CommitNums, SignHolderCommitmentTx(num)
      PROVE  IInv'
  <2> DEFINE x == [num |-> num, info |-> estate.current_holder_commit_info]
             r == [NoReply EXCEPT !.holder = {x}]
  <2>1. Handling /\ phase = "ready" /\ UNCHANGED countersigned
    BY <1>4 DEF SignHolderCommitmentTx, Handling
  <2>2. CASE Stop
    BY <2>1, <2>2, StopIInv DEF Handling
  <2>3. CASE /\ num + 1 = estate.next_holder_commit_num
             /\ estate.current_holder_commit_info # None
             /\ Advance([estate EXCEPT !.channel_closed = TRUE], r)
    <3>1. x \in HolderCommits
      BY <1>0, <2>1, <2>3, ReadyCovers DEF HolderCommits, EnforcementStates
    <3>2. r \in Replies
      BY <3>1, ReplyTypes
    <3>3. r.secrets = {} /\ r.holder = {x} /\ r.counterparty = {} /\ r.close = {}
      BY DEF NoReply
    <3>4. \A y \in {x} : y.num + 1 >= estate.next_holder_commit_num
      BY <1>0, <2>3
    <3> QED
      BY <2>1, <2>3, <3>1, <3>2, <3>3, <3>4, CloseIInv
  <2> QED
    BY <1>4, <2>2, <2>3 DEF SignHolderCommitmentTx
<1>5. ASSUME SignHolderCommitmentTxForRecovery
      PROVE  IInv'
  <2> DEFINE x == [num |-> estate.next_holder_commit_num - 1,
                   info |-> estate.current_holder_commit_info]
             r == [NoReply EXCEPT !.holder = {x}]
  <2>1. Handling /\ phase = "ready" /\ UNCHANGED countersigned
    BY <1>5 DEF SignHolderCommitmentTxForRecovery, Handling
  <2>2. CASE Stop
    BY <2>1, <2>2, StopIInv DEF Handling
  <2>3. CASE /\ estate.current_holder_commit_info # None
             /\ Advance([estate EXCEPT !.channel_closed = TRUE], r)
    <3>1. /\ estate.next_holder_commit_num \in Nat /\ estate.next_holder_commit_num # 0
          /\ estate.current_holder_commit_info \in Infos
      BY <2>1, <2>3, ReadyCovers DEF EnforcementStates, HolderCovers
    <3>2. x \in HolderCommits /\ x.num + 1 >= estate.next_holder_commit_num
      BY <3>1 DEF HolderCommits
    <3>3. r \in Replies
      BY <3>2, ReplyTypes
    <3>4. r.secrets = {} /\ r.holder = {x} /\ r.counterparty = {} /\ r.close = {}
      BY DEF NoReply
    <3> QED
      BY <2>1, <2>3, <3>2, <3>3, <3>4, CloseIInv
  <2> QED
    BY <1>5, <2>2, <2>3 DEF SignHolderCommitmentTxForRecovery
<1>6. ASSUME NEW num \in CommitNums, NEW info \in Infos, NEW ok \in BOOLEAN,
             SignHolderCommitmentTxRedundant(num, info, ok)
      PROVE  IInv'
  <2> DEFINE x == [num |-> num, info |-> info]
             r == [NoReply EXCEPT !.holder = {x}]
  <2>1. Handling /\ phase = "ready" /\ UNCHANGED countersigned
    BY <1>6 DEF SignHolderCommitmentTxRedundant, Handling
  <2>2. CASE Stop
    BY <2>1, <2>2, StopIInv DEF Handling
  <2>3. CASE /\ validate_holder_commitment_tx(estate, num, info)
             /\ Advance([estate EXCEPT !.channel_closed = TRUE], r)
    <3>1. x \in HolderCommits
      BY <1>0 DEF HolderCommits
    <3>2. r \in Replies
      BY <3>1, ReplyTypes
    <3>3. r.secrets = {} /\ r.holder = {x} /\ r.counterparty = {} /\ r.close = {}
      BY DEF NoReply
    <3>4. estate.next_holder_commit_num \in Nat
      BY <2>1, ReadyCovers DEF EnforcementStates
    <3>5. \A y \in {x} : y.num + 1 >= estate.next_holder_commit_num
      BY <1>0, <2>3, <3>4 DEF validate_holder_commitment_tx
    <3> QED
      BY <2>1, <2>3, <3>1, <3>2, <3>3, <3>5, CloseIInv
  <2> QED
    BY <1>6, <2>2, <2>3 DEF SignHolderCommitmentTxRedundant
<1>7. ASSUME NEW num \in CommitNums, NEW point \in Points, NEW info \in Infos,
             NEW ok \in BOOLEAN, SignCounterpartyCommitmentTx(num, point, info, ok)
      PROVE  IInv'
  <2> DEFINE x == [num |-> num, point |-> point, info |-> info]
             r == [NoReply EXCEPT !.counterparty = {x}]
             e == set_next_counterparty_commit_num(estate, num + 1, point, info)
  <2>1. Handling /\ phase = "ready" /\ UNCHANGED countersigned
    BY <1>7 DEF SignCounterpartyCommitmentTx, Handling
  <2>2. CASE Stop
    BY <2>1, <2>2, StopIInv DEF Handling
  <2>3. CASE /\ validate_counterparty_commitment_tx(estate, num, point, info)
             /\ set_next_counterparty_commit_num_ok(estate, num + 1, point)
             /\ Advance(e, r)
    <3>1. x \in CounterpartyCommits /\ num \in Nat
      BY <1>0 DEF CounterpartyCommits
    <3>2. r \in Replies
      BY <3>1, ReplyTypes
    <3>3. r.secrets = {} /\ r.holder = {} /\ r.counterparty = {x} /\ r.close = {}
      BY DEF NoReply
    <3>4. e \in EnforcementStates
      <4>1. num + 1 \in Nat /\ estate \in EnforcementStates
        BY <2>1, <3>1, ReadyCovers
      <4> QED
        BY <4>1, ChangeTypes
    <3>5. CounterpartyFits(e) /\ CounterpartyCovers(e, counterpartyOut \cup {x})
      BY <2>1, <2>3, <3>1, ReadyCovers, CounterpartyAdvance
    <3>6. /\ e.next_holder_commit_num = estate.next_holder_commit_num
          /\ e.current_holder_commit_info = estate.current_holder_commit_info
          /\ e.channel_closed = estate.channel_closed
          /\ e.next_counterparty_revoke_num = estate.next_counterparty_revoke_num
          /\ \/ e.next_counterparty_commit_num = estate.next_counterparty_commit_num
             \/ e.next_counterparty_commit_num = estate.next_counterparty_commit_num + 1
      BY <2>1, ReadyCovers DEF set_next_counterparty_commit_num, EnforcementStates
    <3>7. HolderCovers(e, secretsOut, holderOut, closeOut, countersigned)
      BY <2>1, <3>6, ReadyCovers, HolderFrame
    <3>8. Covers(e, secretsOut \cup r.secrets, holderOut \cup r.holder,
                 counterpartyOut \cup r.counterparty, closeOut \cup r.close, countersigned')
      BY <2>1, <3>3, <3>5, <3>7 DEF Covers
    <3>9. Progress(estate, e)
      BY <2>1, <3>6, ReadyCovers DEF Progress, EnforcementStates
    <3>10. countersigned' \in SUBSET HolderCommits /\ countersigned \subseteq countersigned'
      BY <2>1, ReadyCovers
    <3> QED
      BY <2>1, <2>3, <3>2, <3>4, <3>8, <3>9, <3>10, AdvanceIInv
  <2> QED
    BY <1>7, <2>2, <2>3 DEF SignCounterpartyCommitmentTx
<1>8. ASSUME NEW num \in CommitNums, NEW secret \in Secrets, NEW chains \in BOOLEAN,
             ValidateCounterpartyRevocation(num, secret, chains)
      PROVE  IInv'
  <2> DEFINE g == provide_secret(estate, num, secret)
             e == set_next_counterparty_revoke_num(g, num + 1)
  <2>1. Handling /\ phase = "ready" /\ UNCHANGED countersigned
    BY <1>8 DEF ValidateCounterpartyRevocation, Handling
  <2>2. CASE Stop
    BY <2>1, <2>2, StopIInv DEF Handling
  <2>3. CASE /\ validate_counterparty_revocation(estate, num, secret)
             /\ set_next_counterparty_revoke_num_ok(estate, num + 1)
             /\ Advance(e, NoReply)
    <3>1. num \in Nat
      BY <1>0
    <3>2. /\ g \in EnforcementStates
          /\ g.next_holder_commit_num = estate.next_holder_commit_num
          /\ g.current_holder_commit_info = estate.current_holder_commit_info
          /\ g.channel_closed = estate.channel_closed
          /\ g.next_counterparty_commit_num = estate.next_counterparty_commit_num
      BY <2>1, <3>1, ReadyCovers DEF provide_secret, EnforcementStates
    <3>3. /\ e \in EnforcementStates
          /\ e.next_holder_commit_num = estate.next_holder_commit_num
          /\ e.current_holder_commit_info = estate.current_holder_commit_info
          /\ e.channel_closed = estate.channel_closed
          /\ e.next_counterparty_commit_num = estate.next_counterparty_commit_num
          /\ e.next_counterparty_revoke_num = num + 1
      <4>1. num + 1 \in Nat
        BY <3>1
      <4>2. e \in EnforcementStates
        BY <3>2, <4>1, RevokeType
      <4> QED
        BY <3>2, <4>2 DEF set_next_counterparty_revoke_num, EnforcementStates
    <3>4. CounterpartyFits(e) /\ CounterpartyCovers(e, counterpartyOut)
      BY <2>1, <2>3, <3>1, ReadyCovers, CounterpartyRevoke
    <3>5. HolderCovers(e, secretsOut, holderOut, closeOut, countersigned)
      BY <2>1, <3>3, ReadyCovers, HolderFrame
    <3>6. Covers(e, secretsOut \cup NoReply.secrets, holderOut \cup NoReply.holder,
                 counterpartyOut \cup NoReply.counterparty, closeOut \cup NoReply.close,
                 countersigned')
      BY <2>1, <3>4, <3>5, NoReplyEmpty DEF Covers
    <3>7. Progress(estate, e)
      BY <2>1, <2>3, <3>1, <3>3, ReadyCovers
         DEF Progress, EnforcementStates, set_next_counterparty_revoke_num_ok
    <3>8. countersigned' \in SUBSET HolderCommits /\ countersigned \subseteq countersigned'
      BY <2>1, ReadyCovers
    <3> QED
      BY <2>1, <2>3, <3>3, <3>6, <3>7, <3>8, NoReplyEmpty, AdvanceIInv
  <2> QED
    BY <1>8, <2>2, <2>3 DEF ValidateCounterpartyRevocation
<1>9. ASSUME NEW ok \in BOOLEAN, SignMutualCloseTx(ok)
      PROVE  IInv'
  <2> DEFINE k == estate.next_holder_commit_num
             r == [NoReply EXCEPT !.close = {k}]
  <2>1. Handling /\ phase = "ready" /\ UNCHANGED countersigned
    BY <1>9 DEF SignMutualCloseTx, Handling
  <2>2. CASE Stop
    BY <2>1, <2>2, StopIInv DEF Handling
  <2>3. CASE Advance([estate EXCEPT !.channel_closed = TRUE], r)
    <3>1. k \in Nat
      BY <2>1, ReadyCovers DEF EnforcementStates
    <3>2. r \in Replies
      BY <3>1, ReplyTypes
    <3>3. r.secrets = {} /\ r.holder = {} /\ r.counterparty = {} /\ r.close = {k}
      BY DEF NoReply
    <3> QED
      BY <2>1, <2>3, <3>1, <3>2, <3>3, CloseIInv
  <2> QED
    BY <1>9, <2>2, <2>3 DEF SignMutualCloseTx
<1>10. CASE Persist
  <2>1. TypeOK'
    BY <1>10 DEF IInv, TypeOK, Persist, history
  <2>2. PhaseFits'
    BY <1>10 DEF IInv, TypeOK, PhaseFits, Persist, Progress, EnforcementStates
  <2>3. DiskCovers'
    BY <1>10, CoversFewer DEF IInv, MemoryCovers, DiskCovers, Persist, history
  <2>4. MemoryCovers'
    BY <1>10 DEF IInv, MemoryCovers, Persist, history
  <2> QED
    BY <2>1, <2>2, <2>3, <2>4 DEF IInv
<1>11. CASE Reply
  <2>1. TypeOK'
    BY <1>11, NoReplyEmpty DEF IInv, TypeOK, Reply, Replies
  <2>2. PhaseFits'
    BY <1>11 DEF IInv, PhaseFits, Reply
  <2>3. DiskCovers'
    BY <1>11 DEF IInv, PhaseFits, MemoryCovers, DiskCovers, Reply
  <2>4. MemoryCovers'
    BY <1>11, <2>3, NoReplyEmpty DEF IInv, PhaseFits, DiskCovers, MemoryCovers, Reply
  <2> QED
    BY <2>1, <2>2, <2>3, <2>4 DEF IInv
<1>12. ASSUME NEW c \in ChainStates, ChainUpdate(c)
       PROVE  IInv'
  <2>1. TypeOK'
    BY <1>12 DEF IInv, TypeOK, ChainUpdate, history
  <2> QED
    BY <1>12, <2>1 DEF IInv, PhaseFits, DiskCovers, MemoryCovers, ChainUpdate, history
<1>13. CASE Crash
  BY <1>13, StopIInv DEF Crash
<1>14. CASE Restart
  <2>1. TypeOK'
    BY <1>14 DEF IInv, TypeOK, Restart, history
  <2>2. PhaseFits'
    BY <1>14 DEF IInv, TypeOK, PhaseFits, Restart, Progress, EnforcementStates
  <2>3. DiskCovers'
    BY <1>14 DEF IInv, DiskCovers, Restart, history
  <2>4. MemoryCovers'
    BY <1>14, <2>3, NoReplyEmpty DEF IInv, PhaseFits, DiskCovers, MemoryCovers, Restart, history
  <2> QED
    BY <2>1, <2>2, <2>3, <2>4 DEF IInv
<1>15. CASE UNCHANGED vars
  BY <1>15 DEF vars, history, IInv, TypeOK, PhaseFits, DiskCovers, MemoryCovers
<1> QED
  BY <1>1, <1>2, <1>3, <1>4, <1>5, <1>6, <1>7, <1>8, <1>9, <1>10, <1>11, <1>12,
     <1>13, <1>14, <1>15 DEF Next

\* The inductive invariant holds in every reachable state: whatever crashes, the disk
\* covers all that has left the signer.
THEOREM ChannelInvariant == Spec => []IInv
BY InitIInv, NextIInv, PTL DEF Spec

------------------------------------------------------------------------------
(* What follows from it                                                     *)

\* Every variable keeps its type, for any number of commitments.
THEOREM TypeCorrect == Spec => []TypeOK
<1>1. IInv => TypeOK
  BY DEF IInv
<1> QED
  BY <1>1, ChannelInvariant, PTL

\* policy-commitment-holder-not-revoked: no holder commitment is both signed and revoked,
\* for any number of commitments, crashes and repeated requests.
THEOREM NeverSignedAndRevoked == Spec => []HolderNotRevoked
<1>1. IInv => HolderNotRevoked
  <2> SUFFICES ASSUME IInv, NEW h \in holderOut, h.num \in secretsOut
               PROVE  FALSE
    BY DEF HolderNotRevoked
  <2>1. h.num + 1 >= disk.next_holder_commit_num /\ h.num + 2 <= disk.next_holder_commit_num
    BY DEF IInv, DiskCovers, Covers, HolderCovers
  <2>2. h.num \in Nat /\ disk.next_holder_commit_num \in Nat
    BY DEF IInv, TypeOK, HolderCommits, EnforcementStates
  <2> QED
    BY <2>1, <2>2
<1> QED
  BY <1>1, ChannelInvariant, PTL

\* policy-revoke-new-commitment-signed: a secret leaves only when a newer countersigned
\* commitment is durable.
THEOREM RevocationIsBacked == Spec => []RevokedOnlyWhenReplaced
<1>1. IInv => RevokedOnlyWhenReplaced
  <2> SUFFICES ASSUME IInv, NEW n \in secretsOut
               PROVE  /\ n + 2 <= disk.next_holder_commit_num
                      /\ [num |-> disk.next_holder_commit_num - 1,
                          info |-> disk.current_holder_commit_info] \in countersigned
    BY DEF RevokedOnlyWhenReplaced
  <2>1. n \in Nat /\ disk.next_holder_commit_num \in Nat
    BY DEF IInv, TypeOK, EnforcementStates
  <2>2. n + 2 <= disk.next_holder_commit_num
    BY DEF IInv, DiskCovers, Covers, HolderCovers
  <2>3. disk.next_holder_commit_num > 0
    BY <2>1, <2>2
  <2> QED
    BY <2>2, <2>3 DEF IInv, DiskCovers, Covers, HolderCovers
<1> QED
  BY <1>1, ChannelInvariant, PTL

\* policy-commitment-retry-same: all signatures for a counterparty number are for one
\* point and one content.
THEOREM RetriesAreSame == Spec => []CounterpartyRetrySame
<1>1. IInv => CounterpartyRetrySame
  BY DEF IInv, DiskCovers, Covers, CounterpartyCovers, CounterpartyRetrySame
<1> QED
  BY <1>1, ChannelInvariant, PTL

\* policy-commitment-previous-revoked: at most the last two signed counterparty commitments
\* are unrevoked, and the durable store opens every other one.
THEOREM RevokedCanBePunished == Spec => []RevokedArePunishable
<1>1. IInv => RevokedArePunishable
  <2> SUFFICES ASSUME IInv, NEW c \in counterpartyOut
               PROVE  \/ c.num \in disk.next_counterparty_revoke_num ..
                                      disk.next_counterparty_revoke_num + 1
                      \/ \E r \in disk.counterparty_secrets :
                            r.num = c.num /\ PointOf(r.secret) = c.point
    BY DEF RevokedArePunishable
  <2>1. /\ c.num \in Nat
        /\ disk.next_counterparty_commit_num \in Nat
        /\ disk.next_counterparty_revoke_num \in Nat
    BY DEF IInv, TypeOK, CounterpartyCommits, EnforcementStates
  <2>2. c.num < disk.next_counterparty_commit_num
    BY DEF IInv, DiskCovers, Covers, CounterpartyCovers
  <2>3. disk.next_counterparty_commit_num <= disk.next_counterparty_revoke_num + 2
    BY <2>1 DEF IInv, DiskCovers, Covers, CounterpartyFits
  <2>4. c.num < disk.next_counterparty_revoke_num =>
          \E r \in disk.counterparty_secrets : r.num = c.num /\ PointOf(r.secret) = c.point
    BY DEF IInv, DiskCovers, Covers, CounterpartyCovers
  <2> QED
    BY <2>1, <2>2, <2>3, <2>4
<1> QED
  BY <1>1, ChannelInvariant, PTL

\* policy-commitment-spends-active-utxo: a mutual close ends the revocations.
THEOREM CloseEndsRevocation == Spec => []NoRevocationAfterClose
<1>1. IInv => NoRevocationAfterClose
  BY DEF IInv, DiskCovers, Covers, HolderCovers, NoRevocationAfterClose
<1> QED
  BY <1>1, ChannelInvariant, PTL

\* The durable counters never go back and a closed channel stays as it is, because the
\* memory that Persist writes out is always progress over the disk.
THEOREM DurableProgress == Spec => ClosedIsFinal
<1> DEFINE Step == Progress(disk, disk')
<1>1. IInv /\ [Next]_vars => Step
  <2> SUFFICES ASSUME IInv, [Next]_vars PROVE Step
    OBVIOUS
  <2>1. CASE Persist
    BY <2>1 DEF IInv, PhaseFits, Persist
  <2>2. CASE disk' = disk
    BY <2>2 DEF IInv, TypeOK, Progress, EnforcementStates
  <2>3. Persist \/ disk' = disk
    BY DEF Next, vars, Handling, Stop, GetPerCommitmentPoint, GetPerCommitmentSecret,
           ValidateHolderCommitmentTx, SignHolderCommitmentTx,
           SignHolderCommitmentTxForRecovery, SignHolderCommitmentTxRedundant,
           SignCounterpartyCommitmentTx, ValidateCounterpartyRevocation,
           SignMutualCloseTx, Reply, ChainUpdate, Crash, Restart
  <2> QED
    BY <2>1, <2>2, <2>3
<1>2. Step => [ /\ disk'.next_holder_commit_num >= disk.next_holder_commit_num
                /\ disk'.next_counterparty_commit_num >= disk.next_counterparty_commit_num
                /\ disk'.next_counterparty_revoke_num >= disk.next_counterparty_revoke_num
                /\ disk.channel_closed =>
                      /\ disk'.channel_closed
                      /\ disk'.next_holder_commit_num = disk.next_holder_commit_num
                      /\ disk'.current_holder_commit_info = disk.current_holder_commit_info
              ]_vars
  BY DEF Progress
<1> QED
  BY <1>1, <1>2, ChannelInvariant, PTL DEF Spec, ClosedIsFinal

\* A request whose answer was lost is accepted again: the durable state always passes
\* the checks for the request that produced it.
THEOREM RetryIsAccepted == Spec => []LastRequestCanBeRetried
<1>1. IInv => LastRequestCanBeRetried
  <2> SUFFICES ASSUME IInv PROVE LastRequestCanBeRetried
    OBVIOUS
  <2> DEFINE e == disk
             h == e.next_holder_commit_num
             c == e.next_counterparty_commit_num
             r == e.next_counterparty_revoke_num
  <2>1. /\ h \in Nat /\ c \in Nat /\ r \in Nat
        /\ e.counterparty_secrets \subseteq [num : Nat, secret : Secrets]
    BY DEF IInv, TypeOK, EnforcementStates
  <2>2. HolderCovers(e, secretsOut, holderOut, closeOut, countersigned) /\ CounterpartyFits(e)
    BY DEF IInv, DiskCovers, Covers
  <2>3. ASSUME h > 0
        PROVE  /\ validate_holder_commitment_tx(e, h - 1, e.current_holder_commit_info)
               /\ set_next_holder_commit_num_ok(e, h)
    <3>1. h - 1 = 0 => e.current_holder_commit_info \in HtlcFree
      BY <2>1, <2>2 DEF HolderCovers
    <3> QED
      BY <2>1, <2>3, <3>1
         DEF validate_holder_commitment_tx, validate_commitment_tx, set_next_holder_commit_num_ok
  <2>4. ASSUME c > 0, c = r + 2 \/ r = 0, NotClosedOnChain(c - 1)
        PROVE  /\ validate_counterparty_commitment_tx(e, c - 1,
                      e.current_counterparty_point, e.current_counterparty_commit_info)
               /\ set_next_counterparty_commit_num_ok(e, c, e.current_counterparty_point)
    <3>1. c - 1 = 0 => e.current_counterparty_commit_info \in HtlcFree
      BY <2>1, <2>2 DEF CounterpartyFits
    <3>2. c <= r + 2
      BY <2>1, <2>2 DEF CounterpartyFits
    <3>3. validate_counterparty_commitment_tx(e, c - 1,
              e.current_counterparty_point, e.current_counterparty_commit_info)
      BY <2>1, <2>4, <3>1, <3>2 DEF validate_counterparty_commitment_tx, validate_commitment_tx
    <3>4. set_next_counterparty_commit_num_ok(e, c, e.current_counterparty_point)
      BY <2>1, <2>4, <3>2 DEF set_next_counterparty_commit_num_ok
    <3> QED
      BY <3>3, <3>4
  <2>5. ASSUME r > 0, c = r + 1
        PROVE  \E s \in Secrets :
                  /\ [num |-> r - 1, secret |-> s] \in e.counterparty_secrets
                  /\ validate_counterparty_revocation(e, r - 1, s)
                  /\ set_next_counterparty_revoke_num_ok(e, r)
    <3>1. PICK x \in e.counterparty_secrets :
              x.num = r - 1 /\ PointOf(x.secret) = e.previous_counterparty_point
      BY <2>2, <2>5 DEF CounterpartyFits
    <3>2. x = [num |-> r - 1, secret |-> x.secret] /\ x.secret \in Secrets
      BY <2>1, <3>1
    <3>3. validate_counterparty_revocation(e, r - 1, x.secret)
      BY <2>1, <2>5, <3>1
         DEF validate_counterparty_revocation, get_previous_counterparty_point
    <3>4. set_next_counterparty_revoke_num_ok(e, r)
      BY <2>1, <2>5 DEF set_next_counterparty_revoke_num_ok
    <3> QED
      BY <3>2, <3>3, <3>4
  <2> QED
    BY <2>3, <2>4, <2>5 DEF LastRequestCanBeRetried
<1> QED
  BY <1>1, ChannelInvariant, PTL

------------------------------------------------------------------------------
(* Channel implements ChannelPromise                                        *)

\* A request discloses one thing at most.
OneDisclosure(r) ==
    \/ /\ r.holder = {} /\ r.counterparty = {} /\ r.close = {}
       /\ \A x, y \in r.secrets : x = y
    \/ /\ r.secrets = {} /\ r.counterparty = {} /\ r.close = {}
       /\ \A x, y \in r.holder : x = y
    \/ /\ r.secrets = {} /\ r.holder = {} /\ r.close = {}
       /\ \A x, y \in r.counterparty : x = y
    \/ /\ r.secrets = {} /\ r.holder = {} /\ r.counterparty = {}
       /\ \A x, y \in r.close : x = y

\* A counterparty signature that waits is for the newest number.
AnswerFits ==
    /\ OneDisclosure(reply)
    /\ \A x \in reply.counterparty : x.num + 1 = estate.next_counterparty_commit_num

\* Every answer a request prepares is a single disclosure.
LEMMA AnswerFitsInvariant == Spec => []AnswerFits
<1>1. Init => AnswerFits
  BY NoReplyEmpty DEF Init, AnswerFits, OneDisclosure
<1>2. IInv /\ AnswerFits /\ [Next]_vars => AnswerFits'
  <2> SUFFICES ASSUME IInv, AnswerFits, [Next]_vars PROVE AnswerFits'
    OBVIOUS
  <2>1. ASSUME reply' = NoReply
        PROVE  AnswerFits'
    BY <2>1, NoReplyEmpty DEF AnswerFits, OneDisclosure
  <2>2. ASSUME NEW num, \/ reply' = [NoReply EXCEPT !.secrets = {num}]
                        \/ reply' = [NoReply EXCEPT !.secrets = {}]
        PROVE  AnswerFits'
    BY <2>2 DEF NoReply, AnswerFits, OneDisclosure
  <2>3. ASSUME NEW x, reply' = [NoReply EXCEPT !.holder = {x}]
        PROVE  AnswerFits'
    BY <2>3 DEF NoReply, AnswerFits, OneDisclosure
  <2>4. ASSUME NEW k, reply' = [NoReply EXCEPT !.close = {k}]
        PROVE  AnswerFits'
    BY <2>4 DEF NoReply, AnswerFits, OneDisclosure
  <2>5. ASSUME NEW num \in CommitNums, NEW point \in Points, NEW info \in Infos,
               NEW ok \in BOOLEAN, SignCounterpartyCommitmentTx(num, point, info, ok)
        PROVE  AnswerFits'
    <3> DEFINE x == [num |-> num, point |-> point, info |-> info]
               f == set_next_counterparty_commit_num(estate, num + 1, point, info)
    <3>1. CASE Stop
      BY <2>1, <3>1 DEF Stop
    <3>2. CASE /\ set_next_counterparty_commit_num_ok(estate, num + 1, point)
               /\ Advance(f, [NoReply EXCEPT !.counterparty = {x}])
      <4>1. estate \in EnforcementStates
        BY DEF IInv, TypeOK
      <4>2. f.next_counterparty_commit_num = num + 1
        BY <3>2, <4>1
           DEF set_next_counterparty_commit_num, set_next_counterparty_commit_num_ok,
               EnforcementStates
      <4>3. /\ reply'.counterparty = {x} /\ reply'.secrets = {}
            /\ reply'.holder = {} /\ reply'.close = {} /\ estate' = f
        BY <3>2 DEF Advance, NoReply
      <4> QED
        BY <4>2, <4>3 DEF AnswerFits, OneDisclosure
    <3> QED
      BY <2>5, <3>1, <3>2 DEF SignCounterpartyCommitmentTx
  <2>6. CASE UNCHANGED <<estate, reply>>
    BY <2>6 DEF AnswerFits
  <2>7. CASE Restart
    BY <2>1, <2>7 DEF IInv, PhaseFits, Restart
  <2>8. CASE \E num \in CommitNums : \/ GetPerCommitmentPoint(num)
                                      \/ GetPerCommitmentSecret(num)
                                      \/ SignHolderCommitmentTx(num)
    BY <2>1, <2>2, <2>3, <2>8
       DEF GetPerCommitmentPoint, GetPerCommitmentSecret, SignHolderCommitmentTx,
           Answer, Advance, Stop
  <2>9. CASE \E num \in CommitNums, info \in Infos, ok \in BOOLEAN :
                 \/ ValidateHolderCommitmentTx(num, info, ok)
                 \/ SignHolderCommitmentTxRedundant(num, info, ok)
    BY <2>1, <2>2, <2>3, <2>9
       DEF ValidateHolderCommitmentTx, SignHolderCommitmentTxRedundant, Advance, Stop
  <2>10. CASE SignHolderCommitmentTxForRecovery
    BY <2>1, <2>3, <2>10 DEF SignHolderCommitmentTxForRecovery, Advance, Stop
  <2>11. CASE \E num \in CommitNums, secret \in Secrets, chains \in BOOLEAN :
                 ValidateCounterpartyRevocation(num, secret, chains)
    BY <2>1, <2>11 DEF ValidateCounterpartyRevocation, Advance, Stop
  <2>12. CASE \E ok \in BOOLEAN : SignMutualCloseTx(ok)
    BY <2>1, <2>4, <2>12 DEF SignMutualCloseTx, Advance, Stop
  <2>13. CASE Persist
    BY <2>6, <2>13 DEF Persist
  <2>14. CASE Reply
    BY <2>1, <2>14 DEF Reply
  <2>15. CASE \E c \in ChainStates : ChainUpdate(c)
    BY <2>6, <2>15 DEF ChainUpdate
  <2>16. CASE Crash
    BY <2>1, <2>16 DEF Crash, Stop
  <2>17. CASE UNCHANGED vars
    BY <2>6, <2>17 DEF vars
  <2> QED
    BY <2>5, <2>7, <2>8, <2>9, <2>10, <2>11, <2>12, <2>13, <2>14, <2>15, <2>16, <2>17
       DEF Next
<1> QED
  BY <1>1, <1>2, ChannelInvariant, PTL DEF Spec

\* Only Reply changes what is outside.
LEMMA OnlyReplyDiscloses ==
    [Next]_vars => Reply \/ UNCHANGED <<secretsOut, holderOut, counterpartyOut, closeOut>>
BY DEF Next, vars, history, Handling, GetPerCommitmentPoint, GetPerCommitmentSecret,
       ValidateHolderCommitmentTx, SignHolderCommitmentTx,
       SignHolderCommitmentTxForRecovery, SignHolderCommitmentTxRedundant,
       SignCounterpartyCommitmentTx, ValidateCounterpartyRevocation,
       SignMutualCloseTx, Persist, ChainUpdate, Crash, Restart

\* Every behaviour of the channel, seen from outside, is one ChannelPromise allows: an
\* answer is a promised step, all else is a stutter.
THEOREM ChannelKeepsPromise == Spec => ImplementsPromise
<1>1. Init => Promise!Init
  BY DEF Init, Promise!Init
<1>2. IInv /\ AnswerFits /\ [Next]_vars => [Promise!Next]_(Promise!vars)
  <2> SUFFICES ASSUME IInv, AnswerFits, [Next]_vars
               PROVE  [Promise!Next]_(Promise!vars)
    OBVIOUS
  <2>1. CASE UNCHANGED <<secretsOut, holderOut, counterpartyOut, closeOut>>
    BY <2>1 DEF Promise!vars
  <2>2. CASE Reply
    <3> DEFINE nh == estate.next_holder_commit_num
               nc == estate.next_counterparty_commit_num
    <3>1. /\ secretsOut' = secretsOut \cup reply.secrets
          /\ holderOut' = holderOut \cup reply.holder
          /\ counterpartyOut' = counterpartyOut \cup reply.counterparty
          /\ closeOut' = closeOut \cup reply.close
      BY <2>2 DEF Reply
    <3>2. /\ HolderCovers(estate, secretsOut \cup reply.secrets, holderOut \cup reply.holder,
                          closeOut \cup reply.close, countersigned)
          /\ CounterpartyCovers(estate, counterpartyOut \cup reply.counterparty)
      BY <2>2 DEF IInv, MemoryCovers, Covers, Reply
    <3>3. /\ nh \in Nat /\ nc \in Nat
          /\ \A n \in secretsOut \cup reply.secrets : n \in Nat
          /\ \A x \in holderOut \cup reply.holder : x.num \in Nat
          /\ \A x \in counterpartyOut \cup reply.counterparty : x.num \in Nat
      BY DEF IInv, TypeOK, EnforcementStates, Replies, HolderCommits, CounterpartyCommits
    <3>4. ASSUME reply.holder = {}, reply.counterparty = {}, reply.close = {},
                 NEW n \in reply.secrets, reply.secrets = {n}
          PROVE  Promise!Next
      <4>1. \A x \in holderOut : x.num > n
        BY <3>2, <3>3 DEF HolderCovers
      <4>2. \A k \in closeOut : n + 2 <= k
        BY <3>2 DEF HolderCovers
      <4>3. Promise!Revoke(n)
        BY <3>1, <3>4, <4>1, <4>2 DEF Promise!Revoke
      <4> QED
        BY <3>1, <3>4, <4>3 DEF Promise!Next
    <3>5. ASSUME reply.secrets = {}, reply.counterparty = {}, reply.close = {},
                 NEW x \in reply.holder, reply.holder = {x}
          PROVE  Promise!Next
      <4>1. \A n \in secretsOut : n < x.num
        BY <3>2, <3>3 DEF HolderCovers
      <4>2. Promise!SignHolder(x)
        BY <3>1, <3>5, <4>1 DEF Promise!SignHolder
      <4> QED
        BY <3>1, <3>5, <4>2 DEF Promise!Next
    <3>6. ASSUME reply.secrets = {}, reply.holder = {}, reply.close = {},
                 NEW x \in reply.counterparty, reply.counterparty = {x}
          PROVE  Promise!Next
      <4>1. x.num + 1 = nc
        BY DEF AnswerFits
      <4>2. \A d \in counterpartyOut : d.num < nc /\ (d.num = x.num => d = x)
        BY <3>2, <3>6 DEF CounterpartyCovers
      <4>3. \A d \in counterpartyOut : d.num < x.num \/ d = x
        BY <3>3, <4>1, <4>2
      <4>4. Promise!SignCounterparty(x)
        BY <3>1, <3>6, <4>3 DEF Promise!SignCounterparty
      <4> QED
        BY <3>1, <3>6, <4>4 DEF Promise!Next
    <3>7. ASSUME reply.secrets = {}, reply.holder = {}, reply.counterparty = {},
                 NEW k \in reply.close, reply.close = {k}
          PROVE  Promise!Next
      <4>1. /\ \A n \in secretsOut : n + 2 <= k
            /\ \A j \in closeOut : j = k
        BY <3>2, <3>7 DEF HolderCovers
      <4>2. Promise!Close(k)
        BY <3>1, <3>7, <4>1 DEF Promise!Close
      <4> QED
        BY <3>1, <3>7, <4>2 DEF Promise!Next
    <3>8. CASE /\ reply.secrets = {} /\ reply.holder = {}
               /\ reply.counterparty = {} /\ reply.close = {}
      BY <3>1, <3>8 DEF Promise!vars
    <3> QED
      BY <3>4, <3>5, <3>6, <3>7, <3>8 DEF AnswerFits, OneDisclosure
  <2> QED
    BY <2>1, <2>2, OnlyReplyDiscloses
<1> QED
  BY <1>1, <1>2, ChannelInvariant, AnswerFitsInvariant, PTL
     DEF Spec, ImplementsPromise, Promise!Spec

------------------------------------------------------------------------------
(* The map of the channels: the inductive invariant                         *)

Slots ==
    [kind : {"stub"}, blockheight : 0..MaxHeight]
        \cup [kind : {"ready"}, setup : Setups, monitor : ChannelIds]

Maps(K, V) == UNION {[D -> V] : D \in SUBSET K}

Trackers == [height : 0..MaxHeight, listeners : Maps(Outpoints, ChannelIds)]

Typed ==
    /\ channels \in Maps(ChannelIds, Slots)
    /\ tracker \in Trackers
    /\ stored \in [channels : Maps(ChannelIds, Slots), tracker : Trackers]
    /\ answered \in Maps(ChannelIds, Setups)
    /\ status = "up"

\* A slot is on the disk as it is in memory, but for the name of its monitor.
SameSlot(a, b) ==
    /\ IsReady(a) <=> IsReady(b)
    /\ IF IsReady(a) THEN a.setup = b.setup ELSE a = b

Same(id) ==
    /\ id \in DOMAIN channels <=> id \in DOMAIN stored.channels
    /\ id \in DOMAIN channels => SameSlot(channels[id], stored.channels[id])

SameBut(except) == \A id \in ChannelIds \ except : Same(id)

Deletes == [op : {"delete_channel"}, id : ChannelIds]

NewWrite(id) == [op |-> "new_channel", id |-> id]
TrackerWrite == [op |-> "update_tracker"]
UpdateWrite(id) == [op |-> "update_channel", id |-> id]

\* No request, or prune_channels: every difference is a stub that will be deleted.
Deleting ==
    /\ writes \in Seq(Deletes)
    /\ tracker = stored.tracker
    /\ \A i \in 1..Len(writes) :
          /\ writes[i].id \notin DOMAIN channels
          /\ writes[i].id \in DOMAIN stored.channels => ~IsReady(stored.channels[writes[i].id])
    /\ \A id \in ChannelIds : Same(id) \/ \E i \in 1..Len(writes) : writes[i].id = id

\* new_channel: the disk does not have the id.
Making(id) ==
    /\ writes = <<NewWrite(id)>>
    /\ tracker = stored.tracker
    /\ id \in DOMAIN channels /\ ~IsReady(channels[id])
    /\ id \notin DOMAIN stored.channels
    /\ SameBut({id})

\* ready_channel: the disk has a stub, and the tracker there comes first.
Promoting(id) ==
    /\ \/ writes = <<TrackerWrite, UpdateWrite(id)>>
       \/ writes = <<UpdateWrite(id)>> /\ tracker = stored.tracker
    /\ id \in DOMAIN channels /\ IsReady(channels[id])
    /\ channels[id].setup.outpoint \in DOMAIN tracker.listeners
    /\ id \in DOMAIN stored.channels /\ ~IsReady(stored.channels[id])
    /\ SameBut({id})

\* A new height.
Tracking ==
    /\ writes = <<TrackerWrite>>
    /\ SameBut({})

WritesFit ==
    \/ Deleting
    \/ Tracking
    \/ \E id \in ChannelIds : Making(id) \/ Promoting(id)

\* The tracker on the disk has a listener for every channel that is ready there, and the
\* one in memory has all of those.
Restorable ==
    /\ \A id \in DOMAIN stored.channels :
          IsReady(stored.channels[id]) =>
              stored.channels[id].setup.outpoint \in DOMAIN stored.tracker.listeners
    /\ DOMAIN stored.tracker.listeners \subseteq DOMAIN tracker.listeners

MapIInv ==
    /\ Typed
    /\ WritesFit
    /\ Restorable
    /\ ReadyForGood
    /\ MonitorIsFed

------------------------------------------------------------------------------
(* Maps and sequences                                                       *)

\* A map has its keys and values where it should.
LEMMA MapType ==
    ASSUME NEW K, NEW V, NEW f \in Maps(K, V)
    PROVE  /\ DOMAIN f \subseteq K
           /\ \A x \in DOMAIN f : f[x] \in V
<1>1. PICK D \in SUBSET K : f \in [D -> V]
  BY DEF Maps
<1>. QED  BY <1>1

\* Put keeps a map a map.
LEMMA PutMap ==
    ASSUME NEW K, NEW V, NEW f \in Maps(K, V), NEW k \in K, NEW v \in V
    PROVE  Put(f, k, v) \in Maps(K, V)
<1>1. DOMAIN f \subseteq K /\ \A x \in DOMAIN f : f[x] \in V
  BY MapType
<1>2. {k} \cup DOMAIN f \in SUBSET K
  BY <1>1
<1>3. Put(f, k, v) \in [{k} \cup DOMAIN f -> V]
  BY <1>1 DEF Put
<1>. QED  BY <1>2, <1>3 DEF Maps

\* Restrict keeps a map a map.
LEMMA RestrictMap ==
    ASSUME NEW K, NEW V, NEW f \in Maps(K, V), NEW S \in SUBSET DOMAIN f
    PROVE  Restrict(f, S) \in Maps(K, V)
<1>1. DOMAIN f \subseteq K /\ \A x \in DOMAIN f : f[x] \in V
  BY MapType
<1>2. S \in SUBSET K
  BY <1>1
<1>3. Restrict(f, S) \in [S -> V]
  BY <1>1 DEF Restrict
<1>. QED  BY <1>2, <1>3 DEF Maps

\* The empty function is a map.
LEMMA EmptyMap ==
    ASSUME NEW K, NEW V
    PROVE  <<>> \in Maps(K, V) /\ DOMAIN <<>> = {}
<1>1. <<>> \in [{} -> V] /\ DOMAIN <<>> = {}
  OBVIOUS
<1>2. {} \in SUBSET K
  OBVIOUS
<1>. QED  BY <1>1, <1>2 DEF Maps

\* SetToSeq lists the members of a finite set and nothing else.
LEMMA SetToSeqLists ==
    ASSUME NEW S, IsFiniteSet(S)
    PROVE  /\ Cardinality(S) \in Nat
           /\ SetToSeq(S) \in [1..Cardinality(S) -> S]
           /\ \A x \in S : \E i \in 1..Cardinality(S) : SetToSeq(S)[i] = x
<1>. DEFINE n == Cardinality(S)
<1>1. n \in Nat /\ ExistsBijection(1..n, S)
  BY FS_CardinalityType
<1>2. PICK g : g \in Bijection(1..n, S)
  BY <1>1 DEF ExistsBijection
<1>3. g \in [1..n -> S] /\ IsInjective(g)
  BY <1>2 DEF Bijection, Injection
<1>4. SetToSeq(S) \in [1..n -> S] /\ IsInjective(SetToSeq(S))
  BY <1>3 DEF SetToSeq
<1>5. SetToSeq(S) \in Injection(1..n, S)
  BY <1>4 DEF Injection
<1>6. IsFiniteSet(1..n) /\ Cardinality(1..n) = n
  BY <1>1, FS_Interval
<1>7. SetToSeq(S) \in Surjection(1..n, S)
  BY <1>5, <1>6, FS_Injection
<1>. QED  BY <1>1, <1>4, <1>7 DEF Surjection

------------------------------------------------------------------------------
(* The initial state and the requests                                       *)

\* Nothing is in memory and nothing on the disk.
LEMMA InitOk == MapInit => MapIInv
<1>. SUFFICES ASSUME MapInit PROVE MapIInv
  OBVIOUS
<1>. USE DEF MapInit
<1>1. Typed
  <2>1. BaseHeight \in 0..MaxHeight
    BY NodeChannelsAssumption
  <2>. QED  BY <2>1, EmptyMap DEF Typed, Trackers
<1>2. Deleting
  <2>1. Len(writes) = 0 /\ writes \in Seq(Deletes)
    OBVIOUS
  <2>. QED  BY <2>1, EmptyMap DEF Deleting, Same
<1>3. Restorable
  BY EmptyMap DEF Restorable
<1>4. ReadyForGood /\ MonitorIsFed
  BY EmptyMap DEF ReadyForGood, MonitorIsFed
<1>. QED  BY <1>1, <1>2, <1>3, <1>4 DEF MapIInv, WritesFit

\* Between requests the memory and the disk agree.
LEMMA IdleIsSame ==
    ASSUME MapIInv, Idle
    PROVE  tracker = stored.tracker /\ SameBut({})
<1>1. writes = <<>>
  BY DEF Idle
<1>2. Deleting
  <2>1. \A id : <<>> # <<NewWrite(id)>> /\ <<>> # <<UpdateWrite(id)>>
                 /\ <<>> # <<TrackerWrite, UpdateWrite(id)>> /\ <<>> # <<TrackerWrite>>
    OBVIOUS
  <2>. QED  BY <1>1, <2>1 DEF MapIInv, WritesFit, Tracking, Making, Promoting
<1>3. 1..Len(writes) = {}
  BY <1>1
<1>. QED  BY <1>2, <1>3 DEF Deleting, SameBut

\* What a stub and a ready channel are told apart by.
LEMMA SlotKinds ==
    /\ \A h \in 0..MaxHeight : Stub(h) \in Slots /\ ~IsReady(Stub(h))
    /\ \A setup \in Setups, m \in ChannelIds :
          /\ Ready(setup, m) \in Slots /\ IsReady(Ready(setup, m))
          /\ Ready(setup, m).setup = setup /\ Ready(setup, m).monitor = m
    /\ \A slot \in Slots : IsReady(slot) => slot.setup \in Setups /\ slot.monitor \in ChannelIds
BY DEF Stub, Ready, Slots, IsReady

\* What Typed says of the parts of the tracker and of the disk.
LEMMA TypedParts ==
    ASSUME Typed
    PROVE  /\ DOMAIN channels \subseteq ChannelIds
           /\ \A id \in DOMAIN channels : channels[id] \in Slots
           /\ tracker.height \in 0..MaxHeight
           /\ tracker.listeners \in Maps(Outpoints, ChannelIds)
           /\ stored.channels \in Maps(ChannelIds, Slots)
           /\ DOMAIN stored.channels \subseteq ChannelIds
           /\ \A id \in DOMAIN stored.channels : stored.channels[id] \in Slots
           /\ stored.tracker \in Trackers
           /\ stored.tracker.listeners \in Maps(Outpoints, ChannelIds)
           /\ \A o \in DOMAIN stored.tracker.listeners : stored.tracker.listeners[o] \in ChannelIds
           /\ DOMAIN answered \subseteq ChannelIds
<1>1. /\ channels \in Maps(ChannelIds, Slots)
      /\ tracker \in Trackers
      /\ stored.channels \in Maps(ChannelIds, Slots)
      /\ stored.tracker \in Trackers
      /\ answered \in Maps(ChannelIds, Setups)
  BY DEF Typed
<1>2. /\ tracker.height \in 0..MaxHeight
      /\ tracker.listeners \in Maps(Outpoints, ChannelIds)
      /\ stored.tracker.listeners \in Maps(Outpoints, ChannelIds)
  BY <1>1 DEF Trackers
<1>3. /\ DOMAIN channels \subseteq ChannelIds
      /\ \A id \in DOMAIN channels : channels[id] \in Slots
  BY <1>1, MapType
<1>4. /\ DOMAIN stored.channels \subseteq ChannelIds
      /\ \A id \in DOMAIN stored.channels : stored.channels[id] \in Slots
  BY <1>1, MapType
<1>5. \A o \in DOMAIN stored.tracker.listeners : stored.tracker.listeners[o] \in ChannelIds
  BY <1>2, MapType
<1>6. DOMAIN answered \subseteq ChannelIds
  BY <1>1, MapType
<1>. QED  BY <1>1, <1>2, <1>3, <1>4, <1>5, <1>6

\* new_channel adds a stub that the disk does not have.
LEMMA NewChannelOk ==
    ASSUME MapIInv, NEW id \in ChannelIds, new_channel(id)
    PROVE  MapIInv'
<1>. DEFINE stub == Stub(tracker.height)
<1>1. /\ Idle
      /\ id \notin DOMAIN channels
      /\ channels' = Put(channels, id, stub)
      /\ writes' = <<NewWrite(id)>>
      /\ UNCHANGED <<tracker, stored, answered, status>>
  BY DEF new_channel, NewWrite
<1>2. Typed /\ ReadyForGood /\ MonitorIsFed /\ Restorable /\ status = "up"
  BY DEF MapIInv, Typed
<1>3. tracker = stored.tracker /\ SameBut({})
  BY <1>1, IdleIsSame
<1>4. stub \in Slots /\ ~IsReady(stub)
  BY <1>2, TypedParts, SlotKinds
<1>. HIDE DEF stub
<1>5. /\ channels' \in Maps(ChannelIds, Slots)
      /\ DOMAIN channels' = {id} \cup DOMAIN channels
      /\ channels'[id] = stub
      /\ \A x \in DOMAIN channels : x # id => channels'[x] = channels[x]
  <2>1. channels \in Maps(ChannelIds, Slots)
    BY <1>2 DEF Typed
  <2>2. Put(channels, id, stub) \in Maps(ChannelIds, Slots)
    BY <1>4, <2>1, PutMap, Zenon
  <2>3. /\ DOMAIN Put(channels, id, stub) = {id} \cup DOMAIN channels
        /\ Put(channels, id, stub)[id] = stub
        /\ \A x \in DOMAIN channels : x # id => Put(channels, id, stub)[x] = channels[x]
    BY DEF Put
  <2>. QED  BY <1>1, <2>2, <2>3
<1>6. Typed'
  BY <1>1, <1>2, <1>5 DEF Typed
<1>7. Making(id)'
  BY <1>1, <1>3, <1>4, <1>5 DEF Making, SameBut, Same, NewWrite
<1>8. Restorable'
  BY <1>1, <1>2 DEF Restorable
<1>9. ReadyForGood'
  BY <1>1, <1>2, <1>5 DEF ReadyForGood
<1>10. MonitorIsFed'
  BY <1>1, <1>2, <1>4, <1>5 DEF MonitorIsFed
<1>. QED  BY <1>6, <1>7, <1>8, <1>9, <1>10 DEF MapIInv, WritesFit

\* A stub becomes ready: the listener at its outpoint is its own monitor.
LEMMA PromoteOk ==
    ASSUME MapIInv, NEW id \in ChannelIds, NEW setup \in Setups,
           Idle, id \in DOMAIN channels, ~IsReady(channels[id]),
           Promote(id, setup), UNCHANGED <<stored, status>>
    PROVE  MapIInv'
<1>. DEFINE promoted == Ready(setup, id)
<1>. DEFINE listeners == Put(tracker.listeners, setup.outpoint, id)
<1>1. /\ channels' = Put(channels, id, promoted)
      /\ writes' = <<TrackerWrite, UpdateWrite(id)>>
      /\ UNCHANGED answered
  BY DEF Promote, TrackerWrite, UpdateWrite
<1>14. tracker' = [tracker EXCEPT !.listeners = listeners]
  BY Zenon DEF Promote
<1>2. Typed /\ ReadyForGood /\ MonitorIsFed /\ Restorable /\ status = "up"
  BY DEF MapIInv, Typed
<1>3. tracker = stored.tracker /\ SameBut({})
  BY IdleIsSame
<1>4. promoted \in Slots /\ IsReady(promoted) /\ promoted.setup = setup /\ promoted.monitor = id
  BY SlotKinds
<1>5. setup.outpoint \in Outpoints
  BY DEF Setups
<1>. HIDE DEF promoted
<1>6. /\ channels' \in Maps(ChannelIds, Slots)
      /\ DOMAIN channels' = {id} \cup DOMAIN channels
      /\ channels'[id] = promoted
      /\ \A x \in DOMAIN channels : x # id => channels'[x] = channels[x]
  <2>1. channels \in Maps(ChannelIds, Slots)
    BY <1>2 DEF Typed
  <2>2. Put(channels, id, promoted) \in Maps(ChannelIds, Slots)
    BY <1>4, <2>1, PutMap, Zenon
  <2>3. /\ DOMAIN Put(channels, id, promoted) = {id} \cup DOMAIN channels
        /\ Put(channels, id, promoted)[id] = promoted
        /\ \A x \in DOMAIN channels : x # id => Put(channels, id, promoted)[x] = channels[x]
    BY DEF Put
  <2>. QED  BY <1>1, <2>2, <2>3
<1>15. tracker.listeners \in Maps(Outpoints, ChannelIds)
  BY <1>2, TypedParts
<1>7. /\ listeners \in Maps(Outpoints, ChannelIds)
      /\ DOMAIN listeners = {setup.outpoint} \cup DOMAIN tracker.listeners
      /\ listeners[setup.outpoint] = id
      /\ \A o \in DOMAIN tracker.listeners :
            o # setup.outpoint => listeners[o] = tracker.listeners[o]
  <2>1. Put(tracker.listeners, setup.outpoint, id) \in Maps(Outpoints, ChannelIds)
    BY <1>5, <1>15, PutMap, Zenon
  <2>2. /\ DOMAIN Put(tracker.listeners, setup.outpoint, id) = {setup.outpoint} \cup DOMAIN tracker.listeners
        /\ Put(tracker.listeners, setup.outpoint, id)[setup.outpoint] = id
        /\ \A x \in DOMAIN tracker.listeners : x # setup.outpoint => Put(tracker.listeners, setup.outpoint, id)[x] = tracker.listeners[x]
    BY DEF Put
  <2>. QED  BY <2>1, <2>2
<1>. HIDE DEF listeners
<1>8. tracker' \in Trackers /\ tracker'.listeners = listeners
  BY <1>2, <1>7, <1>14 DEF Typed, Trackers
<1>9. Typed'
  BY <1>1, <1>2, <1>6, <1>8 DEF Typed
<1>10. Promoting(id)'
  <2>1. id \in DOMAIN stored'.channels /\ ~IsReady(stored'.channels[id])
    BY <1>3 DEF SameBut, Same, SameSlot
  <2>2. SameBut({id})'
    BY <1>3, <1>6 DEF SameBut, Same
  <2>. QED  BY <1>1, <1>4, <1>6, <1>7, <1>8, <2>1, <2>2 DEF Promoting, TrackerWrite, UpdateWrite
<1>11. Restorable'
  BY <1>2, <1>7, <1>8 DEF Restorable
<1>12. ReadyForGood'
  BY <1>1, <1>2, <1>6 DEF ReadyForGood
<1>13. MonitorIsFed'
  <2>. SUFFICES ASSUME NEW i \in DOMAIN channels', IsReady(channels'[i]),
                       ~\E other \in DOMAIN channels' :
                           /\ other # i
                           /\ IsReady(channels'[other])
                           /\ channels'[other].setup.outpoint = channels'[i].setup.outpoint
                PROVE  /\ channels'[i].setup.outpoint \in DOMAIN tracker'.listeners
                       /\ tracker'.listeners[channels'[i].setup.outpoint] = channels'[i].monitor
    BY DEF MonitorIsFed
  <2>1. CASE i = id
    BY <2>1, <1>4, <1>6, <1>7, <1>8
  <2>2. CASE i # id
    <3>1. channels'[i] = channels[i] /\ i \in DOMAIN channels
      BY <2>2, <1>6
    <3>2. channels[i].setup.outpoint # setup.outpoint
      BY <2>2, <3>1, <1>4, <1>6
    <3>3. ~\E other \in DOMAIN channels :
              /\ other # i
              /\ IsReady(channels[other])
              /\ channels[other].setup.outpoint = channels[i].setup.outpoint
      BY <3>1, <1>6
    <3>4. /\ channels[i].setup.outpoint \in DOMAIN tracker.listeners
          /\ tracker.listeners[channels[i].setup.outpoint] = channels[i].monitor
      BY <3>1, <3>3, <1>2 DEF MonitorIsFed
    <3>. QED  BY <3>1, <3>2, <3>4, <1>7, <1>8
  <2>. QED  BY <2>1, <2>2
<1>. QED  BY <1>9, <1>10, <1>11, <1>12, <1>13 DEF MapIInv, WritesFit

\* A channel that is ready already is answered from memory, and so from the disk.
LEMMA ReadyChannelOk ==
    ASSUME MapIInv, NEW id \in ChannelIds, NEW setup \in Setups, ready_channel(id, setup)
    PROVE  MapIInv'
<1>1. Idle /\ id \in DOMAIN channels /\ UNCHANGED <<stored, status>>
  BY DEF ready_channel
<1>2. CASE ~IsReady(channels[id])
  <2>1. Promote(id, setup)
    BY <1>2 DEF ready_channel
  <2>. QED  BY <1>1, <1>2, <2>1, PromoteOk
<1>3. CASE IsReady(channels[id])
  <2>1. /\ channels[id].setup = setup
        /\ answered' = Put(answered, id, setup)
        /\ UNCHANGED <<channels, tracker, writes>>
    BY <1>3 DEF ready_channel
  <2>2. Typed /\ ReadyForGood /\ WritesFit /\ MonitorIsFed /\ Restorable /\ status = "up"
    BY DEF MapIInv, Typed
  <2>3. SameBut({})
    BY <1>1, IdleIsSame
  <2>4. Put(answered, id, setup) \in Maps(ChannelIds, Setups)
    <3>1. answered \in Maps(ChannelIds, Setups)
      BY <2>2 DEF Typed
    <3>. QED  BY <3>1, PutMap, Zenon
  <2>5. /\ DOMAIN Put(answered, id, setup) = {id} \cup DOMAIN answered
        /\ Put(answered, id, setup)[id] = setup
        /\ \A x \in DOMAIN answered : x # id => Put(answered, id, setup)[x] = answered[x]
    BY DEF Put
  <2>6. /\ id \in DOMAIN stored.channels
        /\ IsReady(stored.channels[id]) /\ stored.channels[id].setup = setup
    BY <1>1, <1>3, <2>1, <2>3 DEF SameBut, Same, SameSlot
  <2>7. Typed'
    BY <1>1, <2>1, <2>2, <2>4 DEF Typed
  <2>8. ReadyForGood'
    BY <1>1, <1>3, <2>1, <2>2, <2>5, <2>6 DEF ReadyForGood
  <2>9. (WritesFit /\ Restorable /\ MonitorIsFed)'
    BY <1>1, <2>1, <2>2
       DEF WritesFit, Restorable, MonitorIsFed, Deleting, Tracking, Making, Promoting,
           SameBut, Same
  <2>. QED  BY <2>7, <2>8, <2>9 DEF MapIInv
<1>. QED  BY <1>2, <1>3

\* A new height leaves the listeners as they are.
LEMMA SetHeightOk ==
    ASSUME MapIInv, NEW height \in 1..MaxHeight, SetHeight(height)
    PROVE  MapIInv'
<1>1. /\ Idle
      /\ writes' = <<TrackerWrite>>
      /\ UNCHANGED <<channels, stored, answered, status>>
  BY DEF SetHeight, TrackerWrite
<1>2. tracker' = [tracker EXCEPT !.height = height]
  BY DEF SetHeight
<1>3. Typed /\ ReadyForGood /\ MonitorIsFed /\ Restorable
  BY DEF MapIInv
<1>4. SameBut({})
  BY <1>1, IdleIsSame
<1>5. height \in 0..MaxHeight
  BY NodeChannelsAssumption
<1>6. tracker' \in Trackers /\ tracker'.listeners = tracker.listeners
  BY <1>2, <1>3, <1>5 DEF Typed, Trackers
<1>7. Typed'
  BY <1>1, <1>3, <1>6 DEF Typed
<1>8. Tracking'
  BY <1>1, <1>4 DEF Tracking, SameBut, Same, TrackerWrite
<1>9. (Restorable /\ ReadyForGood /\ MonitorIsFed)'
  BY <1>1, <1>3, <1>6 DEF Restorable, ReadyForGood, MonitorIsFed
<1>. QED  BY <1>7, <1>8, <1>9 DEF MapIInv, WritesFit

\* Pruning removes stubs, and leaves a write for each of them.
LEMMA PruneOk ==
    ASSUME MapIInv, prune_channels
    PROVE  MapIInv'
<1>. DEFINE kept == DOMAIN channels \ Prunable
<1>1. /\ Idle
      /\ channels' = Restrict(channels, kept)
      /\ UNCHANGED <<tracker, stored, answered, status>>
  BY DEF prune_channels
<1>2. Typed /\ ReadyForGood /\ MonitorIsFed /\ Restorable
  BY DEF MapIInv
<1>3. tracker = stored.tracker /\ SameBut({})
  BY <1>1, IdleIsSame
<1>4. /\ Prunable \subseteq DOMAIN channels /\ DOMAIN channels \subseteq ChannelIds
      /\ \A id \in Prunable : ~IsReady(channels[id])
  BY <1>2, TypedParts DEF Prunable
<1>5. IsFiniteSet(Prunable)
  BY <1>4, NodeChannelsAssumption, FS_Subset
<1>. DEFINE n == Cardinality(Prunable)
<1>6. /\ n \in Nat
      /\ SetToSeq(Prunable) \in [1..n -> Prunable]
      /\ \A x \in Prunable : \E i \in 1..n : SetToSeq(Prunable)[i] = x
  BY <1>5, SetToSeqLists
<1>7. writes' = [i \in 1..n |-> [op |-> "delete_channel", id |-> SetToSeq(Prunable)[i]]]
  BY DEF prune_channels
<1>. HIDE DEF n
<1>8. /\ writes' \in Seq(Deletes) /\ Len(writes') = n
      /\ \A i \in 1..n : writes'[i].id = SetToSeq(Prunable)[i] /\ writes'[i].id \in Prunable
  <2>1. \A i \in 1..n : SetToSeq(Prunable)[i] \in ChannelIds
    BY <1>4, <1>6
  <2>2. writes' \in [1..n -> Deletes]
    BY <1>7, <2>1 DEF Deletes
  <2>3. writes' \in Seq(Deletes) /\ Len(writes') = n
    BY <1>6, <2>2
  <2>. QED  BY <1>6, <1>7, <2>3
<1>9. /\ DOMAIN channels' = kept
      /\ \A id \in kept : channels'[id] = channels[id]
  BY <1>1 DEF Restrict
<1>10. channels' \in Maps(ChannelIds, Slots)
  <2>1. channels \in Maps(ChannelIds, Slots) /\ kept \in SUBSET DOMAIN channels
    BY <1>2 DEF Typed
  <2>2. Restrict(channels, kept) \in Maps(ChannelIds, Slots)
    BY <2>1, RestrictMap, Zenon
  <2>. QED  BY <1>1, <2>2
<1>11. Typed'
  BY <1>1, <1>2, <1>10 DEF Typed
<1>12. Deleting'
  <2>1. tracker' = stored'.tracker
    BY <1>1, <1>3
  <2>2. ASSUME NEW i \in 1..Len(writes')
        PROVE  /\ writes'[i].id \notin DOMAIN channels'
               /\ writes'[i].id \in DOMAIN stored'.channels =>
                      ~IsReady(stored'.channels[writes'[i].id])
    <3>1. writes'[i].id \in Prunable
      BY <1>8, <2>2
    <3>. QED  BY <1>1, <1>3, <1>4, <1>9, <3>1 DEF SameBut, Same, SameSlot
  <2>3. ASSUME NEW id \in ChannelIds
        PROVE  Same(id)' \/ \E i \in 1..Len(writes') : writes'[i].id = id
    <3>1. CASE id \in Prunable
      BY <1>6, <1>8, <3>1
    <3>2. CASE id \notin Prunable
      BY <1>1, <1>3, <1>9, <3>2 DEF SameBut, Same
    <3>. QED  BY <3>1, <3>2
  <2>. QED  BY <1>8, <2>1, <2>2, <2>3 DEF Deleting
<1>13. Restorable'
  BY <1>1, <1>2 DEF Restorable
<1>14. ReadyForGood'
  BY <1>1, <1>2, <1>4, <1>9 DEF ReadyForGood
<1>15. MonitorIsFed'
  <2>. SUFFICES ASSUME NEW i \in DOMAIN channels', IsReady(channels'[i]),
                       ~\E other \in DOMAIN channels' :
                           /\ other # i
                           /\ IsReady(channels'[other])
                           /\ channels'[other].setup.outpoint = channels'[i].setup.outpoint
                PROVE  /\ channels'[i].setup.outpoint \in DOMAIN tracker'.listeners
                       /\ tracker'.listeners[channels'[i].setup.outpoint] = channels'[i].monitor
    BY DEF MonitorIsFed
  <2>1. channels'[i] = channels[i] /\ i \in DOMAIN channels
    BY <1>9
  <2>2. ~\E other \in DOMAIN channels :
            /\ other # i
            /\ IsReady(channels[other])
            /\ channels[other].setup.outpoint = channels[i].setup.outpoint
    BY <1>4, <1>9, <2>1
  <2>3. status = "up"
    BY <1>2 DEF Typed
  <2>. QED  BY <1>1, <1>2, <2>1, <2>2, <2>3 DEF MonitorIsFed
<1>. QED  BY <1>11, <1>12, <1>13, <1>14, <1>15 DEF MapIInv, WritesFit

------------------------------------------------------------------------------
(* The writes                                                               *)

\* A write of the tracker, of a height or the first of ready_channel.
LEMMA TrackerWriteOk ==
    ASSUME MapIInv, WriteNext, writes # <<>>, Head(writes) = TrackerWrite,
           Tracking \/ \E id \in ChannelIds : Promoting(id)
    PROVE  MapIInv'
<1>1. /\ stored' = [stored EXCEPT !.tracker = tracker]
      /\ writes' = Tail(writes)
      /\ answered' = answered
      /\ status' = status
      /\ UNCHANGED <<channels, tracker>>
  BY DEF WriteNext, WriteOk, Written, TrackerWrite
<1>2. Typed /\ ReadyForGood /\ MonitorIsFed /\ Restorable /\ status = "up"
  BY DEF MapIInv, Typed
<1>3. /\ stored' \in [channels : Maps(ChannelIds, Slots), tracker : Trackers]
      /\ stored'.channels = stored.channels
      /\ stored'.tracker = tracker
  <2>1. stored \in [channels : Maps(ChannelIds, Slots), tracker : Trackers] /\ tracker \in Trackers
    BY <1>2 DEF Typed
  <2>. QED  BY <1>1, <2>1
<1>4. writes' = Tail(writes) /\ answered' = answered /\ status' = "up"
      /\ channels' = channels /\ tracker' = tracker
  BY <1>1, <1>2
<1>5. Typed'
  BY <1>2, <1>3, <1>4 DEF Typed
<1>6. WritesFit'
  <2>1. CASE Tracking
    <3>1. writes' = <<>> /\ Len(writes') = 0 /\ writes' \in Seq(Deletes)
      BY <2>1, <1>4 DEF Tracking
    <3>2. \A id \in ChannelIds : Same(id)'
      BY <2>1, <1>3, <1>4 DEF Tracking, SameBut, Same
    <3>3. tracker' = stored'.tracker /\ 1..Len(writes') = {}
      BY <1>3, <1>4, <3>1
    <3>4. Deleting'
      BY <3>1, <3>2, <3>3 DEF Deleting
    <3>. QED  BY <3>4 DEF WritesFit
  <2>2. ASSUME NEW id \in ChannelIds, Promoting(id)
        PROVE  Promoting(id)'
    <3>1. writes = <<TrackerWrite, UpdateWrite(id)>>
      BY <2>2 DEF Promoting, TrackerWrite, UpdateWrite
    <3>2. writes' = <<UpdateWrite(id)>>
      BY <1>4, <3>1
    <3>3. SameBut({id})'
      BY <2>2, <1>3, <1>4 DEF Promoting, SameBut, Same
    <3>. QED  BY <2>2, <1>3, <1>4, <3>2, <3>3 DEF Promoting, UpdateWrite
  <2>. QED  BY <2>1, <2>2 DEF WritesFit
<1>7. Restorable'
  BY <1>2, <1>3, <1>4 DEF Restorable
<1>8. ReadyForGood'
  BY <1>2, <1>3, <1>4 DEF ReadyForGood
<1>9. MonitorIsFed'
  BY <1>2, <1>4 DEF MonitorIsFed
<1>. QED  BY <1>5, <1>6, <1>7, <1>8, <1>9 DEF MapIInv

\* A pruned stub is deleted; none of those still to come is a ready channel.
LEMMA DeleteWriteOk ==
    ASSUME MapIInv, WriteNext, writes # <<>>, Deleting
    PROVE  MapIInv'
<1>1. /\ writes \in Seq(Deletes) /\ Len(writes) \in Nat /\ Len(writes) > 0
      /\ Head(writes) = writes[1] /\ 1 \in 1..Len(writes)
      /\ Tail(writes) \in Seq(Deletes) /\ Len(Tail(writes)) = Len(writes) - 1
      /\ \A i \in 1..Len(Tail(writes)) : Tail(writes)[i] = writes[i + 1] /\ i + 1 \in 1..Len(writes)
  BY DEF Deleting
<1>. DEFINE gone == writes[1].id
<1>2. gone \in ChannelIds /\ Head(writes).op = "delete_channel" /\ Head(writes).id = gone
  <2>1. writes[1] \in Deletes
    BY <1>1
  <2>. QED  BY <1>1, <2>1 DEF Deletes
<1>3. /\ stored' = [stored EXCEPT !.channels = Drop(stored.channels, gone)]
      /\ writes' = Tail(writes)
      /\ answered' = answered
      /\ status' = status
      /\ UNCHANGED <<channels, tracker>>
  BY <1>2 DEF WriteNext, WriteOk, Written
<1>4. Typed /\ ReadyForGood /\ MonitorIsFed /\ Restorable /\ status = "up"
  BY DEF MapIInv, Typed
<1>5. gone \notin DOMAIN channels
  BY <1>1 DEF Deleting
<1>. HIDE DEF gone
<1>6. writes' = Tail(writes) /\ answered' = answered /\ status' = "up"
      /\ channels' = channels /\ tracker' = tracker
  BY <1>3, <1>4
<1>. DEFINE left == DOMAIN stored.channels \ {gone}
<1>7. Drop(stored.channels, gone) \in Maps(ChannelIds, Slots)
  <2>1. stored.channels \in Maps(ChannelIds, Slots)
    BY <1>4, TypedParts
  <2>2. left \in SUBSET DOMAIN stored.channels
    OBVIOUS
  <2>3. Restrict(stored.channels, left) \in Maps(ChannelIds, Slots)
    BY <2>1, <2>2, RestrictMap, Zenon
  <2>. QED  BY <2>3 DEF Drop
<1>8. /\ DOMAIN Drop(stored.channels, gone) = left
      /\ \A id \in left : Drop(stored.channels, gone)[id] = stored.channels[id]
  BY DEF Drop, Restrict
<1>9. /\ stored' \in [channels : Maps(ChannelIds, Slots), tracker : Trackers]
      /\ stored'.tracker = stored.tracker
      /\ stored'.channels = Drop(stored.channels, gone)
  <2>1. stored \in [channels : Maps(ChannelIds, Slots), tracker : Trackers]
    BY <1>4 DEF Typed
  <2>. QED  BY <1>3, <1>7, <2>1
<1>10. /\ DOMAIN stored'.channels = left
       /\ \A id \in left : stored'.channels[id] = stored.channels[id]
  BY <1>8, <1>9
<1>11. Typed'
  BY <1>4, <1>6, <1>9 DEF Typed
<1>12. Deleting'
  <2>1. writes' \in Seq(Deletes) /\ tracker' = stored'.tracker
    BY <1>1, <1>6, <1>9 DEF Deleting
  <2>2. ASSUME NEW i \in 1..Len(writes')
        PROVE  /\ writes'[i].id \notin DOMAIN channels'
               /\ writes'[i].id \in DOMAIN stored'.channels =>
                      ~IsReady(stored'.channels[writes'[i].id])
    <3>1. writes'[i] = writes[i + 1] /\ i + 1 \in 1..Len(writes)
      BY <1>1, <1>6, <2>2
    <3>2. /\ writes[i + 1].id \notin DOMAIN channels
          /\ writes[i + 1].id \in DOMAIN stored.channels =>
                 ~IsReady(stored.channels[writes[i + 1].id])
      BY <3>1 DEF Deleting
    <3>. QED  BY <1>6, <1>10, <3>1, <3>2
  <2>3. ASSUME NEW id \in ChannelIds
        PROVE  Same(id)' \/ \E i \in 1..Len(writes') : writes'[i].id = id
    <3>1. CASE id = gone
      BY <1>5, <1>6, <1>10, <3>1 DEF Same
    <3>2. CASE id # gone /\ Same(id)
      BY <1>6, <1>10, <3>2 DEF Same
    <3>3. CASE id # gone /\ ~Same(id)
      <4>1. PICK k \in 1..Len(writes) : writes[k].id = id
        BY <3>3 DEF Deleting
      <4>2. k # 1
        BY <3>3, <4>1 DEF gone
      <4>3. k - 1 \in 1..Len(Tail(writes)) /\ (k - 1) + 1 = k
        BY <1>1, <4>1, <4>2
      <4>4. Tail(writes)[k - 1] = writes[k]
        BY <1>1, <4>3
      <4>. QED  BY <1>6, <4>1, <4>3, <4>4
    <3>. QED  BY <3>1, <3>2, <3>3
  <2>. QED  BY <2>1, <2>2, <2>3 DEF Deleting
<1>13. Restorable'
  BY <1>4, <1>6, <1>9, <1>10 DEF Restorable
<1>14. ReadyForGood'
  BY <1>4, <1>5, <1>6, <1>10 DEF ReadyForGood
<1>15. MonitorIsFed'
  BY <1>4, <1>6 DEF MonitorIsFed
<1>. QED  BY <1>11, <1>12, <1>13, <1>14, <1>15 DEF MapIInv, WritesFit

\* What is left of the argument when a slot goes to the disk as it is in memory.
LEMMA SlotWriteOk ==
    ASSUME MapIInv, NEW id \in ChannelIds, id \in DOMAIN channels, SameBut({id}),
           tracker = stored.tracker,
           IsReady(channels[id]) =>
               channels[id].setup.outpoint \in DOMAIN tracker.listeners,
           stored' = [stored EXCEPT !.channels = Put(stored.channels, id, channels[id])],
           writes' = <<>>, status' = status, UNCHANGED <<channels, tracker>>
    PROVE  /\ stored' \in [channels : Maps(ChannelIds, Slots), tracker : Trackers]
           /\ DOMAIN stored'.channels = {id} \cup DOMAIN stored.channels
           /\ stored'.channels[id] = channels[id]
           /\ \A x \in DOMAIN stored.channels : x # id => stored'.channels[x] = stored.channels[x]
           /\ status = "up" /\ status' = "up"
           /\ (WritesFit /\ Restorable /\ MonitorIsFed)'
<1>1. Typed /\ MonitorIsFed /\ Restorable /\ status = "up"
  BY DEF MapIInv, Typed
<1>2. Put(stored.channels, id, channels[id]) \in Maps(ChannelIds, Slots)
  <2>1. stored.channels \in Maps(ChannelIds, Slots) /\ channels[id] \in Slots
    BY <1>1, TypedParts
  <2>. QED  BY <2>1, PutMap, Zenon
<1>. DEFINE new == Put(stored.channels, id, channels[id])
<1>3. /\ DOMAIN new = {id} \cup DOMAIN stored.channels
      /\ new[id] = channels[id]
      /\ \A x \in DOMAIN stored.channels : x # id => new[x] = stored.channels[x]
  BY DEF Put
<1>. HIDE DEF new
<1>4. /\ stored' \in [channels : Maps(ChannelIds, Slots), tracker : Trackers]
      /\ stored'.tracker = stored.tracker
      /\ stored'.channels = new
  <2>1. stored \in [channels : Maps(ChannelIds, Slots), tracker : Trackers]
    BY <1>1 DEF Typed
  <2>2. stored' = [stored EXCEPT !.channels = new]
    BY DEF new
  <2>3. new \in Maps(ChannelIds, Slots)
    BY <1>2 DEF new
  <2>. QED  BY <2>1, <2>2, <2>3
<1>5. /\ DOMAIN stored'.channels = {id} \cup DOMAIN stored.channels
      /\ stored'.channels[id] = channels[id]
      /\ \A x \in DOMAIN stored.channels : x # id => stored'.channels[x] = stored.channels[x]
  BY <1>3, <1>4
<1>6. status' = "up" /\ channels' = channels /\ tracker' = tracker
  BY <1>1
<1>7. WritesFit'
  <2>1. writes' \in Seq(Deletes) /\ Len(writes') = 0
    OBVIOUS
  <2>2. \A x \in ChannelIds : Same(x)'
    <3>. SUFFICES ASSUME NEW x \in ChannelIds PROVE Same(x)'
      OBVIOUS
    <3>1. CASE x = id
      BY <1>5, <1>6, <3>1 DEF Same, SameSlot
    <3>2. CASE x # id
      BY <1>5, <1>6, <3>2 DEF SameBut, Same
    <3>. QED  BY <3>1, <3>2
  <2>3. tracker' = stored'.tracker
    BY <1>4, <1>6
  <2>. QED  BY <2>1, <2>2, <2>3 DEF WritesFit, Deleting
<1>8. Restorable'
  BY <1>1, <1>4, <1>5, <1>6 DEF Restorable
<1>9. MonitorIsFed'
  BY <1>1, <1>6 DEF MonitorIsFed
<1>. QED  BY <1>1, <1>4, <1>5, <1>6, <1>7, <1>8, <1>9

\* The stub that new_channel made is written: no entry is in its way.
LEMMA MakeWriteOk ==
    ASSUME MapIInv, WriteNext, NEW id \in ChannelIds, Making(id)
    PROVE  MapIInv'
<1>1. Head(writes) = NewWrite(id) /\ Tail(writes) = <<>>
  BY DEF Making
<1>2. /\ Head(writes).op = "new_channel" /\ Head(writes).id = id
  BY <1>1 DEF NewWrite
<1>3. id \notin DOMAIN stored.channels
  BY DEF Making
<1>4. WriteOk(Head(writes))
  BY <1>2, <1>3 DEF WriteOk
<1>5. Written(Head(writes)) = [stored EXCEPT !.channels = Put(stored.channels, id, channels[id])]
  BY <1>2 DEF Written
<1>6. /\ stored' = Written(Head(writes)) /\ writes' = Tail(writes)
      /\ status' = status /\ UNCHANGED <<channels, tracker>>
  BY <1>4 DEF WriteNext
<1>7. answered' = answered
  BY <1>2, <1>4 DEF WriteNext
<1>8. /\ stored' \in [channels : Maps(ChannelIds, Slots), tracker : Trackers]
      /\ DOMAIN stored'.channels = {id} \cup DOMAIN stored.channels
      /\ \A x \in DOMAIN stored.channels : x # id => stored'.channels[x] = stored.channels[x]
      /\ status = "up" /\ status' = "up"
      /\ (WritesFit /\ Restorable /\ MonitorIsFed)'
  <2>1. stored' = [stored EXCEPT !.channels = Put(stored.channels, id, channels[id])]
    BY <1>5, <1>6
  <2>2. /\ id \in DOMAIN channels /\ ~IsReady(channels[id])
        /\ SameBut({id}) /\ tracker = stored.tracker /\ writes' = <<>>
    BY <1>1, <1>6 DEF Making
  <2>. QED  BY <1>6, <2>1, <2>2, SlotWriteOk
<1>9. Typed /\ ReadyForGood
  BY DEF MapIInv
<1>10. Typed'
  BY <1>6, <1>7, <1>8, <1>9 DEF Typed
<1>11. ReadyForGood'
  BY <1>3, <1>6, <1>7, <1>8, <1>9 DEF ReadyForGood
<1>. QED  BY <1>8, <1>10, <1>11 DEF MapIInv

\* The channel that ready_channel promoted replaces its stub, and the caller is answered.
LEMMA UpdateWriteOk ==
    ASSUME MapIInv, WriteNext, NEW id \in ChannelIds, Promoting(id), writes = <<UpdateWrite(id)>>
    PROVE  MapIInv'
<1>1. Head(writes) = UpdateWrite(id) /\ Tail(writes) = <<>>
  OBVIOUS
<1>2. Head(writes).op = "update_channel" /\ Head(writes).id = id
  BY <1>1 DEF UpdateWrite
<1>3. /\ id \in DOMAIN stored.channels /\ id \in DOMAIN channels /\ IsReady(channels[id])
      /\ channels[id].setup.outpoint \in DOMAIN tracker.listeners
      /\ SameBut({id})
  BY DEF Promoting
<1>13. tracker = stored.tracker
  BY DEF Promoting
<1>4. WriteOk(Head(writes))
  BY <1>2, <1>3 DEF WriteOk
<1>5. Written(Head(writes)) = [stored EXCEPT !.channels = Put(stored.channels, id, channels[id])]
  BY <1>2 DEF Written
<1>6. /\ stored' = Written(Head(writes)) /\ writes' = Tail(writes)
      /\ status' = status /\ UNCHANGED <<channels, tracker>>
  BY <1>4 DEF WriteNext
<1>. DEFINE setup == channels[id].setup
<1>7. answered' = Put(answered, id, setup)
  BY <1>2, <1>4 DEF WriteNext
<1>8. /\ stored' \in [channels : Maps(ChannelIds, Slots), tracker : Trackers]
      /\ DOMAIN stored'.channels = {id} \cup DOMAIN stored.channels
      /\ stored'.channels[id] = channels[id]
      /\ \A x \in DOMAIN stored.channels : x # id => stored'.channels[x] = stored.channels[x]
      /\ status = "up" /\ status' = "up"
      /\ (WritesFit /\ Restorable /\ MonitorIsFed)'
  <2>1. stored' = [stored EXCEPT !.channels = Put(stored.channels, id, channels[id])]
    BY <1>5, <1>6
  <2>2. writes' = <<>>
    BY <1>1, <1>6
  <2>. QED  BY <1>3, <1>6, <1>13, <2>1, <2>2, SlotWriteOk
<1>9. Typed /\ ReadyForGood
  BY DEF MapIInv
<1>10. setup \in Setups
  <2>1. channels[id] \in Slots
    BY <1>3, <1>9, TypedParts
  <2>. QED  BY <1>3, <2>1, SlotKinds
<1>. HIDE DEF setup
<1>11. /\ answered' \in Maps(ChannelIds, Setups)
       /\ DOMAIN answered' = {id} \cup DOMAIN answered
       /\ answered'[id] = setup
       /\ \A x \in DOMAIN answered : x # id => answered'[x] = answered[x]
  <2>1. answered \in Maps(ChannelIds, Setups)
    BY <1>9 DEF Typed
  <2>2. Put(answered, id, setup) \in Maps(ChannelIds, Setups)
    BY <1>10, <2>1, PutMap, Zenon
  <2>3. /\ DOMAIN Put(answered, id, setup) = {id} \cup DOMAIN answered
        /\ Put(answered, id, setup)[id] = setup
        /\ \A x \in DOMAIN answered : x # id => Put(answered, id, setup)[x] = answered[x]
    BY DEF Put
  <2>. QED  BY <1>7, <2>2, <2>3
<1>12. Typed'
  BY <1>6, <1>8, <1>9, <1>11 DEF Typed
<1>14. ReadyForGood'
  <2>. SUFFICES ASSUME NEW x \in DOMAIN answered'
                PROVE  /\ x \in DOMAIN channels /\ IsReady(channels[x])
                       /\ channels[x].setup = answered'[x]
                       /\ x \in DOMAIN stored'.channels /\ IsReady(stored'.channels[x])
                       /\ stored'.channels[x].setup = answered'[x]
    BY <1>6 DEF ReadyForGood
  <2>1. CASE x = id
    BY <1>3, <1>8, <1>11, <2>1 DEF setup
  <2>2. CASE x # id
    BY <1>8, <1>9, <1>11, <2>2 DEF ReadyForGood
  <2>. QED  BY <2>1, <2>2
<1>. QED  BY <1>8, <1>12, <1>14 DEF MapIInv

\* Every write of every request succeeds, and brings the disk nearer to the memory.
LEMMA PersistOk ==
    ASSUME MapIInv, WriteNext
    PROVE  MapIInv'
<1>1. writes # <<>>
  BY DEF WriteNext
<1>2. CASE Deleting
  BY <1>1, <1>2, DeleteWriteOk
<1>3. CASE Tracking
  <2>1. Head(writes) = TrackerWrite
    BY <1>3 DEF Tracking
  <2>. QED  BY <1>1, <1>3, <2>1, TrackerWriteOk
<1>4. ASSUME NEW id \in ChannelIds, Making(id) PROVE MapIInv'
  BY <1>4, MakeWriteOk
<1>5. ASSUME NEW id \in ChannelIds, Promoting(id) PROVE MapIInv'
  <2>1. CASE writes = <<TrackerWrite, UpdateWrite(id)>>
    <3>1. Head(writes) = TrackerWrite
      BY <2>1
    <3>. QED  BY <1>1, <1>5, <3>1, TrackerWriteOk
  <2>2. CASE writes = <<UpdateWrite(id)>>
    BY <1>5, <2>2, UpdateWriteOk
  <2>. QED  BY <1>5, <2>1, <2>2 DEF Promoting
<1>. QED  BY <1>2, <1>3, <1>4, <1>5 DEF MapIInv, WritesFit

------------------------------------------------------------------------------
(* The restart, and the theorems                                            *)

\* restore_node finds a monitor for every ready channel, and takes the disk for truth.
LEMMA RestartOk ==
    ASSUME MapIInv, RestartNode
    PROVE  MapIInv'
<1>1. Typed /\ ReadyForGood /\ Restorable /\ status = "up"
  BY DEF MapIInv, Typed
<1>2. /\ writes' = <<>> /\ tracker' = stored.tracker /\ UNCHANGED <<stored, answered>>
      /\ channels' = [id \in DOMAIN stored.channels |->
                         restore_channel(id, stored.channels[id], stored.tracker.listeners)]
      /\ status' = "up"
  BY <1>1 DEF RestartNode, Restorable
<1>3. DOMAIN channels' = DOMAIN stored.channels
  BY <1>2
<1>4. ASSUME NEW id \in DOMAIN stored.channels
      PROVE  /\ channels'[id] \in Slots
             /\ SameSlot(channels'[id], stored.channels[id])
             /\ IsReady(channels'[id]) =>
                   /\ channels'[id].setup.outpoint \in DOMAIN stored.tracker.listeners
                   /\ stored.tracker.listeners[channels'[id].setup.outpoint]
                         = channels'[id].monitor
  <2>1. stored.channels[id] \in Slots
    BY <1>1, TypedParts
  <2>2. channels'[id] = restore_channel(id, stored.channels[id], stored.tracker.listeners)
    BY <1>2
  <2>3. CASE ~IsReady(stored.channels[id])
    <3>1. channels'[id] = stored.channels[id]
      BY <2>2, <2>3 DEF restore_channel
    <3>. QED  BY <2>1, <2>3, <3>1 DEF SameSlot
  <2>4. CASE IsReady(stored.channels[id])
    <3>. DEFINE setup == stored.channels[id].setup
                monitor == stored.tracker.listeners[setup.outpoint]
    <3>1. setup \in Setups /\ setup.outpoint \in DOMAIN stored.tracker.listeners
      BY <1>1, <2>1, <2>4, SlotKinds DEF Restorable
    <3>2. monitor \in ChannelIds
      BY <1>1, <3>1, TypedParts
    <3>3. channels'[id] = Ready(setup, monitor)
      BY <2>2, <2>4 DEF restore_channel
    <3>. HIDE DEF setup, monitor
    <3>4. /\ channels'[id] \in Slots /\ IsReady(channels'[id])
          /\ channels'[id].setup = setup /\ channels'[id].monitor = monitor
      BY <3>1, <3>2, <3>3, SlotKinds
    <3>. QED  BY <2>4, <3>1, <3>4 DEF SameSlot, setup, monitor
  <2>. QED  BY <2>3, <2>4
<1>5. channels' \in Maps(ChannelIds, Slots)
  <2>1. DOMAIN stored.channels \in SUBSET ChannelIds
    BY <1>1, TypedParts
  <2>2. channels' \in [DOMAIN stored.channels -> Slots]
    BY <1>2, <1>4
  <2>. QED  BY <2>1, <2>2 DEF Maps
<1>6. Typed'
  <2>1. stored.tracker \in Trackers
    BY <1>1, TypedParts
  <2>. QED  BY <1>1, <1>2, <1>5, <2>1 DEF Typed
<1>7. Deleting'
  <2>1. writes' \in Seq(Deletes) /\ Len(writes') = 0
    BY <1>2
  <2>2. \A id \in ChannelIds : Same(id)'
    BY <1>2, <1>3, <1>4 DEF Same
  <2>. QED  BY <1>2, <2>1, <2>2 DEF Deleting
<1>8. Restorable'
  BY <1>1, <1>2 DEF Restorable
<1>9. ReadyForGood'
  BY <1>1, <1>2, <1>3, <1>4 DEF ReadyForGood, SameSlot
<1>10. MonitorIsFed'
  BY <1>2, <1>3, <1>4 DEF MonitorIsFed
<1>. QED  BY <1>6, <1>7, <1>8, <1>9, <1>10 DEF MapIInv, WritesFit

\* The invariant of the channel map: every difference between the memory and the disk is
\* what is left to write of one request, and the disk alone is always a state to start from.
THEOREM ChannelMapInvariant == MapSpec => []MapIInv
<1>1. ASSUME MapIInv, [MapNext]_mapVars PROVE MapIInv'
  <2>1. ASSUME NEW id \in ChannelIds, new_channel(id) PROVE MapIInv'
    BY <1>1, <2>1, NewChannelOk
  <2>2. ASSUME NEW id \in ChannelIds, NEW setup \in Setups, ready_channel(id, setup) PROVE MapIInv'
    BY <1>1, <2>2, ReadyChannelOk
  <2>3. ASSUME NEW height \in 1..MaxHeight, SetHeight(height) PROVE MapIInv'
    BY <1>1, <2>3, SetHeightOk
  <2>4. CASE prune_channels
    BY <1>1, <2>4, PruneOk
  <2>5. CASE WriteNext
    BY <1>1, <2>5, PersistOk
  <2>6. CASE RestartNode
    BY <1>1, <2>6, RestartOk
  <2>7. CASE UNCHANGED mapVars
    BY <1>1, <2>7
       DEF mapVars, MapIInv, Typed, WritesFit, Restorable, ReadyForGood, MonitorIsFed, Deleting,
           Tracking, Making, Promoting, SameBut, Same
  <2>. QED  BY <1>1, <2>1, <2>2, <2>3, <2>4, <2>5, <2>6, <2>7 DEF MapNext
<1>. QED  BY InitOk, <1>1, PTL DEF MapSpec

\* A channel the caller was told is ready stays ready with its setup, in memory and on the
\* disk, whatever is pruned and wherever the signer stops.
THEOREM ChannelsReadyForGood == MapSpec => []ReadyForGood
<1>1. MapIInv => ReadyForGood
  BY DEF MapIInv
<1>. QED  BY ChannelMapInvariant, <1>1, PTL

\* No write aborts its transaction, and restore_node finds the monitor of every channel.
THEOREM ChannelsNeverPanic == MapSpec => []NeverPanics
<1>1. MapIInv => NeverPanics
  BY DEF MapIInv, Typed, NeverPanics
<1>. QED  BY ChannelMapInvariant, <1>1, PTL

\* Between requests a restart would neither lose nor bring back anything.
THEOREM ChannelsAreDurable == MapSpec => []MemoryIsDurable
<1>1. MapIInv => MemoryIsDurable
  <2>. SUFFICES ASSUME MapIInv, Idle
                PROVE  /\ tracker = stored.tracker
                       /\ DOMAIN channels = DOMAIN stored.channels
                       /\ \A id \in DOMAIN channels : SameSlot(channels[id], stored.channels[id])
    BY DEF MemoryIsDurable, SameSlot
  <2>1. tracker = stored.tracker /\ \A id \in ChannelIds : Same(id)
    BY IdleIsSame DEF SameBut
  <2>2. DOMAIN channels \subseteq ChannelIds /\ DOMAIN stored.channels \subseteq ChannelIds
    BY TypedParts DEF MapIInv
  <2>. QED  BY <2>1, <2>2 DEF Same
<1>. QED  BY ChannelMapInvariant, <1>1, PTL

\* The tracker feeds the monitor that a ready channel reads, over pruning, new heights and
\* restarts, unless two ready channels share an outpoint.
THEOREM ChannelsMonitorIsFed == MapSpec => []MonitorIsFed
<1>1. MapIInv => MonitorIsFed
  BY DEF MapIInv
<1>. QED  BY ChannelMapInvariant, <1>1, PTL

==============================================================================
