------------------------------- MODULE Channel -------------------------------
(***************************************************************************)
(* One ready channel of the signer: the EnforcementState that decides what *)
(* may be signed or revoked, the requests that read and advance it, the    *)
(* copy the persister keeps, and the loss of the memory at a crash.        *)
(*                                                                         *)
(* The caller (the Lightning node) is not trusted: every request may come  *)
(* at any time with any commitment number, any commitment content and any  *)
(* point or secret.  The properties speak of what has LEFT the signer.     *)
(*                                                                         *)
(* A request is served under the channel's lock in up to three steps: the  *)
(* handler changes the memory, Persist writes it out, Reply gives the      *)
(* answer to the caller.  The signer can crash between any two of them.    *)
(***************************************************************************)
EXTENDS Integers

CONSTANTS
    MaxCommitNum,   \* the last commitment number (INITIAL_COMMITMENT_NUMBER)
    Infos,          \* the contents (CommitmentInfo2) that pass the value policies
    HtlcFree,       \* the contents with no HTLC
    Secrets,        \* the counterparty's per-commitment secrets
    None            \* Option::None

ASSUME ChannelAssumption ==
    /\ MaxCommitNum \in Nat
    /\ HtlcFree \subseteq Infos
    /\ None \notin Infos
    /\ \A s \in Secrets : <<"point", s>> # None

VARIABLES
    estate,          \* EnforcementState in memory
    disk,            \* EnforcementState as last persisted
    phase,           \* where the signer is in serving a request, or "down"
    reply,           \* what the request being served is about to disclose
    cstate,          \* what the chain monitor reports of the funding output
    secretsOut,      \* holder commitment numbers whose secret has left the signer
    holderOut,       \* holder commitments whose signature has left the signer
    counterpartyOut, \* counterparty commitments whose signature has left the signer
    closeOut,        \* next_holder_commit_num at each mutual close signature that left
    countersigned    \* holder commitments the counterparty's signature was seen for

history == <<secretsOut, holderOut, counterpartyOut, closeOut>>
vars == <<estate, disk, phase, reply, cstate, history, countersigned>>

CommitNums == 0..MaxCommitNum

\* PublicKey::from_secret_key: the point of a secret, one to one
PointOf(s) == <<"point", s>>
Points == {PointOf(s) : s \in Secrets}

HolderCommits == [num : Nat, info : Infos]
CounterpartyCommits == [num : Nat, point : Points, info : Infos]

EnforcementStates ==
    [ next_holder_commit_num            : Nat,
      next_counterparty_commit_num      : Nat,
      next_counterparty_revoke_num      : Nat,
      current_counterparty_point        : Points \cup {None},
      previous_counterparty_point       : Points \cup {None},
      current_holder_commit_info        : Infos \cup {None},
      current_counterparty_commit_info  : Infos \cup {None},
      previous_counterparty_commit_info : Infos \cup {None},
      channel_closed                    : BOOLEAN,
      counterparty_secrets              : SUBSET [num : Nat, secret : Secrets] ]

EnforcementState_new ==
    [ next_holder_commit_num            |-> 0,
      next_counterparty_commit_num      |-> 0,
      next_counterparty_revoke_num      |-> 0,
      current_counterparty_point        |-> None,
      previous_counterparty_point       |-> None,
      current_holder_commit_info        |-> None,
      current_counterparty_commit_info  |-> None,
      previous_counterparty_commit_info |-> None,
      channel_closed                    |-> FALSE,
      counterparty_secrets              |-> {} ]

Replies == [ secrets      : SUBSET Nat,
             holder       : SUBSET HolderCommits,
             counterparty : SUBSET CounterpartyCommits,
             close        : SUBSET Nat ]

ChainStates == [funding_buried : BOOLEAN, closed_on_chain : BOOLEAN]

NoReply == [secrets |-> {}, holder |-> {}, counterparty |-> {}, close |-> {}]

------------------------------------------------------------------------------
(* EnforcementState: the changes                                            *)

set_next_holder_commit_num(e, num, info) ==
    [e EXCEPT !.next_holder_commit_num = num,
              !.current_holder_commit_info = info]

\* A new number moves the current commitment to previous; a retry changes nothing.
set_next_counterparty_commit_num(e, num, point, info) ==
    IF num = e.next_counterparty_commit_num + 1
    THEN [e EXCEPT !.next_counterparty_commit_num = num,
                   !.previous_counterparty_point = e.current_counterparty_point,
                   !.previous_counterparty_commit_info = e.current_counterparty_commit_info,
                   !.current_counterparty_point = point,
                   !.current_counterparty_commit_info = info]
    ELSE e

\* Mutant: the revoked commitment's point is dropped with its content.
BugForgetsPreviousPoint(e, num) ==
    [e EXCEPT !.next_counterparty_revoke_num = num,
              !.previous_counterparty_point =
                  IF num + 1 >= e.next_counterparty_commit_num THEN None ELSE @,
              !.previous_counterparty_commit_info =
                  IF num + 1 >= e.next_counterparty_commit_num THEN None ELSE @]

\* The previous point is kept for retries, the revoked content is dropped.
set_next_counterparty_revoke_num(e, num) ==
    [e EXCEPT !.next_counterparty_revoke_num = num,
              !.previous_counterparty_commit_info =
                  IF num + 1 >= e.next_counterparty_commit_num THEN None ELSE @]

get_previous_counterparty_point(e, num) ==
    CASE num + 1 = e.next_counterparty_commit_num -> e.current_counterparty_point
      [] num + 2 = e.next_counterparty_commit_num -> e.previous_counterparty_point
      [] OTHER -> None

\* The store of revocation secrets keeps a secret only past the ones it has seen.
provide_secret(e, num, secret) ==
    IF \E r \in e.counterparty_secrets : r.num >= num
    THEN e
    ELSE [e EXCEPT !.counterparty_secrets = @ \cup {[num |-> num, secret |-> secret]}]

------------------------------------------------------------------------------
(* Validator: the checks that guard the changes                             *)

get_per_commitment_point_ok(e, num) == num <= e.next_holder_commit_num + 1

\* Mutant: the secret is given out one commitment early.
BugSecretTooEarly(e, num) == num + 1 <= e.next_holder_commit_num

get_per_commitment_secret_ok(e, num) == num + 2 <= e.next_holder_commit_num

\* OnchainValidator: what refuses for now (Temporary), and what refuses for good.
FundingBuried(num) == num > 0 => cstate.funding_buried
NotClosedOnChain(num) == num > 0 => ~cstate.closed_on_chain

validate_commitment_tx(num, info) == num = 0 => info \in HtlcFree

\* Mutant: a new holder commitment is accepted after the channel was closed.
BugAdvancesWhenClosed(e, num, info) ==
    /\ num >= e.next_holder_commit_num => NotClosedOnChain(num)
    /\ validate_commitment_tx(num, info)
    /\ num + 1 = e.next_holder_commit_num => info = e.current_holder_commit_info
    /\ ~(num + 2 <= e.next_holder_commit_num)

validate_holder_commitment_tx(e, num, info) ==
    /\ num >= e.next_holder_commit_num => NotClosedOnChain(num)
    /\ validate_commitment_tx(num, info)
    /\ num + 1 = e.next_holder_commit_num => info = e.current_holder_commit_info
    /\ ~(num + 2 <= e.next_holder_commit_num)
    /\ ~(num = e.next_holder_commit_num /\ e.channel_closed)

set_next_holder_commit_num_ok(e, num) ==
    num \in {e.next_holder_commit_num, e.next_holder_commit_num + 1}

\* Mutant: a retry may come with other contents.
BugRetryOtherInfo(e, num, point, info) ==
    /\ NotClosedOnChain(num)
    /\ validate_commitment_tx(num, info)
    /\ num <= e.next_counterparty_revoke_num + 1
    /\ num + 1 = e.next_counterparty_commit_num => point = e.current_counterparty_point

validate_counterparty_commitment_tx(e, num, point, info) ==
    /\ NotClosedOnChain(num)
    /\ validate_commitment_tx(num, info)
    /\ num <= e.next_counterparty_revoke_num + 1
    /\ num + 1 = e.next_counterparty_commit_num =>
          /\ point = e.current_counterparty_point
          /\ info = e.current_counterparty_commit_info

set_next_counterparty_commit_num_ok(e, num, point) ==
    LET delta == IF num = 1 THEN 1 ELSE 2 IN
    /\ num # 0
    /\ num >= e.next_counterparty_revoke_num + delta
    /\ num <= e.next_counterparty_revoke_num + 2
    /\ \/ num = e.next_counterparty_commit_num /\ point = e.current_counterparty_point
       \/ num = e.next_counterparty_commit_num + 1

\* Mutant: the secret is not compared with the point it should open.
BugAnySecret(e, num, secret) ==
    /\ num = e.next_counterparty_revoke_num \/ num + 1 = e.next_counterparty_revoke_num
    /\ get_previous_counterparty_point(e, num) # None

validate_counterparty_revocation(e, num, secret) ==
    /\ num = e.next_counterparty_revoke_num \/ num + 1 = e.next_counterparty_revoke_num
    /\ get_previous_counterparty_point(e, num) = PointOf(secret)

set_next_counterparty_revoke_num_ok(e, num) ==
    /\ num # 0
    /\ num + 2 >= e.next_counterparty_commit_num
    /\ num + 1 <= e.next_counterparty_commit_num
    /\ num = e.next_counterparty_revoke_num \/ num = e.next_counterparty_revoke_num + 1

validate_mutual_close_tx(e) ==
    /\ e.current_holder_commit_info \in HtlcFree
    /\ e.current_counterparty_commit_info \in HtlcFree

------------------------------------------------------------------------------
(* Serving a request                                                        *)

Init ==
    /\ estate = EnforcementState_new
    /\ disk = EnforcementState_new
    /\ phase = "ready"
    /\ reply = NoReply
    /\ cstate = [funding_buried |-> FALSE, closed_on_chain |-> FALSE]
    /\ secretsOut = {}
    /\ holderOut = {}
    /\ counterpartyOut = {}
    /\ closeOut = {}
    /\ countersigned = {}

\* A request that changes nothing answers at once.
Answer(r) ==
    /\ phase' = "reply"
    /\ reply' = r
    /\ UNCHANGED estate

\* Mutant: the answer leaves without waiting for the persister.
BugAnswersBeforePersist(e, r) ==
    /\ phase' = "reply"
    /\ estate' = e
    /\ reply' = r

\* A request that changes the state in memory persists it before it answers.
Advance(e, r) ==
    /\ phase' = "persist"
    /\ estate' = e
    /\ reply' = r

\* A refusal that is not temporary, and a panic, end the signer's loop.
Stop ==
    /\ phase' = "down"
    /\ reply' = NoReply
    /\ UNCHANGED estate

Handling == phase = "ready" /\ UNCHANGED <<disk, cstate, history>>

------------------------------------------------------------------------------
(* The holder's commitments                                                 *)

\* Message::GetPerCommitmentPoint: the point, with the secret two numbers back.
GetPerCommitmentPoint(num) ==
    /\ Handling
    /\ IF /\ get_per_commitment_point_ok(estate, num)
          /\ num >= 2 => get_per_commitment_secret_ok(estate, num - 2)
       THEN Answer([NoReply EXCEPT !.secrets = IF num >= 2 THEN {num - 2} ELSE {}])
       ELSE Stop
    /\ UNCHANGED countersigned

GetPerCommitmentSecret(num) ==
    /\ Handling
    /\ IF get_per_commitment_secret_ok(estate, num)
       THEN Answer([NoReply EXCEPT !.secrets = {num}])
       ELSE Stop
    /\ UNCHANGED countersigned

\* ok: the verdict of the value and payment policies and of the check of the
\* counterparty's signatures.  The answer holds the secret of the commitment before.
ValidateHolderCommitmentTx(num, info, ok) ==
    /\ Handling
    /\ num >= estate.next_holder_commit_num => FundingBuried(num)
    /\ IF /\ ok
          /\ get_per_commitment_point_ok(estate, num)
          /\ validate_holder_commitment_tx(estate, num, info)
          /\ set_next_holder_commit_num_ok(estate, num + 1)
       THEN /\ Advance(set_next_holder_commit_num(estate, num + 1, info),
                       [NoReply EXCEPT !.secrets = IF num >= 1 THEN {num - 1} ELSE {}])
            /\ countersigned' = countersigned \cup {[num |-> num, info |-> info]}
       ELSE Stop /\ UNCHANGED countersigned

SignHolderCommitmentTx(num) ==
    /\ Handling
    /\ IF /\ num + 1 = estate.next_holder_commit_num
          /\ estate.current_holder_commit_info # None
       THEN Advance([estate EXCEPT !.channel_closed = TRUE],
                    [NoReply EXCEPT !.holder =
                        {[num |-> num, info |-> estate.current_holder_commit_info]}])
       ELSE Stop
    /\ UNCHANGED countersigned

\* Mutant: recovery before the first holder commitment is not refused.
BugRecoversWithoutCommitment ==
    /\ Handling
    /\ Advance([estate EXCEPT !.channel_closed = TRUE],
               [NoReply EXCEPT !.holder =
                   {[num |-> estate.next_holder_commit_num - 1,
                     info |-> estate.current_holder_commit_info]}])
    /\ UNCHANGED countersigned

\* The number is the signer's own, not the caller's.
SignHolderCommitmentTxForRecovery ==
    /\ Handling
    /\ IF estate.current_holder_commit_info # None
       THEN Advance([estate EXCEPT !.channel_closed = TRUE],
                    [NoReply EXCEPT !.holder =
                        {[num |-> estate.next_holder_commit_num - 1,
                          info |-> estate.current_holder_commit_info]}])
       ELSE Stop
    /\ UNCHANGED countersigned

\* The content is the caller's: it is validated again, and need not be countersigned.
SignHolderCommitmentTxRedundant(num, info, ok) ==
    /\ Handling
    /\ num >= estate.next_holder_commit_num => FundingBuried(num)
    /\ IF /\ ok
          /\ get_per_commitment_point_ok(estate, num)
          /\ validate_holder_commitment_tx(estate, num, info)
       THEN Advance([estate EXCEPT !.channel_closed = TRUE],
                    [NoReply EXCEPT !.holder = {[num |-> num, info |-> info]}])
       ELSE Stop
    /\ UNCHANGED countersigned

------------------------------------------------------------------------------
(* The counterparty's commitments                                           *)

SignCounterpartyCommitmentTx(num, point, info, ok) ==
    /\ Handling
    /\ FundingBuried(num)
    /\ IF /\ ok
          /\ validate_counterparty_commitment_tx(estate, num, point, info)
          /\ set_next_counterparty_commit_num_ok(estate, num + 1, point)
       THEN Advance(set_next_counterparty_commit_num(estate, num + 1, point, info),
                    [NoReply EXCEPT !.counterparty =
                        {[num |-> num, point |-> point, info |-> info]}])
       ELSE Stop
    /\ UNCHANGED countersigned

\* chains: the secret is consistent with the ones stored.
ValidateCounterpartyRevocation(num, secret, chains) ==
    /\ Handling
    /\ IF /\ validate_counterparty_revocation(estate, num, secret)
          /\ chains
          /\ set_next_counterparty_revoke_num_ok(estate, num + 1)
       THEN Advance(set_next_counterparty_revoke_num(
                        provide_secret(estate, num, secret), num + 1), NoReply)
       ELSE Stop
    /\ UNCHANGED countersigned

\* Mutant: a mutual close leaves the channel open.
BugCloseStaysOpen(ok) ==
    /\ Handling
    /\ IF ok /\ validate_mutual_close_tx(estate)
       THEN Advance(estate, [NoReply EXCEPT !.close = {estate.next_holder_commit_num}])
       ELSE Stop
    /\ UNCHANGED countersigned

\* ok: the verdict on the closing values, scripts and fee.
SignMutualCloseTx(ok) ==
    /\ Handling
    /\ IF ok /\ validate_mutual_close_tx(estate)
       THEN Advance([estate EXCEPT !.channel_closed = TRUE],
                    [NoReply EXCEPT !.close = {estate.next_holder_commit_num}])
       ELSE Stop
    /\ UNCHANGED countersigned

------------------------------------------------------------------------------
(* The persister, the answer, the chain, crashes                            *)

Persist ==
    /\ phase = "persist"
    /\ phase' = "reply"
    /\ disk' = estate
    /\ UNCHANGED <<estate, reply, cstate, history, countersigned>>

Reply ==
    /\ phase = "reply"
    /\ phase' = "ready"
    /\ reply' = NoReply
    /\ secretsOut' = secretsOut \cup reply.secrets
    /\ holderOut' = holderOut \cup reply.holder
    /\ counterpartyOut' = counterpartyOut \cup reply.counterparty
    /\ closeOut' = closeOut \cup reply.close
    /\ UNCHANGED <<estate, disk, cstate, countersigned>>

\* Blocks come and go: a reorganisation may undo either fact.
ChainUpdate(c) ==
    /\ cstate' = c
    /\ UNCHANGED <<estate, disk, phase, reply, history, countersigned>>

Crash ==
    /\ phase # "down"
    /\ Stop
    /\ UNCHANGED <<disk, cstate, history, countersigned>>

Restart ==
    /\ phase = "down"
    /\ phase' = "ready"
    /\ estate' = disk
    /\ UNCHANGED <<disk, reply, cstate, history, countersigned>>

Next ==
    \/ \E num \in CommitNums :
          \/ GetPerCommitmentPoint(num)
          \/ GetPerCommitmentSecret(num)
          \/ SignHolderCommitmentTx(num)
    \/ \E num \in CommitNums, info \in Infos, ok \in BOOLEAN :
          \/ ValidateHolderCommitmentTx(num, info, ok)
          \/ SignHolderCommitmentTxRedundant(num, info, ok)
    \/ SignHolderCommitmentTxForRecovery
    \/ \E num \in CommitNums, point \in Points, info \in Infos, ok \in BOOLEAN :
          SignCounterpartyCommitmentTx(num, point, info, ok)
    \/ \E num \in CommitNums, secret \in Secrets, chains \in BOOLEAN :
          ValidateCounterpartyRevocation(num, secret, chains)
    \/ \E ok \in BOOLEAN : SignMutualCloseTx(ok)
    \/ Persist
    \/ Reply
    \/ \E c \in ChainStates : ChainUpdate(c)
    \/ Crash
    \/ Restart

Spec == Init /\ [][Next]_vars

------------------------------------------------------------------------------
(* Properties                                                               *)

\* Every variable has its type: counters are naturals, the options hold a point,
\* a content or None, and the answers carry what the requests disclose.
TypeOK ==
    /\ estate \in EnforcementStates
    /\ disk \in EnforcementStates
    /\ phase \in {"ready", "persist", "reply", "down"}
    /\ reply \in Replies
    /\ cstate \in ChainStates
    /\ secretsOut \in SUBSET Nat
    /\ holderOut \in SUBSET HolderCommits
    /\ counterpartyOut \in SUBSET CounterpartyCommits
    /\ closeOut \in SUBSET Nat
    /\ countersigned \in SUBSET HolderCommits

\* policy-commitment-holder-not-revoked: no holder commitment is both signed and
\* revoked, in whichever order, with crashes, lost answers and repeated requests
\* between the two.
HolderNotRevoked == \A h \in holderOut : h.num \notin secretsOut

\* policy-revoke-new-commitment-signed: when the secret of commitment n has left, the
\* durable state is past n + 1 and the counterparty's signature was checked for
\* the commitment that a force close would publish now.
RevokedOnlyWhenReplaced ==
    \A n \in secretsOut :
        /\ n + 2 <= disk.next_holder_commit_num
        /\ [num |-> disk.next_holder_commit_num - 1,
            info |-> disk.current_holder_commit_info] \in countersigned

\* policy-commitment-retry-same: the signatures given for one counterparty commitment
\* number are all for one point and one content.
CounterpartyRetrySame ==
    \A c, d \in counterpartyOut : c.num = d.num => c = d

\* policy-commitment-previous-revoked: of the counterparty commitments the signer has
\* signed, at most the last two are not revoked, and for every other one the durable
\* store holds the secret of the very point it was signed with.
RevokedArePunishable ==
    \A c \in counterpartyOut :
        \/ c.num \in disk.next_counterparty_revoke_num .. disk.next_counterparty_revoke_num + 1
        \/ \E r \in disk.counterparty_secrets :
              r.num = c.num /\ PointOf(r.secret) = c.point

\* policy-commitment-spends-active-utxo: once a mutual close is signed at holder number k,
\* no holder commitment that the close was computed from is revoked any more.
NoRevocationAfterClose ==
    \A k \in closeOut, n \in secretsOut : n + 2 <= k

\* A request whose answer was lost can be repeated, as far as the enforcement state
\* decides (an HTLC that has come too close to its expiry since may still refuse it):
\* the last holder commitment validates again, an unrevoked last counterparty
\* commitment is signed again, and the last revocation is taken again until a newer
\* commitment is signed.
LastRequestCanBeRetried ==
    LET e == disk
        h == e.next_holder_commit_num
        c == e.next_counterparty_commit_num
        r == e.next_counterparty_revoke_num
    IN  /\ h > 0 =>
              /\ validate_holder_commitment_tx(e, h - 1, e.current_holder_commit_info)
              /\ set_next_holder_commit_num_ok(e, h)
        /\ (c > 0 /\ (c = r + 2 \/ r = 0) /\ NotClosedOnChain(c - 1)) =>
              /\ validate_counterparty_commitment_tx(e, c - 1,
                      e.current_counterparty_point, e.current_counterparty_commit_info)
              /\ set_next_counterparty_commit_num_ok(e, c, e.current_counterparty_point)
        /\ (r > 0 /\ c = r + 1) =>
              \E s \in Secrets :
                  /\ [num |-> r - 1, secret |-> s] \in e.counterparty_secrets
                  /\ validate_counterparty_revocation(e, r - 1, s)
                  /\ set_next_counterparty_revoke_num_ok(e, r)

\* Durable progress: the counters never go back, and closing a channel freezes the
\* holder's commitment for good.
ClosedIsFinal ==
    [][ /\ disk'.next_holder_commit_num >= disk.next_holder_commit_num
        /\ disk'.next_counterparty_commit_num >= disk.next_counterparty_commit_num
        /\ disk'.next_counterparty_revoke_num >= disk.next_counterparty_revoke_num
        /\ disk.channel_closed =>
              /\ disk'.channel_closed
              /\ disk'.next_holder_commit_num = disk.next_holder_commit_num
              /\ disk'.current_holder_commit_info = disk.current_holder_commit_info
      ]_vars

\* What leaves the channel is what ChannelPromise allows: the memory, the disk, the
\* crashes and the repeated requests cannot be told from the outside.
Promise == INSTANCE ChannelPromise WITH
    secretsOut <- secretsOut, holderOut <- holderOut,
    counterpartyOut <- counterpartyOut, closeOut <- closeOut
ImplementsPromise == Promise!Spec

==============================================================================
