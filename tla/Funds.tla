-------------------------------- MODULE Funds --------------------------------
(***************************************************************************)
(* What a node may do with the money of its wallet and of one channel: set *)
(* the channel up, store commitments, fund it, close it, claim its HTLCs,  *)
(* sweep what comes out of it, and pay from the wallet.  Requests come in  *)
(* any order with any contents; TxPolicy says which are refused.           *)
(*                                                                         *)
(* Commitment numbers and secrets are left to the module Channel: here a   *)
(* new commitment is the next one, or the latest again.  A withdrawal is   *)
(* checked and signed in two steps that hold the locks separately.         *)
(***************************************************************************)
EXTENDS TxPolicy, SpendingLog

CONSTANTS
    Scenarios,  \* bound: the contents of the requests a client makes, one record per run of it
    FeeLimit,   \* the limit of the fee velocity control, in msat
    Allowed,    \* the allowlist the node starts with
    MaxHeight,  \* bound: the highest block
    MaxCommits  \* bound: the commitments of each side

\* What a commitment info is made of.
IsInfo(info) ==
    /\ info.counterparty \in BOOLEAN
    /\ {info.to_b, info.to_c, info.feerate} \subseteq Nat
    /\ \A htlcs \in {info.offered, info.received} :
          IsFiniteSet(htlcs) /\ \A h \in htlcs : h.value \in Nat

IsOutputs(outs) ==
    /\ Len(outs) \in Nat /\ DOMAIN outs = 1..Len(outs)
    /\ \A i \in DOMAIN outs : outs[i].value \in Nat

\* Amounts are natural numbers, and outputs come in sequences.
IsScenario(s) ==
    /\ \A c \in s.setups : c.is_outbound \in BOOLEAN /\ {c.value, c.push} \subseteq Nat
    /\ \A info \in s.infos \cup s.args : IsInfo(info)
    /\ \A tx \in s.commitTxs \cup s.closeTxs \cup s.onchainTxs : IsOutputs(tx.outs)
    /\ \A tx \in s.onchainTxs : tx.inputs \in Nat
    /\ \A close \in s.closes : {close.to_h, close.to_c} \subseteq Nat /\ close.path \in s.paths
    /\ \A tx \in s.closeTxs \cup s.onchainTxs : \A i \in DOMAIN tx.outs : tx.outs[i].path \in s.paths
    /\ NoPath \in s.paths

ASSUME FundsAssumption ==
    /\ \A s \in Scenarios : IsScenario(s)
    /\ FeeLimit \in 0..U64Max
    /\ {MaxHeight, MaxCommits} \subseteq Nat

VARIABLES
    scenario,      \* the contents requests may have
    setup,         \* the channel's ChannelSetup, or None
    holder,        \* commitments validated, the first and the current info
    counterparty,  \* commitments signed, and the current info
    closed,        \* channel_closed
    allow,         \* the allowlist, in memory
    allowDisk,     \* the allowlist as persisted
    removed,       \* what the client was told is off the allowlist
    fees,          \* the fee velocity control
    height,        \* the height of the chain
    checked,       \* a withdrawal that passed check_onchain_tx and is not signed yet
    lost,          \* what was signed away without an approval since the start, when checked
    signed,        \* what the last request signed, or None
    panicked       \* None, or what made the signer panic

commits == <<setup, holder, counterparty, closed>>
wallet == <<allow, allowDisk, removed>>
clock == <<now, height>>
onchain == <<fees, checked, lost>>
vars == <<scenario, commits, wallet, clock, onchain, signed, panicked>>

Init ==
    /\ scenario \in Scenarios
    /\ setup = None
    /\ holder = [next |-> 0, first |-> None, info |-> None]
    /\ counterparty = [next |-> 0, info |-> None]
    /\ closed = FALSE
    /\ allow = Allowed /\ allowDisk = Allowed /\ removed = {}
    /\ fees = new_with_intervals(FeeLimit)
    /\ now = 0 /\ height = 0
    /\ checked = None
    /\ lost = Nothing
    /\ signed = None
    /\ panicked = None

------------------------------------------------------------------------------
(* The channel's commitments                                                *)

Up == panicked = None
Ready == Up /\ setup # None

SetupChannel(s, path) ==
    /\ Up /\ setup = None
    /\ validate_ready_channel(s, allow, path)
    /\ setup' = s
    /\ signed' = None
    /\ UNCHANGED <<scenario, holder, counterparty, closed, wallet, clock, onchain, panicked>>

StoredInfos == {holder.info, counterparty.info} \ {None}
StoredPanics == \E info \in StoredInfos : ClaimablePanics(setup, info)

\* EnforcementState::claimable_balances, of what is stored and of the new commitment.
claimable_balances_panics(info) == StoredPanics \/ ClaimablePanics(setup, info)
Panic(info) == panicked' = IF StoredPanics THEN "stored" ELSE "request"

\* num is the next number, or the latest again with the same contents.
validate_holder(num, info) ==
    /\ validate_commitment_tx(setup, info, num, height)
    /\ num + 1 = holder.next => info = holder.info
    /\ num = holder.next => ~closed

StoreHolder(num, info) ==
    holder' = [next |-> num + 1, first |-> IF num = 0 THEN info ELSE holder.first, info |-> info]

\* The balances are computed before the commitment is validated.
ValidateHolderCommitmentTxPhase2(num, info) ==
    /\ Ready /\ ~info.counterparty
    /\ IF claimable_balances_panics(info) THEN Panic(info) /\ UNCHANGED holder
       ELSE validate_holder(num, info) /\ StoreHolder(num, info) /\ UNCHANGED panicked
    /\ signed' = None
    /\ UNCHANGED <<scenario, setup, counterparty, closed, wallet, clock, onchain>>

make_validated_recomposed_holder_commitment_tx(num, tx, info) ==
    /\ validate_channel_value(setup)
    /\ decode_commitment_tx(setup, tx)
    /\ validate_holder(num, info)
    /\ Holds("policy-commitment", Recomposes(tx, built(setup, info)))

\* args: the HTLCs and the feerate of the request
ValidateHolderCommitmentTx(num, tx, args) ==
    LET info == DecodedInfo(tx, args) IN
    /\ Ready /\ ~args.counterparty
    /\ make_validated_recomposed_holder_commitment_tx(num, tx, info)
    /\ IF claimable_balances_panics(info) THEN Panic(info) /\ UNCHANGED holder
       ELSE StoreHolder(num, info) /\ UNCHANGED panicked
    /\ signed' = None
    /\ UNCHANGED <<scenario, setup, counterparty, closed, wallet, clock, onchain>>

validate_counterparty(num, info) ==
    /\ validate_commitment_tx(setup, info, num, height)
    /\ num + 1 = counterparty.next => info = counterparty.info

StoreCounterparty(num, info) == counterparty' = [next |-> num + 1, info |-> info]

SignCounterpartyCommitmentTxPhase2(num, info) ==
    /\ Ready /\ info.counterparty
    /\ validate_channel_value(setup)
    /\ IF claimable_balances_panics(info) THEN Panic(info) /\ UNCHANGED counterparty
       ELSE validate_counterparty(num, info) /\ StoreCounterparty(num, info) /\ UNCHANGED panicked
    /\ signed' = None
    /\ UNCHANGED <<scenario, setup, holder, closed, wallet, clock, onchain>>

recomposed_counterparty_commitment_tx(num, tx, info) ==
    /\ validate_counterparty(num, info)
    /\ Holds("policy-commitment", Recomposes(tx, built(setup, info)))

SignCounterpartyCommitmentTx(num, tx, args) ==
    LET info == DecodedInfo(tx, args) IN
    /\ Ready /\ args.counterparty
    /\ validate_channel_value(setup)
    /\ decode_commitment_tx(setup, tx)
    /\ IF claimable_balances_panics(info) THEN Panic(info) /\ UNCHANGED counterparty
       ELSE /\ recomposed_counterparty_commitment_tx(num, tx, info)
            /\ StoreCounterparty(num, info) /\ UNCHANGED panicked
    /\ signed' = None
    /\ UNCHANGED <<scenario, setup, holder, closed, wallet, clock, onchain>>

\* Channel::balance, on behalf of the node's balance
Balance ==
    /\ Ready
    /\ None \notin {holder.info, counterparty.info}
    /\ panicked' = IF StoredPanics THEN "stored" ELSE None
    /\ signed' = None
    /\ UNCHANGED <<scenario, commits, wallet, clock, onchain>>

------------------------------------------------------------------------------
(* What comes out of the channel                                            *)

Sign(what) == signed' = what /\ UNCHANGED <<scenario, clock, panicked, wallet, onchain>>

SignMutualCloseTxPhase2(close) ==
    /\ Ready
    /\ validate_mutual_close_tx(setup, holder.info, counterparty.info, allow, close)
    /\ Sign([kind |-> "close", outs |-> closing_outs(close), to |-> {close.hscript}])
    /\ closed' = TRUE
    /\ UNCHANGED <<setup, holder, counterparty>>

\* Without outputs there is no output to read, and the index is out of bounds.
SignMutualCloseTx(tx) ==
    /\ Ready
    /\ IF Len(tx.outs) = 0
       THEN /\ None \notin {holder.info, counterparty.info}
            /\ panicked' = "request" /\ signed' = None
            /\ UNCHANGED <<scenario, commits, wallet, clock, onchain>>
       ELSE LET h == holder.info
                c == counterparty.info
            IN
            /\ decode_and_validate_mutual_close_tx(setup, h, c, allow, tx)
            /\ Sign([kind |-> "close", outs |-> {<<o.script, o.value>> : o \in Range(tx.outs)},
                     to |-> {Readings(h, c, tx)[GoodReading(setup, h, c, allow, tx)].hscript}])
            /\ closed' = TRUE
            /\ UNCHANGED <<setup, holder, counterparty>>

\* sign_holder_htlc_tx and sign_counterparty_htlc_tx
sign_htlc_tx(tx) == decode_and_validate_htlc_tx(setup, tx) /\ validate_htlc_tx(setup, tx)

SignHtlcTx(tx) ==
    /\ Ready
    /\ sign_htlc_tx(tx)
    /\ Sign([kind |-> "htlc", outs |-> {<<"htlc", tx.paid>>}, to |-> {}])
    /\ UNCHANGED commits

Sweep(tx) ==
    /\ Sign([kind |-> "sweep", outs |-> {}, to |-> tx.scripts])
    /\ UNCHANGED commits

SignDelayedSweep(tx, path) ==
    /\ Ready /\ validate_delayed_sweep(setup, allow, tx, path, height) /\ Sweep(tx)

SignCounterpartyHtlcSweep(tx, htlc, path) ==
    /\ Ready /\ validate_counterparty_htlc_sweep(setup, allow, tx, htlc, path, height) /\ Sweep(tx)

SignJusticeSweep(tx, path) ==
    /\ Ready /\ validate_justice_sweep(allow, tx, path, height) /\ Sweep(tx)

------------------------------------------------------------------------------
(* The wallet                                                               *)

\* find_channel_with_funding_outpoint: the outputs with the channel each one funds.
FoundOuts(tx) ==
    [i \in DOMAIN tx.outs |->
        [value |-> tx.outs[i].value, script |-> tx.outs[i].script, path |-> tx.outs[i].path,
         channel |-> IF setup # None /\ tx.outs[i].funds
                     THEN [setup |-> setup, next |-> holder.next] ELSE None]]

NonBeneficial(tx) == tx.inputs - beneficial_sum(allow, FoundOuts(tx))

Checked(tx, approved) ==
    [tx |-> tx, approved |-> approved, at |-> now, removed |-> removed,
     loss |-> IF approved THEN 0 ELSE NonBeneficial(tx)]

\* Mutant: the fees are counted and the count is not looked at.
BugIgnoresFeeVelocity(tx, person) ==
    LET verdict == validate_onchain_tx(allow, tx, FoundOuts(tx)) IN
    /\ Up /\ checked = None
    /\ verdict = "ok" \/ (verdict = "unknown" /\ person)
    /\ checked' = Checked(tx, verdict = "unknown")
    /\ signed' = None
    /\ UNCHANGED <<scenario, commits, wallet, clock, fees, lost, panicked>>

\* check_onchain_tx under the approver: an unknown destination is not charged, and a
\* person may approve of it.
CheckOnchainTx(tx, person) ==
    LET verdict == validate_onchain_tx(allow, tx, FoundOuts(tx))
        msat == NonBeneficial(tx) * KW
    IN
    /\ Up /\ checked = None
    /\ \/ /\ verdict = "ok"
          /\ fees' = insert(fees, now, msat)
          /\ checked' = IF Holds("policy-onchain-fee-range", insert_ok(fees, now, msat))
                        THEN Checked(tx, FALSE) ELSE None
       \/ /\ verdict = "unknown" /\ person
          /\ checked' = Checked(tx, TRUE)
          /\ UNCHANGED fees
    /\ signed' = None
    /\ UNCHANGED <<scenario, commits, wallet, clock, lost, panicked>>

\* unchecked_sign_onchain_tx: the channels are looked up again.
SignOnchainTx ==
    /\ Up /\ checked # None
    /\ signed' = [kind |-> "onchain", outs |-> {<<o.script, o.value>> : o \in Range(checked.tx.outs)},
                  to |-> {o.script : o \in Range(checked.tx.outs)},
                  approved |-> checked.approved, removed |-> checked.removed,
                  funds |-> /\ setup # None
                            /\ \E o \in Range(checked.tx.outs) : o.funds /\ o.script = FundingScript]
    /\ lost' = [lost EXCEPT ![checked.at] = @ + checked.loss]
    /\ checked' = None
    /\ UNCHANGED <<scenario, commits, wallet, clock, fees, panicked>>

\* ok: the persister writes; when it does not, the memory has changed all the same.
AddAllowlist(script, ok) ==
    /\ Up
    /\ allow' = allow \cup {script}
    /\ allowDisk' = IF ok THEN allow' ELSE allowDisk
    /\ removed' = removed \ {script}
    /\ signed' = None
    /\ UNCHANGED <<scenario, commits, clock, onchain, panicked>>

\* Mutant: the allowlist is not written out.
BugRemovesInMemory(script, ok) ==
    /\ Up
    /\ allow' = allow \ {script}
    /\ removed' = IF ok THEN removed \cup {script} ELSE removed
    /\ signed' = None
    /\ UNCHANGED <<scenario, commits, clock, onchain, panicked, allowDisk>>

RemoveAllowlist(script, ok) ==
    /\ Up
    /\ allow' = allow \ {script}
    /\ allowDisk' = IF ok THEN allow' ELSE allowDisk
    /\ removed' = IF ok THEN removed \cup {script} ELSE removed
    /\ signed' = None
    /\ UNCHANGED <<scenario, commits, clock, onchain, panicked>>

SetAllowlist(list, ok) ==
    /\ Up
    /\ allow' = list
    /\ allowDisk' = IF ok THEN allow' ELSE allowDisk
    /\ removed' = IF ok THEN (removed \cup allow \cup allowDisk) \ list ELSE removed \ list
    /\ signed' = None
    /\ UNCHANGED <<scenario, commits, clock, onchain, panicked>>

------------------------------------------------------------------------------
(* Time, blocks and restarts                                                *)

Tick ==
    /\ now < MaxNow /\ now' = now + 1
    /\ signed' = None
    /\ UNCHANGED <<scenario, commits, wallet, height, onchain, panicked>>

NewBlock ==
    /\ height < MaxHeight /\ height' = height + 1
    /\ signed' = None
    /\ UNCHANGED <<scenario, commits, wallet, now, onchain, panicked>>

\* The channel is restored as stored, the fee control is new, the locks are free again.
Restart ==
    /\ allow' = allowDisk
    /\ fees' = new_with_intervals(FeeLimit)
    /\ lost' = Nothing
    /\ checked' = None
    /\ signed' = None
    /\ panicked' = None
    /\ UNCHANGED <<scenario, commits, allowDisk, removed, clock>>

\* The numbers a request may have: the latest again, or the next.
Nums(side) == {num \in {side.next - 1, side.next} : 0 <= num /\ num < MaxCommits}

Next ==
    \/ \E s \in scenario.setups, path \in scenario.paths : SetupChannel(s, path)
    \/ \E info \in scenario.infos :
          \/ \E num \in Nums(holder) : ValidateHolderCommitmentTxPhase2(num, info)
          \/ \E num \in Nums(counterparty) : SignCounterpartyCommitmentTxPhase2(num, info)
    \/ \E tx \in scenario.commitTxs, args \in scenario.args :
          \/ \E num \in Nums(holder) : ValidateHolderCommitmentTx(num, tx, args)
          \/ \E num \in Nums(counterparty) : SignCounterpartyCommitmentTx(num, tx, args)
    \/ Balance
    \/ \E close \in scenario.closes : SignMutualCloseTxPhase2(close)
    \/ \E tx \in scenario.closeTxs : SignMutualCloseTx(tx)
    \/ \E tx \in scenario.htlcTxs : SignHtlcTx(tx)
    \/ \E tx \in scenario.sweeps, path \in scenario.paths :
          \/ SignDelayedSweep(tx, path)
          \/ \E htlc \in scenario.htlcs : SignCounterpartyHtlcSweep(tx, htlc, path)
          \/ SignJusticeSweep(tx, path)
    \/ \E tx \in scenario.onchainTxs, person \in BOOLEAN : CheckOnchainTx(tx, person)
    \/ SignOnchainTx
    \/ \E script \in scenario.allowables, ok \in BOOLEAN :
          AddAllowlist(script, ok) \/ RemoveAllowlist(script, ok) \/ SetAllowlist({script}, ok)
    \/ scenario.onchainTxs # {} /\ Tick
    \/ scenario.sweeps # {} /\ NewBlock
    \/ Restart

Spec == Init /\ [][Next]_vars

------------------------------------------------------------------------------
(* Properties                                                               *)

\* The checks of the tags are errors, not warnings.
Enforces(tags) == \A tag \in tags : filter(tag) # "Warn"

\* The checks that the properties of commitments, funding, destinations and closes rest on.
CommitmentTags == {"policy-commitment-fee-range", "policy-commitment-htlc-count-limit"}
FundingTags == {"policy-onchain-no-unknown-outputs", "policy-onchain-initial-commitment-countersigned",
                "policy-onchain-no-fund-inbound", "policy-onchain-no-channel-push"}
DestinationTags == {"policy-mutual-destination-allowlisted", "policy-sweep-destination-allowlisted",
                    "policy-onchain-no-unknown-outputs", "policy-onchain-output-scriptpubkey"}
CloseTags == {"policy-funding-max", "policy-mutual-destination-allowlisted",
              "policy-mutual-no-pending-htlcs", "policy-mutual-fee-range",
              "policy-mutual-value-matches-commitment", "policy-onchain-format-standard"}
FeeTags == {"policy-onchain-fee-range"}
InitialTags == FundingTags \cup {"policy-commitment-fee-range", "policy-commitment-first-no-htlcs",
                                 "policy-commitment-initial-funding-value"}

\* What is put on the allowlist is neither ours in another way nor the channel's.
ForeignAllowlist ==
    \A s \in Scenarios : \A p \in s.paths :
        /\ None # XpubScript(p)
        /\ {None, FundingScript, WalletScript(p), XpubScript(p)} \cap (Allowed \cup s.allowables) = {}

\* A fee no larger than this passes the fee range at the weight.
MaxFee(weight) == ((MaxFeerate + 1) * weight) \div KW

\* A fee smaller than this does not.
MinFee(weight) == (MinFeerate * weight) \div KW

Mine(script) ==
    \/ script \in {WalletScript(p) : p \in scenario.paths}
    \/ script \in allow
    \/ Xpub \in allow /\ script \in {XpubScript(p) : p \in scenario.paths}
Received(outs) == SumFunctionOnSet([o \in outs |-> o[2]], {o \in outs : Mine(o[1])})

\* "the value to us should be as in the last commitment transaction": whichever output
\* the validator takes for ours, a signed close pays to our scripts what each of the two
\* commitments gives us, but for epsilon and, if we pay it, the largest fee.
CloseIsFair ==
    signed # None /\ signed.kind = "close" =>
        LET fee == IF setup.is_outbound THEN MaxFee(CloseWeight(Cardinality(signed.outs))) ELSE 0
        IN  \A info \in StoredInfos : Received(signed.outs) + Epsilon + fee >= ToHolder(info)

\* "the funding output must ... be spendable by the previously signed initial commitment
\* transaction": money signed into a channel of allowed size without an approval comes
\* back, but for a fee, by a commitment validated before.
FundingIsRecoverable ==
    signed # None /\ signed.kind = "onchain" /\ ~signed.approved /\ signed.funds
      /\ setup.value <= MaxChannelSize =>
        /\ holder.next >= 1
        /\ ToHolder(holder.first) + MaxFee(CommitWeight(is_anchors(setup), 0)) >= setup.value

\* What is signed away without an approval stays within the fee limit in every window
\* since the start, also when a fee is so large that its feerate wraps to a small one.
FeesAreBounded ==
    \A t \in Seconds : KW * SumIn(lost, t - Window, t) <= FeeLimit

\* "the no-initial-htlcs and fee checks above will ensure that our share is valid": in a
\* channel of allowed size, whoever funds it, what the channel holds beyond what the
\* transaction of a stored commitment pays out is a fee within the range, from which
\* validate_commitment_tx lets the anchors be paid: with anchors, which cost more than the
\* least fee, it may be less than nothing.
CommitmentsAreCovered ==
    setup # None /\ setup.value <= MaxChannelSize =>
        \A info \in StoredInfos :
            LET fee == setup.value - PaidOut(setup, info)
                weight == CommitWeight(is_anchors(setup), HtlcCount(info))
            IN  /\ MinFee(weight) - AnchorsPaid(setup, info) <= fee
                /\ fee <= MaxFee(weight) - AnchorsPaid(setup, info)

\* A second-level transaction built at the feerate of a stored commitment is signed, so
\* that the HTLC can be claimed; the estimated feerate may round up past the maximum.
HtlcsCanBeClaimed ==
    setup # None =>
        \A info \in StoredInfos, offered \in BOOLEAN :
            LET slack == (KW - 1) \div HtlcWeight(is_anchors(setup), offered) IN
            MinFeerate <= info.feerate /\ info.feerate + slack <= MaxFeerate =>
                \A h \in IF offered THEN info.offered ELSE info.received :
                    h.cltv # 0 => sign_htlc_tx(HtlcTx(setup, h, info.feerate, offered))

\* The two ways to give a commitment agree: the transaction that is built from an
\* accepted info decodes, and is accepted as the same info.
PhasesAgree ==
    Ready /\ validate_channel_value(setup) =>
        \A info \in scenario.infos :
            LET tx == CommitmentTx(setup, info)
                decoded == DecodedInfo(tx, info)
                num == IF info.counterparty THEN counterparty.next ELSE holder.next
            IN  IF info.counterparty
                THEN validate_counterparty(num, info) <=>
                        /\ decode_commitment_tx(setup, tx)
                        /\ recomposed_counterparty_commitment_tx(num, tx, decoded)
                ELSE validate_holder(num, info) <=>
                        make_validated_recomposed_holder_commitment_tx(num, tx, decoded)

\* "If a destination has been removed from the allowlist ... the mutual close signature
\* request will fail": a destination the client was told is removed gets nothing as ours
\* from what is checked after that without an approval, also after a restart.
RemovedIsNotPaid ==
    signed # None =>
        LET off == CASE signed.kind # "onchain" -> removed
                     [] signed.kind = "onchain" -> IF signed.approved THEN {} ELSE signed.removed
        IN  \A script \in signed.to :
              /\ script \notin off
              /\ Xpub \in off => script \notin {XpubScript(p) : p \in scenario.paths}

==============================================================================
