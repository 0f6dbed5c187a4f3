------------------------------ MODULE TxPolicy ------------------------------
(***************************************************************************)
(* SimpleValidator: what the signer checks of amounts, fees, delays and    *)
(* destinations before it stores a commitment or signs a transaction, as   *)
(* operators on what is checked.  Scripts are named by what they are, a    *)
(* transaction is what its outputs pay, and order, locktime and version    *)
(* of a transaction that is compared with a recomposed one are one flag.   *)
(***************************************************************************)
EXTENDS Integers, FiniteSets, FiniteSetsExt, Sequences, SequencesExt

CONSTANTS
    KW,                  \* the 1000 of "per kilo-weight" and of msat per sat
    U32,                 \* feerates are computed modulo this
    MinFeerate, MaxFeerate, Epsilon, MaxChannelSize, MaxHtlcs, MaxHtlcValue,
    MinDelay, MaxDelay,  \* the policy
    UseChainState,       \* policy.use_chain_state
    Filter,              \* policy.filter: a sequence of [tags, action]
    ChannelDust,         \* MIN_CHAN_DUST_LIMIT_SATOSHIS
    HtlcDust,            \* MIN_DUST_LIMIT_SATOSHIS
    AnchorValue,         \* ANCHOR_SAT
    MaxScriptDelay,      \* MAX_DELAY of a parsed script
    MaxChainLag,         \* MAX_CHAIN_LAG
    CommitWeight(_, _),  \* weight of a commitment: anchors?, number of HTLCs
    HtlcWeight(_, _),    \* weight of an HTLC transaction: anchors?, offered?
    CloseWeight(_),      \* weight of a mutual close: number of outputs
    None                 \* Option::None

Numbers == {MinFeerate, MaxFeerate, Epsilon, MaxChannelSize, MaxHtlcs, MaxHtlcValue,
            MinDelay, MaxDelay, ChannelDust, HtlcDust, AnchorValue, MaxScriptDelay, MaxChainLag}

ASSUME TxPolicyAssumption ==
    /\ {KW, U32} \subseteq Nat \ {0}
    /\ Numbers \subseteq Nat
    /\ UseChainState \in BOOLEAN
    /\ \A a \in BOOLEAN :
          /\ \A n \in 0..MaxHtlcs : CommitWeight(a, n) \in Nat \ {0}
          /\ \A o \in BOOLEAN : HtlcWeight(a, o) \in Nat \ {0}
    /\ \A n \in 0..2 : CloseWeight(n) \in Nat \ {0}

\* Feerates are u32, and that of a fee within the maximum channel size does not wrap.
ASSUME FeerateFits ==
    /\ MaxFeerate < U32
    /\ \A a \in BOOLEAN, n \in 0..MaxHtlcs : MaxChannelSize * KW + (KW - 1) < U32 * CommitWeight(a, n)
    /\ \A n \in 0..2 : MaxChannelSize * KW + (KW - 1) < U32 * CloseWeight(n)

------------------------------------------------------------------------------
(* The policy filter                                                        *)

\* PolicyFilter::filter: the first rule that matches the tag decides.
filter(tag) ==
    LET first == SelectInSeq(Filter, LAMBDA r : tag \in r.tags)
    IN  IF first = 0 THEN "Error" ELSE Filter[first].action

\* policy_err!: a failed check refuses unless the filter only warns of its tag.
Holds(tag, ok) == ok \/ filter(tag) = "Warn"

------------------------------------------------------------------------------
(* Fees                                                                     *)

\* Mutant: the lowest such feerate.
BugFeerateRoundsDown(fee, weight) == ((fee * KW) \div weight) % U32

\* The highest feerate that gives rise to the fee.
estimate_feerate_per_kw(fee, weight) == (((fee * KW) + (KW - 1)) \div weight) % U32

\* Mutant: outputs above the channel value pass, as a fee of nothing.
BugFeeUnderflows(tag, inputs, outputs, weight) ==
    LET fee == IF outputs > inputs THEN MinFeerate ELSE inputs - outputs
    IN  Holds(tag, MinFeerate <= estimate_feerate_per_kw(fee, weight)
                   /\ estimate_feerate_per_kw(fee, weight) <= MaxFeerate)

validate_fee(tag, inputs, outputs, weight) ==
    /\ outputs <= inputs
    /\ LET feerate == estimate_feerate_per_kw(inputs - outputs, weight)
       IN  Holds(tag, MinFeerate <= feerate /\ feerate <= MaxFeerate)

outside_epsilon_range(a, b) == IF a > b THEN a - b > Epsilon ELSE b - a > Epsilon

------------------------------------------------------------------------------
(* The wallet: a script is ours when the path leads to it, or an allowed    *)
(* address, or the child of an allowed xpub at the path.                    *)

NoPath == "no path"
WalletScript(path) == <<"wallet", path>>
XpubScript(path) == <<"xpub", path>>
Xpub == <<"xpub">>

can_spend(path, script) == path # NoPath /\ script = WalletScript(path)

allowlist_contains(allow, script, path) ==
    \/ script \in allow
    \/ path # NoPath /\ Xpub \in allow /\ script = XpubScript(path)

Ours(allow, script, path) == can_spend(path, script) \/ allowlist_contains(allow, script, path)

------------------------------------------------------------------------------
(* Channel setup                                                            *)

is_anchors(s) == s.type \in {"Anchors", "AnchorsZeroFeeHtlc"}
is_zero_fee_htlc(s) == s.type = "AnchorsZeroFeeHtlc"

validate_delay(tag, delay) == Holds(tag, MinDelay <= delay /\ delay <= MaxDelay)

validate_ready_channel(s, allow, path) ==
    /\ Holds(IF s.type = "Anchors" THEN "policy-channel-safe-type-anchors" ELSE "policy-channel-safe-type",
             s.type \in {"StaticRemoteKey", "AnchorsZeroFeeHtlc"})
    /\ validate_delay("policy-channel-contest-delay-range-holder", s.counterparty_delay)
    /\ validate_delay("policy-channel-contest-delay-range-counterparty", s.holder_delay)
    /\ Holds("policy-mutual-destination-allowlisted",
             s.shutdown = None \/ Ours(allow, s.shutdown, path))

validate_channel_value(s) == Holds("policy-funding-max", s.value <= MaxChannelSize)

------------------------------------------------------------------------------
(* Commitments: to_b and to_c are the values to broadcaster and             *)
(* countersigner, offered and received the broadcaster's HTLCs.             *)

Sum(htlcs) == SumFunctionOnSet([h \in htlcs |-> h.value], htlcs)
Htlcs(info) == info.offered \cup info.received
total_value(info) == info.to_b + info.to_c + Sum(info.offered) + Sum(info.received)
HtlcCount(info) == Cardinality(info.offered) + Cardinality(info.received)
htlcs_is_empty(info) == Htlcs(info) = {}

\* To the holder and to the counterparty, without HTLCs.
ToHolder(info) == IF info.counterparty THEN info.to_c ELSE info.to_b
ToCounterparty(info) == IF info.counterparty THEN info.to_b ELSE info.to_c

htlc_dust_limit(s, info, offered) ==
    IF is_zero_fee_htlc(s) THEN ChannelDust
    ELSE HtlcDust + (info.feerate * HtlcWeight(is_anchors(s), offered)) \div KW

validate_expiry(cltv, height) ==
    UseChainState =>
        Holds("policy-commitment-htlc-cltv-range",
              height + MinDelay <= cltv /\ cltv <= height + MaxDelay)

\* The anchors are not part of the sum.
validate_commitment_tx(s, info, num, height) ==
    LET trimmed == "policy-commitment-outputs-trimmed"
        count == HtlcCount(info)
    IN
    /\ \A v \in {info.to_b, info.to_c} : Holds(trimmed, v = 0 \/ v >= ChannelDust)
    /\ Holds("policy-commitment-htlc-count-limit", count <= MaxHtlcs)
    /\ \A h \in Htlcs(info) : validate_expiry(h.cltv, height)
    /\ \A h \in info.offered : Holds(trimmed, h.value >= htlc_dust_limit(s, info, TRUE))
    /\ \A h \in info.received : Holds(trimmed, h.value >= htlc_dust_limit(s, info, FALSE))
    /\ Holds("policy-commitment-htlc-inflight-limit",
             Sum(info.offered) + Sum(info.received) <= MaxHtlcValue)
    /\ validate_fee("policy-commitment-fee-range", s.value, total_value(info),
                    CommitWeight(is_anchors(s), count))
    /\ num = 0 =>
        /\ Holds("policy-commitment-first-no-htlcs", count = 0)
        /\ Holds("policy-commitment-initial-funding-value",
                 s.is_outbound => ToCounterparty(info) <= s.push \div KW)

\* CommitmentInfo2::claimable_balance; claimable unwraps a subtraction for a funder.
ClaimablePanics(s, info) == s.is_outbound /\ total_value(info) > s.value

claimable_balance(s, info, preimages) ==
    LET offered == IF info.counterparty THEN info.received ELSE info.offered
        received == IF info.counterparty THEN info.offered ELSE info.received
    IN  ToHolder(info)
          + (IF s.is_outbound THEN s.value - total_value(info) ELSE 0)
          + Sum({h \in offered : h.hash \notin preimages})
          + Sum({h \in received : h.hash \in preimages})

------------------------------------------------------------------------------
(* Commitment transactions, as outputs                                      *)

\* lock: the delay or the expiry in the script, where it has one
Output(kind, value, lock) == [kind |-> kind, value |-> value, hash |-> None, lock |-> lock]
HtlcOutput(kind, h) ==
    [kind |-> kind, value |-> h.value, hash |-> h.hash, lock |-> IF kind = "received" THEN h.cltv ELSE 0]

\* The delay on the broadcaster's output, which the other side selects.
to_self_delay(s, info) == IF info.counterparty THEN s.holder_delay ELSE s.counterparty_delay

\* The side with this value has an anchor in the transaction.
has_anchor(s, info, value) == is_anchors(s) /\ (value > 0 \/ ~htlcs_is_empty(info))

\* CommitmentTransaction::new of LDK: the outputs of a commitment.
built(s, info) ==
    LET shown(kind, value, lock) == IF value > 0 THEN {Output(kind, value, lock)} ELSE {}
        anchor(kind, value) ==
            IF has_anchor(s, info, value) THEN {Output(kind, AnchorValue, 0)} ELSE {}
    IN  shown("to_broadcaster", info.to_b, to_self_delay(s, info))
          \cup shown(IF is_anchors(s) THEN "to_countersigner_delayed" ELSE "p2wpkh", info.to_c, 0)
          \cup anchor("broadcaster_anchor", info.to_b)
          \cup anchor("countersigner_anchor", info.to_c)
          \cup {HtlcOutput("offered", h) : h \in info.offered}
          \cup {HtlcOutput("received", h) : h \in info.received}

\* What the anchors take, and what the transaction pays out with them.
AnchorsPaid(s, info) ==
    (IF has_anchor(s, info, info.to_b) THEN AnchorValue ELSE 0)
      + (IF has_anchor(s, info, info.to_c) THEN AnchorValue ELSE 0)
PaidOut(s, info) == total_value(info) + AnchorsPaid(s, info)

ToBroadcaster == {"to_broadcaster"}
ToCountersigner == {"p2wpkh", "to_countersigner_delayed"}
Anchors == {"broadcaster_anchor", "countersigner_anchor"}
OfKind(tx, kinds) == {i \in DOMAIN tx.outs : tx.outs[i].kind \in kinds}

\* Each script is tried in turn; the parsers are on the kind of the output.
handle_to_broadcaster_output(out) == out.kind = "to_broadcaster" /\ out.lock <= MaxScriptDelay
handle_received_htlc_output(out) == out.kind = "received" /\ out.lock >= 0
handle_offered_htlc_output(out) == out.kind = "offered"
handle_to_countersigner_delayed_output(out) == out.kind = "to_countersigner_delayed"

\* Mutant: an anchor for the countersigner is not expected.
BugOneAnchor(out) == out.kind = "broadcaster_anchor" /\ out.value = AnchorValue

handle_anchor_output(out) == out.kind \in Anchors /\ out.value = AnchorValue

\* CommitmentInfo::handle_output, of one output; any other script is "unknown".
handle_output(s, out) ==
    \/ out.kind = "p2wpkh" /\ ~is_anchors(s)
    \/ handle_to_broadcaster_output(out)
    \/ handle_received_htlc_output(out)
    \/ handle_offered_htlc_output(out)
    \/ handle_anchor_output(out)
    \/ is_anchors(s) /\ handle_to_countersigner_delayed_output(out)

decode_commitment_tx(s, tx) ==
    /\ Holds("policy-commitment-version", tx.version = 2)
    /\ \A i \in DOMAIN tx.outs : handle_output(s, tx.outs[i])
    /\ \A kinds \in {ToBroadcaster, ToCountersigner} : Cardinality(OfKind(tx, kinds)) <= 1

ValueOf(tx, kinds) == SumFunctionOnSet([i \in DOMAIN tx.outs |-> tx.outs[i].value], OfKind(tx, kinds))

\* The values come from the transaction, the HTLCs and the feerate from the request.
DecodedInfo(tx, args) ==
    [counterparty |-> args.counterparty,
     to_b |-> ValueOf(tx, ToBroadcaster), to_c |-> ValueOf(tx, ToCountersigner),
     offered |-> args.offered, received |-> args.received, feerate |-> args.feerate]

\* The transaction is the one recomposed from what was decoded.
Recomposes(tx, outs) ==
    /\ tx.version = 2 /\ tx.canonical
    /\ Range(tx.outs) = outs /\ Len(tx.outs) = Cardinality(outs)

CommitmentTx(s, info) == [version |-> 2, canonical |-> TRUE, outs |-> SetToSeq(built(s, info))]

------------------------------------------------------------------------------
(* HTLC transactions: tx has the value of the HTLC and what it pays         *)

htlc_fee(s, feerate, offered) ==
    IF is_zero_fee_htlc(s) THEN 0
    ELSE (feerate * HtlcWeight(is_anchors(s), offered)) \div KW

\* build_htlc_transaction of LDK.
HtlcTx(s, h, feerate, offered) ==
    [value |-> h.value, paid |-> h.value - htlc_fee(s, feerate, offered), offered |-> offered,
     lock_time |-> IF offered THEN h.cltv ELSE 0, canonical |-> TRUE]

build_feerate(s, tx) ==
    IF is_zero_fee_htlc(s) THEN 0
    ELSE estimate_feerate_per_kw(tx.value - tx.paid, HtlcWeight(is_anchors(s), tx.offered))

\* The recomposed transaction has the signature hash of the submitted one.
decode_and_validate_htlc_tx(s, tx) ==
    /\ tx.canonical
    /\ tx.value - htlc_fee(s, build_feerate(s, tx), tx.offered) = tx.paid

validate_htlc_tx(s, tx) ==
    /\ Holds("policy-htlc-locktime", tx.offered => tx.lock_time # 0)
    /\ Holds("policy-htlc-fee-range",
             /\ is_zero_fee_htlc(s) \/ MinFeerate <= build_feerate(s, tx)
             /\ build_feerate(s, tx) <= MaxFeerate)

------------------------------------------------------------------------------
(* Mutual close: h and c are the current infos, to_h and to_c what the two  *)
(* sides get, hscript and cscript to where (or None), path our path.        *)

Closing(to_h, to_c, hscript, cscript, path) ==
    [to_h |-> to_h, to_c |-> to_c, hscript |-> hscript, cscript |-> cscript, path |-> path]

\* ClosingTransaction::new of LDK.
closing_outs(close) ==
    {o \in {<<close.hscript, close.to_h>>, <<close.cscript, close.to_c>>} : o[2] > 0}

\* Mutant: the close is compared with the counterparty's commitment only.
BugComparesOneCommitment(s, h, c, close) ==
    IF s.is_outbound THEN ~outside_epsilon_range(close.to_c, c.to_b)
    ELSE ~outside_epsilon_range(close.to_h, c.to_c)

\* The side that does not pay the fee gets what both commitments give it.
matches_commitment(s, h, c, close) ==
    IF s.is_outbound THEN \A v \in {c.to_b, h.to_c} : ~outside_epsilon_range(close.to_c, v)
    ELSE \A v \in {h.to_b, c.to_c} : ~outside_epsilon_range(close.to_h, v)

validate_mutual_close_tx(s, h, c, allow, close) ==
    LET destination == "policy-mutual-destination-allowlisted" IN
    /\ None \notin {h, c}
    /\ Holds(destination, close.to_h > 0 => close.hscript # None)
    /\ Holds(destination, close.to_c > 0 => close.cscript # None)
    /\ Holds(destination, s.shutdown # None /\ close.to_h > 0 => close.hscript = s.shutdown)
    /\ Holds("policy-mutual-no-pending-htlcs", htlcs_is_empty(h) /\ htlcs_is_empty(c))
    /\ validate_fee("policy-mutual-fee-range", s.value, close.to_h + close.to_c,
                    CloseWeight(Cardinality(closing_outs(close))))
    /\ Holds("policy-mutual-value-matches-commitment", matches_commitment(s, h, c, close))
    /\ Holds(destination, close.hscript = None \/ Ours(allow, close.hscript, close.path))

minimum_value(a, b) == IF outside_epsilon_range(a, b) THEN -1 ELSE IF a > b THEN b ELSE a

\* The readings of the outputs of a phase 1 close, the likely one first.
Readings(h, c, tx) ==
    LET larger == minimum_value(h.to_b, c.to_c) > minimum_value(h.to_c, c.to_b)
        o == tx.outs
        holder_only == Closing(o[1].value, 0, o[1].script, None, o[1].path)
        counterparty_only == Closing(0, o[1].value, None, o[1].script, NoPath)
        holder_first == Closing(o[1].value, o[2].value, o[1].script, o[2].script, o[1].path)
        counterparty_first == Closing(o[2].value, o[1].value, o[2].script, o[1].script, o[2].path)
    IN  CASE Len(o) = 1 -> IF larger THEN <<holder_only, counterparty_only>>
                           ELSE <<counterparty_only, holder_only>>
          [] Len(o) = 2 -> IF larger THEN <<counterparty_first, holder_first>>
                           ELSE <<holder_first, counterparty_first>>

\* Zero when no reading validates.
GoodReading(s, h, c, allow, tx) ==
    SelectInSeq(Readings(h, c, tx), LAMBDA close : validate_mutual_close_tx(s, h, c, allow, close))

decode_and_validate_mutual_close_tx(s, h, c, allow, tx) ==
    /\ Len(tx.outs) <= 2
    /\ None \notin {h, c}
    /\ LET n == GoodReading(s, h, c, allow, tx) IN
       /\ n # 0
       /\ Holds("policy-onchain-format-standard",
                /\ tx.canonical
                /\ closing_outs(Readings(h, c, tx)[n]) = {<<o.script, o.value>> : o \in Range(tx.outs)})

------------------------------------------------------------------------------
(* Sweeps: tx has a version, a lock time, the sequence of its first input   *)
(* and outputs; path is the one path the caller gives.                      *)

ANCHOR_SEQS == {1}
NON_ANCHOR_SEQS == {0, -3, -1}  \* fffffffd and ffffffff as negative numbers

validate_sweep(allow, tx, path) ==
    /\ tx.version = 2
    /\ \A script \in tx.scripts :
          Holds("policy-sweep-destination-allowlisted", Ours(allow, script, path))

NotLate(tx, height) == tx.lock_time <= height + MaxChainLag

validate_delayed_sweep(s, allow, tx, path, height) ==
    /\ validate_sweep(allow, tx, path)
    /\ NotLate(tx, height)
    /\ tx.seq = s.counterparty_delay

validate_justice_sweep(allow, tx, path, height) ==
    /\ validate_sweep(allow, tx, path)
    /\ NotLate(tx, height)
    /\ tx.seq \in NON_ANCHOR_SEQS

\* htlc: the script swept, [kind, cltv] from the counterparty's point of view
validate_counterparty_htlc_sweep(s, allow, tx, htlc, path, height) ==
    /\ validate_sweep(allow, tx, path)
    /\ \/ htlc.kind = "received" /\ tx.lock_time <= htlc.cltv
       \/ htlc.kind = "offered" /\ NotLate(tx, height)
    /\ tx.seq \in IF is_anchors(s) THEN ANCHOR_SEQS ELSE NON_ANCHOR_SEQS

------------------------------------------------------------------------------
(* On-chain transactions: outs is a sequence of [value, script, path,       *)
(* channel], channel being what find_channel_with_funding_outpoint found:   *)
(* None or [setup, next], next the number of holder commitments validated.  *)

Known(allow, out) ==
    \/ out.path # NoPath /\ Ours(allow, out.script, out.path)
    \/ out.path = NoPath /\ allowlist_contains(allow, out.script, NoPath)

UnknownOutput(allow, out) == out.path = NoPath /\ ~Known(allow, out) /\ out.channel = None

FundingScript == <<"funding">>

\* Mutant: the initial commitment need not have been validated.
BugFundsUncommitted(out) ==
    LET s == out.channel.setup IN
    out.value = s.value /\ out.script = FundingScript /\ s.is_outbound /\ s.push \div KW = 0

funds_channel(out) ==
    LET s == out.channel.setup IN
    /\ Holds("policy-onchain-output-match-commitment", out.value = s.value)
    /\ Holds("policy-onchain-output-scriptpubkey", out.script = FundingScript)
    /\ Holds("policy-onchain-initial-commitment-countersigned", out.channel.next = 1)
    /\ Holds("policy-onchain-no-fund-inbound", s.is_outbound)
    /\ Holds("policy-onchain-no-channel-push", s.push \div KW = 0)

FundsChannel(allow, out) == out.path = NoPath /\ ~Known(allow, out) /\ out.channel # None

GoodOutput(allow, out) ==
    /\ Holds("policy-onchain-no-unknown-outputs", out.path = NoPath \/ Known(allow, out))
    /\ FundsChannel(allow, out) => funds_channel(out)

\* What an output brings back to us.
Beneficial(allow, out) ==
    IF Known(allow, out) THEN out.value
    ELSE IF FundsChannel(allow, out) THEN out.channel.setup.value - out.channel.setup.push \div KW
    ELSE 0

beneficial_sum(allow, outs) ==
    SumFunctionOnSet([i \in DOMAIN outs |-> Beneficial(allow, outs[i])], DOMAIN outs)

WellFormed(allow, tx, outs) ==
    /\ Holds("policy-onchain-format-standard", tx.version = 2)
    /\ Holds("policy-onchain-max-size", tx.small)
    /\ Holds("policy-onchain-funding-non-malleable",
             (\A i \in DOMAIN outs : outs[i].channel = None) \/ tx.segwit)
    /\ \A i \in DOMAIN outs : GoodOutput(allow, outs[i])

validate_beneficial_value(inputs, ours, weight) ==
    /\ ours <= inputs
    /\ Holds("policy-onchain-fee-range",
             estimate_feerate_per_kw(inputs - ours, weight) <= MaxFeerate)

\* "ok", "unknown" (a person may still approve) or "error"
validate_onchain_tx(allow, tx, outs) ==
    IF ~WellFormed(allow, tx, outs) THEN "error"
    ELSE IF \E i \in DOMAIN outs : UnknownOutput(allow, outs[i]) THEN "unknown"
    ELSE IF validate_beneficial_value(tx.inputs, beneficial_sum(allow, outs), tx.weight)
    THEN "ok" ELSE "error"

==============================================================================
