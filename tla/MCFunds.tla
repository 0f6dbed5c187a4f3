------------------------------- MODULE MCFunds -------------------------------
(***************************************************************************)
(* Small amounts: the weights are about KW as the real ones are about 1000 *)
(* (an HTLC transaction's is below), a channel of the maximum size does    *)
(* not wrap a feerate and an on-chain transaction's fee can.  A scenario   *)
(* fixes what the requests may contain.                                    *)
(***************************************************************************)
EXTENDS Funds

SmallCommitWeight(anchors, n) == (IF anchors THEN 3 ELSE 2) + n
SmallHtlcWeight(anchors, offered) == IF anchors /\ ~offered THEN 2 ELSE 1
SmallCloseWeight(n) == IF n = 2 THEN 3 ELSE 2
WarnsOfAnchors == <<[tags |-> {"policy-channel-safe-type-anchors"}, action |-> "Warn"]>>

Peer == <<"peer">>
Address == <<"address">>
Wallet == WalletScript("p")
Child == XpubScript("p")
AddressAndXpub == {Address, Xpub}

Setup(outbound, type, value, push, shutdown) ==
    [is_outbound |-> outbound, type |-> type, value |-> value, push |-> push,
     holder_delay |-> 1, counterparty_delay |-> 2, shutdown |-> shutdown]
Plain == Setup(TRUE, "StaticRemoteKey", 8, 0, None)
Inbound == [Plain EXCEPT !.is_outbound = FALSE]
Pushed == [Plain EXCEPT !.push = 5]
Large == [Plain EXCEPT !.value = 14]
ZeroFee == [Plain EXCEPT !.type = "AnchorsZeroFeeHtlc"]

Info(cp, to_b, to_c, offered, received, feerate) ==
    [counterparty |-> cp, to_b |-> to_b, to_c |-> to_c,
     offered |-> offered, received |-> received, feerate |-> feerate]
Simple(cp, to_b, to_c) == Info(cp, to_b, to_c, {}, {}, 1)
Both(shares) == {Simple(cp, s[1], s[2]) : cp \in BOOLEAN, s \in shares}

Idle ==
    [setups |-> {}, paths |-> {"p", NoPath}, infos |-> {}, commitTxs |-> {}, args |-> {},
     closes |-> {}, closeTxs |-> {}, htlcTxs |-> {}, htlcs |-> {}, sweeps |-> {},
     onchainTxs |-> {}, allowables |-> {}]

\* Closing: every split of the channel, to every destination, in both phases.
Out(value, script, path) == [value |-> value, script |-> script, path |-> path]
CloseTx(outs, canonical) == [outs |-> outs, canonical |-> canonical]
Closes ==
    [Idle EXCEPT
      !.setups = {Plain, Inbound, [Pushed EXCEPT !.shutdown = Wallet],
                  [Plain EXCEPT !.shutdown = Peer]},
      !.infos = Both({<<7, 0>>, <<5, 2>>, <<4, 2>>, <<2, 4>>, <<2, 5>>, <<0, 6>>, <<6, 3>>}),
      !.closes =
        {Closing(h, c, hs, cs, p) : h \in {0, 2, 4, 5, 7}, c \in {0, 2, 4, 5},
            hs \in {None, Wallet, Address, Peer}, cs \in {None, Peer}, p \in {"p", NoPath}},
      !.closeTxs =
        {CloseTx(<<>>, TRUE)}
        \cup {CloseTx(<<Out(v, s, p)>>, TRUE) : v \in {5, 7}, s \in {Wallet, Peer}, p \in {"p", NoPath}}
        \cup {CloseTx(<<Out(v, s, "p"), Out(w, t, "p")>>, canonical) :
                v, w \in {2, 3, 4}, s, t \in {Wallet, Peer}, canonical \in BOOLEAN}
        \cup {CloseTx(<<Out(2, Peer, NoPath), Out(2, Peer, NoPath), Out(2, Wallet, "p")>>, TRUE)}]

\* Funding the channel, and paying: fees up to and past the wrap of a feerate.
OnchainTx(inputs, outs) ==
    [version |-> 2, small |-> TRUE, segwit |-> TRUE, inputs |-> inputs, weight |-> 2, outs |-> outs]
OnOut(value, script, path, funds) ==
    [value |-> value, script |-> script, path |-> path, funds |-> funds]
Funding(value) == OnOut(value, FundingScript, NoPath, TRUE)
Change(value) == OnOut(value, Wallet, "p", FALSE)
Fundings ==
    [Idle EXCEPT
      !.setups = {Plain, Inbound, Pushed, ZeroFee},
      !.infos = {Simple(FALSE, 7, 0), Simple(FALSE, 3, 2)},
      !.onchainTxs =
        {OnchainTx(9, <<Funding(8)>>), OnchainTx(12, <<Funding(8), Change(2)>>),
         OnchainTx(9, <<Funding(7)>>),
         [OnchainTx(9, <<Funding(8)>>) EXCEPT !.segwit = FALSE]}]

Payments ==
    [Idle EXCEPT
      !.onchainTxs =
        {OnchainTx(11, <<Change(1)>>),
         OnchainTx(3, <<OnOut(2, Address, NoPath, FALSE)>>),
         OnchainTx(4, <<OnOut(2, Child, "p", FALSE)>>),
         OnchainTx(3, <<OnOut(2, Peer, NoPath, FALSE)>>),
         OnchainTx(3, <<OnOut(2, Peer, "p", FALSE)>>)},
      !.allowables = {Address}]

\* The two phases: HTLCs and anchors, transactions that do and do not decode.
Htlc(value) == [hash |-> "h", value |-> value, cltv |-> 1]
Typed == {[Plain EXCEPT !.type = t] : t \in {"Legacy", "StaticRemoteKey", "Anchors", "AnchorsZeroFeeHtlc"}}
Decoded == {Info(cp, 2, 0, o, r, f) : cp \in BOOLEAN, o, r \in {{}, {Htlc(4)}}, f \in {1, 2}}
           \cup Both({<<7, 0>>, <<0, 6>>, <<6, 3>>})
Bent(tx) ==
    {[tx EXCEPT !.version = 1], [tx EXCEPT !.canonical = FALSE],
     [tx EXCEPT !.outs = Append(@, Output("unknown", 1, 0))],
     [tx EXCEPT !.outs = [i \in DOMAIN @ |-> [@[i] EXCEPT !.lock = 3]]],
     [tx EXCEPT !.outs = @ \o @]}
Phases ==
    [Idle EXCEPT
      !.setups = Typed \cup {Inbound, Large},
      !.infos = Decoded,
      !.args = Decoded,
      !.commitTxs =
        {CommitmentTx(s, info) : s \in Typed, info \in Decoded}
        \cup UNION {Bent(CommitmentTx(Plain, info)) : info \in Both({<<7, 0>>})},
      !.htlcTxs =
        {[HtlcTx(s, Htlc(4), f, o) EXCEPT !.canonical = c] :
            s \in Typed, f \in 0..4, o, c \in BOOLEAN}]

\* Sweeps and the allowlist: early and late, to one and to several destinations.
Sweeping ==
    [Idle EXCEPT
      !.setups = {Plain, ZeroFee},
      !.htlcs = {[kind |-> "received", cltv |-> 1], [kind |-> "offered", cltv |-> 0],
                 [kind |-> "other", cltv |-> 0]},
      !.sweeps =
        {[version |-> v, lock_time |-> l, seq |-> q, scripts |-> to] :
            v \in {1, 2}, l \in 0..2, q \in {-1, 1, 2},
            to \in {{Wallet}, {Address}, {Child}, {Wallet, Peer}, {Address, Child}}},
      !.allowables = {Address, Xpub}]

EveryScenario == {Closes, Fundings, Payments, Phases, Sweeping}

\* What the theorems on funds ask of the policy and of the allowlist holds here.
ASSUME FundsAreProtected ==
    /\ ForeignAllowlist
    /\ Enforces(CommitmentTags \cup InitialTags \cup DestinationTags \cup CloseTags \cup FeeTags)
    /\ FeeLimit < U64Max

==============================================================================
