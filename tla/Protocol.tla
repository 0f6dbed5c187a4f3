------------------------------ MODULE Protocol ------------------------------
(***************************************************************************)
(* The messages a node and the signer exchange, as operators: what is on   *)
(* the wire (msgs.rs), what the signer's two handlers make of a message    *)
(* (handler.rs), and how the protocol client turns the calls of an LDK     *)
(* node into messages (vls-protocol-client).  SignerLink moves them.       *)
(*                                                                         *)
(* A message is a type and its arguments; signatures, keys and             *)
(* transactions are left out where no argument of another message repeats  *)
(* them.  An LDK commitment is counted down from Initial, its HTLCs are    *)
(* offered by the side that broadcasts it, and their amounts are in msat.  *)
(***************************************************************************)
EXTENDS Integers, Sequences, FiniteSets

CONSTANTS
    Initial,  \* INITIAL_COMMITMENT_NUMBER
    Radix,    \* the values of a byte
    NoPeer,   \* the peer id of zeros
    None      \* no value

ASSUME ProtocolAssumption == Initial \in Nat /\ Radix \in Nat \ {0, 1}

Merge(f, g) == [x \in DOMAIN f \cup DOMAIN g |-> IF x \in DOMAIN f THEN f[x] ELSE g[x]]

------------------------------------------------------------------------------
(* The wire: every message has a type                                       *)

StartupIds ==
    [HsmdInit |-> 11, HsmdInitReplyV2 |-> 113, HsmdInitReplyV4 |-> 114, HsmdInit2 |-> 1011,
     HsmdInit2Reply |-> 1111, NodeInfo |-> 1012, NodeInfoReply |-> 1112, ClientHsmFd |-> 9,
     ClientHsmFdReply |-> 109]

WalletIds ==
    [SignInvoice |-> 8, SignInvoiceReply |-> 108, SignWithdrawal |-> 7, SignWithdrawalReply |-> 107,
     Ecdh |-> 1, EcdhReply |-> 100, Memleak |-> 33, MemleakReply |-> 133,
     CheckFutureSecret |-> 22, CheckFutureSecretReply |-> 122, SignMessage |-> 23,
     SignMessageReply |-> 123, SignBolt12 |-> 25, SignBolt12Reply |-> 125,
     PreapproveInvoice |-> 38, PreapproveInvoiceReply |-> 138, PreapproveKeysend |-> 39,
     PreapproveKeysendReply |-> 139, DeriveSecret |-> 27, DeriveSecretReply |-> 127,
     CheckPubKey |-> 28, CheckPubKeyReply |-> 128]

GossipIds ==
    [SignChannelUpdate |-> 3, SignChannelUpdateReply |-> 103, SignChannelAnnouncement |-> 2,
     SignChannelAnnouncementReply |-> 102, SignNodeAnnouncement |-> 6,
     SignNodeAnnouncementReply |-> 106]

ChannelIds ==
    [GetPerCommitmentPoint |-> 18, GetPerCommitmentPoint2 |-> 1018,
     GetPerCommitmentPointReply |-> 118, GetPerCommitmentPoint2Reply |-> 1118,
     ReadyChannel |-> 31, ReadyChannelReply |-> 131, ValidateCommitmentTx |-> 35,
     ValidateCommitmentTx2 |-> 1035, ValidateCommitmentTxReply |-> 135,
     ValidateRevocation |-> 36, ValidateRevocationReply |-> 136, SignCommitmentTx |-> 5,
     SignLocalCommitmentTx2 |-> 1005, SignGossipMessage |-> 1006, SignGossipMessageReply |-> 1106]

RemoteIds ==
    [SignRemoteCommitmentTx |-> 19, Ping |-> 1000, Pong |-> 1100, SignRemoteCommitmentTx2 |-> 1019,
     SignCommitmentTxWithHtlcsReply |-> 1119]

SweepIds ==
    [SignDelayedPaymentToUs |-> 12, SignAnyDelayedPaymentToUs |-> 142, SignRemoteHtlcToUs |-> 13,
     SignAnyRemoteHtlcToUs |-> 143, SignLocalHtlcTx |-> 16, SignAnyLocalHtlcTx |-> 146,
     SignMutualCloseTx |-> 21, SignMutualCloseTx2 |-> 1021, SignCommitmentTxReply |-> 105,
     SignTxReply |-> 112, NewChannel |-> 30, NewChannelReply |-> 130, GetChannelBasepoints |-> 10,
     GetChannelBasepointsReply |-> 110, SignRemoteHtlcTx |-> 20, SignPenaltyToUs |-> 14,
     SignAnyPenaltyToUs |-> 144]

ChainIds ==
    [TipInfo |-> 2002, TipInfoReply |-> 2102, ForwardWatches |-> 2003, ForwardWatchesReply |-> 2103,
     ReverseWatches |-> 2004, ReverseWatchesReply |-> 2104, AddBlock |-> 2005, AddBlockReply |-> 2105,
     RemoveBlock |-> 2006, RemoveBlockReply |-> 2106, GetHeartbeat |-> 2008,
     GetHeartbeatReply |-> 2108, BlockChunk |-> 2009, BlockChunkReply |-> 2109]

Id ==
    Merge(Merge(Merge(StartupIds, WalletIds), Merge(GossipIds, ChannelIds)),
          Merge(Merge(RemoteIds, SweepIds), ChainIds))

\* The variants of enum Message; a type without one is read as Unknown.
Variants == DOMAIN Id \ {"SignGossipMessageReply"}
read_message(type) ==
    IF \E k \in Variants : Id[k] = type THEN CHOOSE k \in Variants : Id[k] = type ELSE "Unknown"

NoArgs == [none |-> TRUE]
Msg(kind, args) == [type |-> Id[kind], args |-> args]

\* DeBolt::from_vec: a reply of another type is an error.
from_vec(msg, kind) == msg.type = Id[kind]

to_be_bytes(n) == <<n \div Radix, n % Radix>>
from_be_bytes(b) == b[1] * Radix + b[2]
to_le_bytes(n) == <<n % Radix, n \div Radix>>
from_le_bytes(b) == b[2] * Radix + b[1]

\* A channel type on the wire is a set of feature bits.
OPT_STATIC_REMOTEKEY == 12
OPT_ANCHOR_OUTPUTS == 20
OPT_ANCHORS_ZERO_FEE_HTLC_TX == 22

commitment_type_to_channel_type(t) ==
    {OPT_STATIC_REMOTEKEY}
    \cup (IF t \in {"Anchors", "AnchorsZeroFeeHtlc"} THEN {OPT_ANCHOR_OUTPUTS} ELSE {})
    \cup (IF t = "AnchorsZeroFeeHtlc" THEN {OPT_ANCHORS_ZERO_FEE_HTLC_TX} ELSE {})

channel_type_to_commitment_type(bits) ==
    CASE OPT_ANCHORS_ZERO_FEE_HTLC_TX \in bits -> "AnchorsZeroFeeHtlc"
      [] OPT_ANCHORS_ZERO_FEE_HTLC_TX \notin bits /\ OPT_ANCHOR_OUTPUTS \in bits -> "Anchors"
      [] bits \cap {OPT_ANCHORS_ZERO_FEE_HTLC_TX, OPT_ANCHOR_OUTPUTS} = {} ->
            IF OPT_STATIC_REMOTEKEY \in bits THEN "StaticRemoteKey" ELSE "Legacy"

channel_type_panics(bits) ==
    /\ bits \cap {OPT_ANCHORS_ZERO_FEE_HTLC_TX, OPT_ANCHOR_OUTPUTS} # {}
    /\ OPT_STATIC_REMOTEKEY \notin bits

------------------------------------------------------------------------------
(* The signer's slots, as far as the order of requests depends on them       *)

channel_id(peer, dbid) == <<peer, to_le_bytes(dbid)>>

NoSlot ==
    [state |-> "none", setup |-> None, holder |-> 0, holder_info |-> None,
     counterparty |-> 0, counterparty_info |-> None, revoke |-> 0]

with_channel_base(slots, chan) == slots[chan].state # "none"
with_ready_channel(slots, chan) == slots[chan].state = "ready"

point_ok(slot, n) == IF slot.state = "stub" THEN n = 0 ELSE n <= slot.holder + 1
secret_ok(slot, n) == slot.state = "ready" /\ n + 2 <= slot.holder
\* The next commitment, or the current one again as it was.
holder_ok(slot, info) ==
    \/ slot.holder = info.n
    \/ slot.holder = info.n + 1 /\ slot.holder_info = info
\* As well, and the one before the one before it has been revoked, the one before it not.
counterparty_ok(slot, info) ==
    /\ \/ slot.counterparty = info.n
       \/ slot.counterparty = info.n + 1 /\ slot.counterparty_info = info
    /\ slot.revoke = IF info.n = 0 THEN 0 ELSE info.n - 1
\* The previous commitment's revocation, or the same again.
revoke_ok(slot, n) == slot.revoke \in {n, n + 1} /\ slot.counterparty = n + 2

------------------------------------------------------------------------------
(* What a handler makes of a message                                        *)

\* call: the function of the node, with what it gets; it may leave other slots.
Call(fn, chan, args) == [fn |-> fn, chan |-> chan, args |-> args]
Answers(slots, call, kind, args) ==
    [verdict |-> "reply", msg |-> Msg(kind, args), slots |-> slots, call |-> call]
Fails(slots, verdict) ==
    [verdict |-> verdict, msg |-> None, slots |-> slots, call |-> None]
AnswersIf(ok, slots, slots1, call, kind, args) ==
    IF ok THEN Answers(slots1, call, kind, args) ELSE Fails(slots, "refused")

Arm(needs, fn, reply) == [needs |-> needs, fn |-> fn, reply |-> reply]
\* An arm that asks the node, or a channel that must exist or be ready, and changes no slot.
plain(slots, arm, chan, args) ==
    AnswersIf(CASE arm.needs = "node" -> TRUE
                [] arm.needs = "base" -> with_channel_base(slots, chan)
                [] arm.needs = "ready" -> with_ready_channel(slots, chan),
              slots, slots, Call(arm.fn, chan, args), arm.reply, NoArgs)

NodeArms ==
    [Ping |-> Arm("node", "ping", "Pong"),
     Memleak |-> Arm("node", "none", "MemleakReply"),
     SignBolt12 |-> Arm("node", "sign_bolt12", "SignBolt12Reply"),
     PreapproveInvoice |-> Arm("node", "handle_proposed_invoice", "PreapproveInvoiceReply"),
     PreapproveKeysend |-> Arm("node", "handle_proposed_keysend", "PreapproveKeysendReply"),
     DeriveSecret |-> Arm("node", "derive_secret", "DeriveSecretReply"),
     SignMessage |-> Arm("node", "sign_message", "SignMessageReply")]

StartArms ==
    [HsmdInit2 |-> Arm("node", "add_allowlist", "HsmdInit2Reply"),
     Ecdh |-> Arm("node", "ecdh", "EcdhReply")]

InvoiceArms == [SignInvoice |-> Arm("node", "sign_invoice", "SignInvoiceReply")]

ChainArms ==
    [TipInfo |-> Arm("node", "tip", "TipInfoReply"),
     ForwardWatches |-> Arm("node", "get_all_forward_watches", "ForwardWatchesReply"),
     ReverseWatches |-> Arm("node", "get_all_reverse_watches", "ReverseWatchesReply"),
     GetHeartbeat |-> Arm("node", "get_heartbeat", "GetHeartbeatReply"),
     NodeInfo |-> Arm("node", "none", "NodeInfoReply")]

GossipArms ==
    [SignNodeAnnouncement |-> Arm("node", "sign_node_announcement", "SignNodeAnnouncementReply"),
     SignChannelUpdate |-> Arm("node", "sign_channel_update", "SignChannelUpdateReply"),
     SignGossipMessage |-> Arm("node", "sign_channel_update", "SignGossipMessageReply"),
     CheckPubKey |-> Arm("node", "check_wallet_pubkey", "CheckPubKeyReply")]

RootArms ==
    Merge(Merge(NodeArms, StartArms), Merge(InvoiceArms, Merge(ChainArms, GossipArms)))

\* The version of the reply follows the versions the node can read.
hsmd_init(slots, args) ==
    IF args.max >= 4 /\ args.min > 4 THEN Fails(slots, "panic")
    ELSE Answers(slots, Call("none", None, args),
                 IF args.max < 4 THEN "HsmdInitReplyV2" ELSE "HsmdInitReplyV4", NoArgs)

\* An existing slot is left as it is.
new_channel(slots, args) ==
    LET chan == channel_id(args.peer, args.dbid) IN
    Answers([slots EXCEPT ![chan] = IF @ = NoSlot THEN [@ EXCEPT !.state = "stub"] ELSE @],
            Call("new_channel", chan, args), "NewChannelReply", NoArgs)

get_channel_basepoints(slots, args) ==
    plain(slots, Arm("base", "get_channel_basepoints", "GetChannelBasepointsReply"),
          channel_id(args.peer, args.dbid), args)

SpendType(utxo) ==
    CASE utxo.is_p2sh -> "P2shP2wpkh"
      [] ~utxo.is_p2sh /\ utxo.close # None -> IF utxo.close.point THEN "P2wsh" ELSE "P2wpkh"
      [] ~utxo.is_p2sh /\ utxo.close = None -> "P2wpkh"

\* An output of a closed channel is spent with a key of that channel, which must be ready.
sign_withdrawal(slots, args) ==
    AnswersIf(/\ \A u \in args.utxos :
                    u.close # None => with_ready_channel(slots, channel_id(u.close.peer, u.close.dbid))
              /\ args.approved,
              slots, slots,
              Call("unchecked_sign_onchain_tx", None,
                   {[path |-> u.keyindex, type |-> SpendType(u),
                     chan |-> IF u.close = None THEN None
                              ELSE channel_id(u.close.peer, u.close.dbid)] : u \in args.utxos}),
              "SignWithdrawalReply", NoArgs)

\* A transaction without a lock time is a mutual close.
sign_commitment_tx(slots, args) ==
    LET chan == channel_id(args.peer, args.dbid) IN
    AnswersIf(/\ with_ready_channel(slots, chan)
              /\ args.lock_time # 0 => args.n + 1 = slots[chan].holder,
              slots, slots,
              Call(IF args.lock_time = 0 THEN "sign_mutual_close_tx"
                   ELSE "sign_holder_commitment_tx_phase2", chan, [n |-> args.n]),
              "SignCommitmentTxReply", NoArgs)

\* The four sweeps; the input is the message's or the first.
Sweep(fn, slots, chan, input) ==
    AnswersIf(with_ready_channel(slots, chan), slots, slots,
              Call(fn, chan, [input |-> input]), "SignTxReply", NoArgs)
sign_delayed_payment_to_us(slots, chan, input) == Sweep("sign_delayed_sweep", slots, chan, input)
sign_remote_htlc_to_us(slots, chan, input) ==
    Sweep("sign_counterparty_htlc_sweep", slots, chan, input)
sign_local_htlc_tx(slots, chan, input) == Sweep("sign_holder_htlc_tx", slots, chan, input)
sign_penalty_to_us(slots, chan, input) == Sweep("sign_justice_sweep", slots, chan, input)

Sweeps == [SignDelayedPaymentToUs |-> "delayed", SignRemoteHtlcToUs |-> "remote_htlc",
           SignLocalHtlcTx |-> "local_htlc"]
AnySweeps == [SignAnyDelayedPaymentToUs |-> "delayed", SignAnyRemoteHtlcToUs |-> "remote_htlc",
              SignAnyPenaltyToUs |-> "penalty", SignAnyLocalHtlcTx |-> "local_htlc"]
sweep(what, slots, chan, input) ==
    CASE what = "delayed" -> sign_delayed_payment_to_us(slots, chan, input)
      [] what = "remote_htlc" -> sign_remote_htlc_to_us(slots, chan, input)
      [] what = "local_htlc" -> sign_local_htlc_tx(slots, chan, input)
      [] what = "penalty" -> sign_penalty_to_us(slots, chan, input)

\* AddBlock, RemoveBlock and BlockChunk: decode is the offset of a streamed block, or None.
block_chunk(slots, decode, args) ==
    IF args.offset = (IF decode = None THEN 0 ELSE decode)
    THEN Answers(slots, Call("block_chunk", None, args), "BlockChunkReply", NoArgs)
    ELSE Fails(slots, "no decoder")
add_block(slots, decode, args) ==
    IF args.streamed = (decode # None)
    THEN Answers(slots, Call("add_block", None, args), "AddBlockReply", NoArgs)
    ELSE Fails(slots, "no decoder")
\* A streamed block is compared with the block before the tip (ChainTracker).
remove_block(slots, decode, args) ==
    IF args.streamed # (decode # None) THEN Fails(slots, "no decoder")
    ELSE IF args.streamed THEN Fails(slots, "wrong block")
    ELSE Answers(slots, Call("remove_block", None, args), "RemoveBlockReply", NoArgs)
decode_after(decode, kind, args) ==
    CASE kind = "BlockChunk" -> args.offset + 1
      [] kind \in {"AddBlock", "RemoveBlock"} -> None
      [] OTHER -> decode

RootHandler(slots, decode, kind, args) ==
    CASE kind \in DOMAIN RootArms -> plain(slots, RootArms[kind], None, args)
      [] kind = "HsmdInit" -> hsmd_init(slots, args)
      [] kind = "NewChannel" -> new_channel(slots, args)
      [] kind = "GetChannelBasepoints" -> get_channel_basepoints(slots, args)
      [] kind = "SignWithdrawal" -> sign_withdrawal(slots, args)
      [] kind = "SignCommitmentTx" -> sign_commitment_tx(slots, args)
      [] kind = "BlockChunk" -> block_chunk(slots, decode, args)
      [] kind = "AddBlock" -> add_block(slots, decode, args)
      [] kind = "RemoveBlock" -> remove_block(slots, decode, args)
      [] kind \in DOMAIN AnySweeps ->
            sweep(AnySweeps[kind], slots, channel_id(args.peer, args.dbid), args.input)
      [] OTHER -> Fails(slots, "unimplemented")

------------------------------------------------------------------------------
(* The handler of a channel's connection                                    *)

HandlerArms ==
    [Memleak |-> Arm("node", "none", "MemleakReply"),
     CheckFutureSecret |-> Arm("ready", "check_future_secret", "CheckFutureSecretReply"),
     Ecdh |-> Arm("node", "ecdh", "EcdhReply")]
RemoteHtlcArms == [SignRemoteHtlcTx |-> Arm("ready", "sign_counterparty_htlc_tx", "SignTxReply")]
CloseArms == [SignMutualCloseTx |-> Arm("ready", "sign_mutual_close_tx", "SignTxReply"),
              SignMutualCloseTx2 |-> Arm("ready", "sign_mutual_close_tx_phase2", "SignTxReply")]
AnnounceArms ==
    [SignChannelAnnouncement |->
        Arm("ready", "sign_channel_announcement", "SignChannelAnnouncementReply")]
ChannelArms == Merge(Merge(HandlerArms, RemoteHtlcArms), Merge(CloseArms, AnnounceArms))

\* The point of n also releases the secret of n - 2.
get_per_commitment_point(slots, chan, n) ==
    AnswersIf(/\ with_channel_base(slots, chan)
              /\ point_ok(slots[chan], n)
              /\ n >= 2 => secret_ok(slots[chan], n - 2),
              slots, slots, Call("get_per_commitment_point", chan, [n |-> n]),
              "GetPerCommitmentPointReply", [secret |-> IF n >= 2 THEN n - 2 ELSE None])
get_per_commitment_point2(slots, chan, n) ==
    AnswersIf(with_channel_base(slots, chan) /\ point_ok(slots[chan], n),
              slots, slots, Call("get_per_commitment_point", chan, [n |-> n]),
              "GetPerCommitmentPoint2Reply", NoArgs)

\* A ready channel may be made ready again, as it is.
ready_channel(slots, chan, args) ==
    LET setup == [type |-> channel_type_to_commitment_type(args.bits), outpoint |-> args.outpoint] IN
    IF channel_type_panics(args.bits) THEN Fails(slots, "panic")
    ELSE AnswersIf(\/ slots[chan].state = "stub"
                   \/ slots[chan].state = "ready" /\ slots[chan].setup = setup,
                   slots, [slots EXCEPT ![chan].state = "ready", ![chan].setup = setup],
                   Call("ready_channel", chan, setup), "ReadyChannelReply", NoArgs)

\* Htlc::side; an amount on the wire is in msat.
LOCAL_SIDE == 0
REMOTE_SIDE == 1
HTLCInfo2(htlcs, side) ==
    {[value_sat |-> h.amount \div 1000, hash |-> h.hash] : h \in {g \in htlcs : g.side = side}}
\* A pair: what the peer offers, and what we do.
extract_htlcs(htlcs) == <<HTLCInfo2(htlcs, REMOTE_SIDE), HTLCInfo2(htlcs, LOCAL_SIDE)>>

\* The commitment transaction as the channel gets it: offered is by the one who broadcasts it.
Commitment(n, to_holder, to_counterparty, offered, received) ==
    [n |-> n, to_holder |-> to_holder, to_counterparty |-> to_counterparty,
     offered |-> offered, received |-> received]

sign_remote(slots, chan, args, reply) ==
    LET sides == extract_htlcs(args.htlcs)
        info == Commitment(args.n, args.to_local, args.to_remote, sides[1], sides[2])
    IN
    AnswersIf(with_ready_channel(slots, chan) /\ counterparty_ok(slots[chan], info),
              slots, [slots EXCEPT ![chan].counterparty = args.n + 1,
                                   ![chan].counterparty_info = info],
              Call("sign_counterparty_commitment", chan, info),
              reply, NoArgs)
sign_remote_commitment_tx(slots, chan, args) == sign_remote(slots, chan, args, "SignTxReply")
sign_remote_commitment_tx2(slots, chan, args) ==
    sign_remote(slots, chan, args, "SignCommitmentTxWithHtlcsReply")

validate_holder(slots, chan, args) ==
    LET sides == extract_htlcs(args.htlcs)
        info == Commitment(args.n, args.to_local, args.to_remote, sides[2], sides[1])
    IN
    AnswersIf(with_ready_channel(slots, chan) /\ holder_ok(slots[chan], info),
              slots, [slots EXCEPT ![chan].holder = args.n + 1, ![chan].holder_info = info],
              Call("validate_holder_commitment", chan, info),
              "ValidateCommitmentTxReply", [secret |-> IF args.n >= 1 THEN args.n - 1 ELSE None])
validate_commitment_tx(slots, chan, args) == validate_holder(slots, chan, args)
validate_commitment_tx2(slots, chan, args) == validate_holder(slots, chan, args)

sign_local_commitment_tx2(slots, chan, args) ==
    AnswersIf(with_ready_channel(slots, chan) /\ args.n + 1 = slots[chan].holder,
              slots, slots, Call("sign_holder_commitment_tx_phase2", chan, [n |-> args.n]),
              "SignCommitmentTxWithHtlcsReply", NoArgs)

validate_revocation(slots, chan, args) ==
    AnswersIf(with_ready_channel(slots, chan) /\ revoke_ok(slots[chan], args.n),
              slots, [slots EXCEPT ![chan].revoke = args.n + 1],
              Call("validate_counterparty_revocation", chan, [n |-> args.n]),
              "ValidateRevocationReply", NoArgs)

ChannelHandler(slots, chan, kind, args) ==
    CASE kind \in DOMAIN ChannelArms -> plain(slots, ChannelArms[kind], chan, args)
      [] kind = "GetPerCommitmentPoint" -> get_per_commitment_point(slots, chan, args.n)
      [] kind = "GetPerCommitmentPoint2" -> get_per_commitment_point2(slots, chan, args.n)
      [] kind = "ReadyChannel" -> ready_channel(slots, chan, args)
      [] kind = "SignRemoteCommitmentTx" -> sign_remote_commitment_tx(slots, chan, args)
      [] kind = "SignRemoteCommitmentTx2" -> sign_remote_commitment_tx2(slots, chan, args)
      [] kind = "ValidateCommitmentTx" -> validate_commitment_tx(slots, chan, args)
      [] kind = "ValidateCommitmentTx2" -> validate_commitment_tx2(slots, chan, args)
      [] kind = "SignLocalCommitmentTx2" -> sign_local_commitment_tx2(slots, chan, args)
      [] kind = "ValidateRevocation" -> validate_revocation(slots, chan, args)
      [] kind \in DOMAIN Sweeps -> sweep(Sweeps[kind], slots, chan, 0)
      [] kind = "SignPenaltyToUs" -> sweep("penalty", slots, chan, 0)
      [] OTHER -> Fails(slots, "unimplemented")

------------------------------------------------------------------------------
(* The protocol client: the calls of an LDK node, as messages                *)

\* dbid 0 is the node's own connection; meant is what the node wants, for the properties.
Request(peer, dbid, kind, args, reply, meant) ==
    [peer |-> peer, dbid |-> dbid, msg |-> Msg(kind, args), reply |-> reply, meant |-> meant]
call(signer, kind, args, reply, meant) ==
    Request(signer.peer, signer.dbid, kind, args, reply, meant)
node_call(kind, args, reply) == Request(None, 0, kind, args, reply, None)

\* Mutant: the side of an HTLC is taken as the one who broadcasts sees it.
to_htlcs_unflipped(htlcs, is_remote) ==
    {[side |-> IF h.offered THEN LOCAL_SIDE ELSE REMOTE_SIDE,
      amount |-> h.amount_msat, hash |-> h.hash] : h \in htlcs}

to_htlcs(htlcs, is_remote) ==
    {[side |-> IF h.offered # is_remote THEN LOCAL_SIDE ELSE REMOTE_SIDE,
      amount |-> h.amount_msat, hash |-> h.hash] : h \in htlcs}

dest_wallet_path == 1
dbid_to_channel_id(dbid) == to_le_bytes(dbid)
\* Mutant: the id is read as generate_channel_keys_id writes it.
channel_id_to_dbid_be(id) == from_be_bytes(id)
channel_id_to_dbid(id) == from_le_bytes(id)

\* The state of a SignerClient, and what the node keeps of it on disk.
SignerClient(dbid) == [peer |-> NoPeer, dbid |-> dbid]
write(signer) == <<signer.peer, signer.dbid>>
read_chan_signer(bytes) == [peer |-> bytes[1], dbid |-> bytes[2]]

sign_counterparty_commitment(signer, tx, meant) ==
    call(signer, "SignRemoteCommitmentTx2",
         [n |-> Initial - tx.idx, to_local |-> tx.to_countersignatory,
          to_remote |-> tx.to_broadcaster, htlcs |-> to_htlcs(tx.htlcs, TRUE)],
         "SignCommitmentTxWithHtlcsReply", meant)
validate_counterparty_revocation(signer, idx) ==
    call(signer, "ValidateRevocation", [n |-> Initial - idx], "ValidateRevocationReply", None)
sign_holder_commitment_and_htlcs(signer, idx) ==
    call(signer, "SignLocalCommitmentTx2", [n |-> Initial - idx],
         "SignCommitmentTxWithHtlcsReply", None)
sign_closing_transaction(signer) ==
    call(signer, "SignMutualCloseTx2", [path |-> dest_wallet_path], "SignTxReply", None)
sign_channel_announcement(signer) ==
    call(signer, "SignChannelAnnouncement", NoArgs, "SignChannelAnnouncementReply", None)
client_point(signer, idx) ==
    call(signer, "GetPerCommitmentPoint2", [n |-> Initial - idx], "GetPerCommitmentPoint2Reply", None)
\* The secret of idx comes with the point two commitments on.
release_commitment_secret(signer, idx, meant) ==
    call(signer, "GetPerCommitmentPoint", [n |-> (Initial - idx) + 2],
         "GetPerCommitmentPointReply", meant)
validate_holder_commitment(signer, tx, meant) ==
    call(signer, "ValidateCommitmentTx2",
         [n |-> Initial - tx.idx, to_local |-> tx.to_broadcaster,
          to_remote |-> tx.to_countersignatory, htlcs |-> to_htlcs(tx.htlcs, FALSE)],
         "ValidateCommitmentTxReply", meant)
channel_keys_id(signer) == dbid_to_channel_id(signer.dbid)

\* Of the two anchor types an LDK node asks for, the one that keeps a fee is the exception.
provide_channel_parameters(signer, params) ==
    LET type == IF params.opt_anchors
                THEN IF params.opt_non_zero_fee_anchors THEN "Anchors" ELSE "AnchorsZeroFeeHtlc"
                ELSE "StaticRemoteKey"
    IN call(signer, "ReadyChannel",
            [bits |-> commitment_type_to_channel_type(type), outpoint |-> params.outpoint],
            "ReadyChannelReply", [type |-> type, outpoint |-> params.outpoint])

hsmd_init2 == node_call("HsmdInit2", NoArgs, "HsmdInit2Reply")
client_ecdh == node_call("Ecdh", NoArgs, "EcdhReply")
client_sign_invoice == node_call("SignInvoice", NoArgs, "SignInvoiceReply")
sign_gossip_message == node_call("SignGossipMessage", NoArgs, "SignGossipMessageReply")

generate_channel_keys_id(next_dbid) == to_be_bytes(next_dbid)
\* derive_channel_signer: the slot is created, then its base points are asked for.
client_basepoints(dbid) ==
    node_call("GetChannelBasepoints", [peer |-> NoPeer, dbid |-> dbid], "GetChannelBasepointsReply")
derive_channel_signer(keys_id) ==
    LET dbid == from_be_bytes(keys_id) IN
    <<node_call("NewChannel", [peer |-> NoPeer, dbid |-> dbid], "NewChannelReply"),
      client_basepoints(dbid)>>

\* A descriptor names the channel by its keys id, or is an output to the wallet.
descriptor_to_utxo(d) ==
    [is_p2sh |-> FALSE,
     keyindex |-> IF d.kind = "StaticOutput" THEN dest_wallet_path ELSE 0,
     close |-> IF d.kind = "StaticOutput" THEN None
               ELSE [peer |-> NoPeer, dbid |-> channel_id_to_dbid(d.keys_id),
                     point |-> d.kind = "DelayedPaymentOutput"]]
sign_onchain_tx(descriptors) ==
    node_call("SignWithdrawal",
              [utxos |-> {descriptor_to_utxo(d) : d \in descriptors}, approved |-> TRUE],
              "SignWithdrawalReply")

==============================================================================
