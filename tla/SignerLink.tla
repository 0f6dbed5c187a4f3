----------------------------- MODULE SignerLink -----------------------------
(***************************************************************************)
(* A node, the proxy and the signer.  The node's connections and the       *)
(* proxy's chain follower are callers: each waits for the answer to one    *)
(* request at a time.  Over gRPC the proxy queues requests, numbers them   *)
(* and matches responses by number, on streams that may break; over a      *)
(* serial line a lock makes one exchange at a time.  The signer takes the  *)
(* requests in order; its slots are durable, a block it is being streamed  *)
(* is not.  The node is an LDK node with the protocol client or a CLN      *)
(* node; a setting says which, and how much of what may happen.            *)
(***************************************************************************)
EXTENDS Protocol

CONSTANTS
    Settings,   \* what may happen, see MCSignerLink
    MaxDbid,    \* dbids are at most this
    Peer,       \* the peer of the CLN node's channel
    Parts       \* the contents of commitments: [to_us, to_them, ours, theirs]

\* What two bytes hold.
Dbids == 0..(Radix * Radix - 1)

ASSUME SignerLinkAssumption ==
    /\ MaxDbid \in Nat \ {0} /\ MaxDbid \in Dbids
    /\ None \notin 0..(MaxDbid + 1)
    /\ \A p \in Parts : \A h \in p.ours \cup p.theirs : h.sat \in Nat
    /\ \A s \in Settings :
          /\ s.node \in {"ldk", "cln"}
          /\ s.faults.restarts > 0 => IsFiniteSet(s.parts) /\ Cardinality(s.parts) <= 1
          /\ s.asks \subseteq {client_ecdh, client_sign_invoice, sign_gossip_message}

Root == 0
Front == MaxDbid + 1
Callers == 0..Front
Chans == {channel_id(p, d) : p \in {NoPeer, Peer}, d \in Dbids}

VARIABLES
    setting,
    callers,    \* what each caller does: [phase, reqs, then, reply]
    chans,      \* the channels the node knows of
    next_dbid,  \* KeysManagerClient::next_dbid
    follows,    \* whether the front has the node's keys
    is_ready,   \* GrpcSignerPort::is_ready
    queue,      \* the channel between the loops and the adapter
    requests,   \* Requests: what waits for a response, by request id
    next_id,    \* Requests::request_id
    live,       \* whether a stream is up
    writer,     \* who holds the receiver: "none", the stream's writer or one left "dangling"
    lock,       \* who holds the serial line
    sequence,   \* SerialWrap::sequence
    down, up,   \* what is on the way to the signer, and back
    signer,     \* "up" or "down"
    slots, decode,
    proxy,      \* "up" or "down"
    faults,     \* how often the environment may still interfere
    lost,       \* callers whose request went with a stream or a device
    events      \* what has happened, for the properties

node == <<chans, next_dbid, follows>>
adapter == <<is_ready, queue, requests, next_id>>
stream == <<live, writer, lock, sequence, down, up>>
device == <<signer, slots, decode>>
rest == <<setting, proxy, faults, lost, events>>
vars == <<callers, node, adapter, stream, device, rest>>

Grpc == setting.link = "grpc"
NoThen == [k |-> -1, chan |-> None]
Job(reqs, then) == [reqs |-> reqs, then |-> then]
Idle == [phase |-> "idle", reqs |-> <<>>, then |-> NoThen, reply |-> None]

------------------------------------------------------------------------------
(* What an LDK node asks, in the order LDK does                              *)

\* A channel: its signer client, and the numbers of the commitments exchanged so far.
NewChan(k, keys_id) ==
    [signer |-> SignerClient(from_be_bytes(keys_id)), outpoint |-> k, stage |-> "derived",
     holder |-> 0, counterparty |-> 0, revoked |-> 0]

idx(n) == Initial - n
\* The first commitment has no HTLCs.  A node that may start again has one content for each
\* of the others: what it asks for again it asks for as it did.
Contents(n) ==
    IF n = 0 THEN {p \in Parts : p.ours = {} /\ p.theirs = {}} ELSE Parts \cap setting.parts

\* LDK's transaction: offered is by the one who broadcasts; amounts are in msat.
LdkTx(n, p, by_us) ==
    [idx |-> idx(n),
     to_broadcaster |-> IF by_us THEN p.to_us ELSE p.to_them,
     to_countersignatory |-> IF by_us THEN p.to_them ELSE p.to_us,
     htlcs |-> {[offered |-> by_us, amount_msat |-> h.sat * 1000 + 999, hash |-> h.hash] : h \in p.ours}
               \cup {[offered |-> ~by_us, amount_msat |-> h.sat * 1000, hash |-> h.hash] :
                        h \in p.theirs}]
Sats(htlcs) == {[value_sat |-> h.sat, hash |-> h.hash] : h \in htlcs}
\* What the signer's channel must be told.
Meant(n, p, by_us) ==
    Commitment(n, p.to_us, p.to_them, Sats(IF by_us THEN p.ours ELSE p.theirs),
               Sats(IF by_us THEN p.theirs ELSE p.ours))

Then(k, c) == [k |-> k, chan |-> c]
PointJob(k, c) == Job(<<client_point(c.signer, idx(0))>>, Then(k, [c EXCEPT !.stage = "pointed"]))
ParametersJob(k, c, a, z) ==
    Job(<<provide_channel_parameters(c.signer, [opt_anchors |-> a, opt_non_zero_fee_anchors |-> z,
                                                outpoint |-> c.outpoint])>>,
        Then(k, [c EXCEPT !.stage = "ready"]))
SignJob(k, c, p) ==
    LET m == c.counterparty IN
    Job(<<sign_counterparty_commitment(c.signer, LdkTx(m, p, FALSE), Meant(m, p, FALSE))>>,
        Then(k, [c EXCEPT !.counterparty = m + 1]))
\* A holder commitment is validated, and the one before it revoked.
HolderJob(k, c, p) ==
    LET n == c.holder IN
    Job(<<validate_holder_commitment(c.signer, LdkTx(n, p, TRUE), Meant(n, p, TRUE)),
          client_point(c.signer, idx(n + 1))>>
        \o IF n = 0 THEN <<>>
           ELSE <<release_commitment_secret(c.signer, idx(n - 1), [secret |-> n - 1])>>,
        Then(k, [c EXCEPT !.holder = n + 1]))
RevocationJob(k, c) ==
    Job(<<validate_counterparty_revocation(c.signer, idx(c.revoked))>>,
        Then(k, [c EXCEPT !.revoked = c.revoked + 1]))
CloseJobs(k, c) ==
    {Job(<<sign_channel_announcement(c.signer)>>, NoThen),
     Job(<<sign_closing_transaction(c.signer)>>, Then(k, [c EXCEPT !.stage = "closed"])),
     Job(<<sign_holder_commitment_and_htlcs(c.signer, idx(c.holder - 1))>>,
         Then(k, [c EXCEPT !.stage = "forced"]))}

ReadyJobs(k, c) ==
    {SignJob(k, c, p) : p \in {q \in Contents(c.counterparty) : /\ c.counterparty <= setting.commits
                                                               /\ c.counterparty <= c.revoked + 1}}
    \cup {HolderJob(k, c, p) : p \in {q \in Contents(c.holder) : c.holder <= setting.commits}}
    \cup (IF c.counterparty > c.revoked + 1 THEN {RevocationJob(k, c)} ELSE {})
    \cup (IF setting.closes /\ c.holder = setting.commits + 1 THEN CloseJobs(k, c) ELSE {})

LdkChannelJobs(k) ==
    LET c == chans[k] IN
    CASE c.stage = "derived" -> {PointJob(k, c)}
      [] c.stage = "pointed" -> {ParametersJob(k, c, a, z) : a, z \in setting.anchors}
      [] c.stage = "ready" -> ReadyJobs(k, c)
      [] OTHER -> {}

\* An output of ours: after a mutual close, after our or after the peer's commitment.
Descriptor(c) ==
    [kind |-> CASE c.stage = "closed" -> "StaticOutput"
                [] c.stage = "forced" -> "DelayedPaymentOutput"
                [] OTHER -> "StaticPaymentOutput",
     keys_id |-> channel_keys_id(c.signer)]

LdkRootJobs ==
    {Job(derive_channel_signer(keys_id), [k |-> Len(chans) + 1, chan |-> NewChan(Len(chans) + 1, keys_id)]) :
        keys_id \in {generate_channel_keys_id(d) : d \in {next_dbid} \cap 1..MaxDbid}}
    \cup {Job(<<sign_onchain_tx({Descriptor(chans[k])})>>, NoThen) :
            k \in {i \in DOMAIN chans : /\ setting.closes
                                        /\ \/ chans[i].stage \in {"closed", "forced"}
                                           \/ chans[i].counterparty > setting.commits}}
    \cup {Job(<<r>>, NoThen) : r \in setting.asks}

LdkJobs(c) ==
    IF c = Root THEN {j \in LdkRootJobs : j.then.k > 0 => Len(chans) < setting.chans}
    ELSE UNION {LdkChannelJobs(k) : k \in {i \in DOMAIN chans : chans[i].signer.dbid = c}}

------------------------------------------------------------------------------
(* What a CLN node asks, on its own connection and on its channel's           *)

ClnStages == <<"started", "inited", "new", "open", "pointed", "ready", "signed", "committed">>
ClnChan(stage) == [signer |-> [peer |-> Peer, dbid |-> 1], outpoint |-> 1, stage |-> stage]
Stage(s) == CHOOSE i \in DOMAIN ClnStages : ClnStages[i] = s

OnChannel == [peer |-> Peer, dbid |-> 1]
WithInput == [peer |-> Peer, dbid |-> 1, input |-> 1]
First == [n |-> 0, to_local |-> 2, to_remote |-> 1, htlcs |-> {}]
WalletUtxo == [is_p2sh |-> TRUE, keyindex |-> 1, close |-> None]
PeerUtxo(point) == [is_p2sh |-> FALSE, keyindex |-> 0, close |-> [peer |-> Peer, dbid |-> 1, point |-> point]]

\* from: the first stage at which it is asked; to: the stage it leads to, or the same.
Cln(from, to, kind, args, reply) ==
    [from |-> from, to |-> to, kind |-> kind, args |-> args, reply |-> reply]
ClnSame(from, kind, args, reply) == Cln(from, from, kind, args, reply)

ClnRootAsks ==
    {Cln("started", "inited", "HsmdInit", [min |-> 2, max |-> v],
         IF v < 4 THEN "HsmdInitReplyV2" ELSE "HsmdInitReplyV4") : v \in {3, 4}}
    \cup {Cln("inited", "new", "NewChannel", OnChannel, "NewChannelReply")}
    \cup {ClnSame("inited", k, NoArgs, RootArms[k].reply) :
            k \in {"Ping", "Memleak", "SignMessage", "SignBolt12", "PreapproveInvoice",
                   "PreapproveKeysend", "DeriveSecret", "CheckPubKey", "SignInvoice",
                   "SignNodeAnnouncement", "SignChannelUpdate", "Ecdh"}}
    \cup {ClnSame("new", "GetChannelBasepoints", OnChannel, "GetChannelBasepointsReply")}
    \cup {ClnSame("inited", "SignWithdrawal", [utxos |-> {WalletUtxo}, approved |-> TRUE],
                  "SignWithdrawalReply")}
    \cup {ClnSame("committed", "SignWithdrawal", [utxos |-> {WalletUtxo, PeerUtxo(b)}, approved |-> TRUE],
                  "SignWithdrawalReply") : b \in BOOLEAN}
    \cup {ClnSame("committed", "SignCommitmentTx",
                  [peer |-> Peer, dbid |-> 1, lock_time |-> t, n |-> 0], "SignCommitmentTxReply") :
            t \in {0, 1}}
    \cup {ClnSame("committed", k, WithInput, "SignTxReply") : k \in DOMAIN AnySweeps}

ClnChannelAsks ==
    {Cln("open", "pointed", "GetPerCommitmentPoint", [n |-> 0], "GetPerCommitmentPointReply"),
     Cln("pointed", "ready", "ReadyChannel", [bits |-> {OPT_STATIC_REMOTEKEY}, outpoint |-> 1],
         "ReadyChannelReply"),
     Cln("ready", "signed", "SignRemoteCommitmentTx", First, "SignTxReply"),
     Cln("signed", "committed", "ValidateCommitmentTx", First, "ValidateCommitmentTxReply")}
    \cup {ClnSame("open", k, NoArgs, ChannelArms[k].reply) : k \in {"Memleak", "Ecdh"}}
    \cup {ClnSame("ready", k, NoArgs, ChannelArms[k].reply) :
            k \in {"CheckFutureSecret", "SignRemoteHtlcTx", "SignChannelAnnouncement"}}
    \cup {ClnSame("committed", k, NoArgs, "SignTxReply") :
            k \in DOMAIN Sweeps \cup {"SignMutualCloseTx", "SignPenaltyToUs"}}

ClnJobs(c) ==
    {Job(<<Request(IF c = Root THEN None ELSE Peer, c, a.kind, a.args, a.reply, None)>>,
         IF a.to = a.from THEN NoThen ELSE [k |-> 1, chan |-> ClnChan(a.to)]) :
        a \in {b \in IF c = Root THEN ClnRootAsks ELSE IF c = 1 THEN ClnChannelAsks ELSE {} :
                IF b.to = b.from THEN Stage(chans[1].stage) >= Stage(b.from)
                ELSE chans[1].stage = b.from}}

------------------------------------------------------------------------------
(* What the chain follower asks through the port front                       *)

front(kind, args, reply) == node_call(kind, args, reply)
populate_keys == <<front("NodeInfo", NoArgs, "NodeInfoReply")>>
tip_info == <<front("TipInfo", NoArgs, "TipInfoReply")>>
forward_watches == <<front("ForwardWatches", NoArgs, "ForwardWatchesReply")>>
reverse_watches == <<front("ReverseWatches", NoArgs, "ReverseWatchesReply")>>
beat == <<front("GetHeartbeat", NoArgs, "GetHeartbeatReply")>>
\* A block is streamed in two chunks when its filter has a false positive.
maybe_stream_block(streamed) ==
    IF ~streamed THEN <<>>
    ELSE [i \in 1..2 |-> front("BlockChunk", [offset |-> i - 1], "BlockChunkReply")]
front_add_block(streamed) ==
    maybe_stream_block(streamed) \o <<front("AddBlock", [streamed |-> streamed], "AddBlockReply")>>
front_remove_block(streamed) ==
    maybe_stream_block(streamed)
    \o <<front("RemoveBlock", [streamed |-> streamed], "RemoveBlockReply")>>

\* ChainFollower::update: a heartbeat, a block more or a block less.
update ==
    {tip_info \o beat}
    \cup {tip_info \o forward_watches \o front_add_block(s) : s \in BOOLEAN}
    \cup {tip_info \o reverse_watches \o front_remove_block(s) : s \in BOOLEAN}
FrontJobs ==
    IF ~follows THEN {Job(populate_keys, [k |-> 0, chan |-> None])}
    ELSE {Job(reqs, NoThen) : reqs \in update}

------------------------------------------------------------------------------
\* CLN opens the connection of a channel; the front may be switched off.
Closed ==
    (IF setting.front THEN {} ELSE {Front}) \cup (IF setting.node = "cln" THEN 1..MaxDbid ELSE {})

Init ==
    /\ setting \in Settings
    /\ callers = [c \in Callers |->
        [Idle EXCEPT !.phase = IF c \in Closed THEN "off" ELSE "idle",
                     !.reqs = IF c = Root /\ setting.node = "ldk" THEN <<hsmd_init2>> ELSE <<>>]]
    /\ chans = IF setting.node = "cln" THEN <<ClnChan("started")>> ELSE <<>>
    /\ next_dbid = 1
    /\ follows = FALSE
    /\ is_ready = FALSE
    /\ queue = <<>> /\ requests = << >> /\ next_id = 0
    /\ live = FALSE /\ writer = "none" /\ lock = None /\ sequence = 0
    /\ down = <<>> /\ up = <<>>
    /\ signer = IF setting.link = "serial" THEN "up" ELSE "down"
    /\ slots = [c \in Chans |-> NoSlot]
    /\ decode = None
    /\ proxy = "up"
    /\ faults = setting.faults
    /\ lost = {}
    /\ events = {}

------------------------------------------------------------------------------
(* The loops of the proxy: one per connection                                *)

Jobs(c) ==
    IF callers[c].reqs # <<>> THEN {Job(callers[c].reqs, callers[c].then)}
    ELSE CASE c = Front -> FrontJobs
           [] c # Front /\ setting.node = "ldk" -> LdkJobs(c)
           [] c # Front /\ setting.node = "cln" -> ClnJobs(c)

\* The front waits until somebody's request was sent; the serial port is always ready.
wait_ready(c) == c = Front => is_ready \/ ~Grpc

\* The serial loop answers Memleak itself.
LocalReply(req) == ~Grpc /\ req.msg.type = Id["Memleak"]

Waits(c, job) ==
    callers' = [callers EXCEPT ![c] = [phase |-> "waiting", reqs |-> job.reqs, then |-> job.then,
                                       reply |-> None]]
Opens(c, job) ==
    next_dbid' = IF c = Root /\ callers[c].reqs = <<>> /\ job.then.k = Len(chans) + 1
                 THEN next_dbid + 1 ELSE next_dbid

\* How often what changes nothing is asked is bounded.
Repeats(c, job) ==
    IF callers[c].reqs = <<>> /\ job.then = NoThen
    THEN faults.repeats > 0 /\ faults' = [faults EXCEPT !.repeats = @ - 1]
    ELSE UNCHANGED faults

send_request(c, req) ==
    /\ Grpc
    /\ queue' = Append(queue, [caller |-> c, req |-> req])
    /\ is_ready' = TRUE
    /\ UNCHANGED <<requests, next_id, stream>>
serial_request(c, req) ==
    /\ ~Grpc /\ lock = None /\ signer = "up"
    /\ lock' = c
    /\ down' = Append(down, [id |-> sequence, caller |-> c, req |-> req])
    /\ UNCHANGED <<adapter, live, writer, sequence, up>>

Send(c) ==
    /\ proxy = "up" /\ callers[c].phase = "idle" /\ wait_ready(c)
    /\ \E job \in Jobs(c) :
        /\ Opens(c, job)
        /\ Repeats(c, job)
        /\ \/ /\ ~LocalReply(Head(job.reqs))
              /\ Waits(c, job)
              /\ send_request(c, Head(job.reqs)) \/ serial_request(c, Head(job.reqs))
           \/ /\ LocalReply(Head(job.reqs))
              /\ callers' = callers
              /\ UNCHANGED <<adapter, stream>>
    /\ UNCHANGED <<chans, follows, device, setting, proxy, lost, events>>

\* What ends when a loop ends: the node's connection takes the proxy with it.
LoopEnds(c) == callers' = [callers EXCEPT ![c].phase = "ended"]
Shutdown(c) == proxy' = IF c = Root /\ Grpc THEN "down" ELSE proxy

\* A message too large is refused when the loop reads it.
SendTooLarge(c) ==
    /\ proxy = "up" /\ callers[c].phase = "idle" /\ faults.large > 0
    /\ \E job \in Jobs(c) : Head(job.reqs).msg.type = Id["SignWithdrawal"]
    /\ faults' = [faults EXCEPT !.large = @ - 1]
    /\ LoopEnds(c)
    /\ Shutdown(c)
    /\ UNCHANGED <<node, adapter, stream, device, setting, lost, events>>

\* ClientHsmFd: the loop opens a connection for the channel without asking the signer.
ClientHsmFd ==
    /\ proxy = "up" /\ setting.node = "cln"
    /\ callers[Root].phase = "idle" /\ chans[1].stage = "new"
    /\ callers[1].phase = "off"
    /\ callers' = [callers EXCEPT ![1].phase = "idle"]
    /\ chans' = <<ClnChan("open")>>
    /\ UNCHANGED <<next_dbid, follows, adapter, stream, device, rest>>

\* The loop has the reply: the node gets it, and asks what it asks next.
Reply(c) ==
    LET req == Head(callers[c].reqs)
        reply == callers[c].reply
        left == Tail(callers[c].reqs)
        then == callers[c].then
        understood == from_vec(reply.msg, req.reply)
    IN /\ proxy = "up" /\ callers[c].phase = "replied" /\ ~reply.temporary
       /\ events' = events \cup (IF reply.to = req THEN {} ELSE {"wrong answer"})
                           \cup (IF understood THEN {} ELSE {"bad reply"})
       /\ callers' = [callers EXCEPT ![c] =
            IF understood
            THEN [phase |-> "idle", reqs |-> left, then |-> IF left = <<>> THEN NoThen ELSE then,
                  reply |-> None]
            ELSE [@ EXCEPT !.phase = "ended"]]
       /\ IF understood /\ left = <<>>
          THEN /\ chans' = CASE then.k > Len(chans) -> Append(chans, then.chan)
                             [] then.k \in DOMAIN chans -> [chans EXCEPT ![then.k] = then.chan]
                             [] then.k <= 0 -> chans
               /\ follows' = (follows \/ then.k = 0)
          ELSE UNCHANGED <<chans, follows>>
       /\ UNCHANGED <<next_dbid, adapter, stream, device, setting, proxy, faults, lost>>

\* Mutant: the loop waits again and does not send again.
RetryWaits(c) ==
    /\ proxy = "up" /\ callers[c].phase = "replied" /\ callers[c].reply.temporary
    /\ callers' = [callers EXCEPT ![c].phase = "waiting", ![c].reply = None]
    /\ UNCHANGED <<node, adapter, stream, device, rest>>

\* A temporary failure is retried with backoff, for five minutes.
Retry(c) ==
    /\ proxy = "up" /\ callers[c].phase = "replied" /\ callers[c].reply.temporary
    /\ callers' = [callers EXCEPT ![c].phase = "waiting", ![c].reply = None]
    /\ send_request(c, Head(callers[c].reqs))
    /\ UNCHANGED <<node, device, rest>>

GiveUp(c) ==
    /\ proxy = "up" /\ callers[c].phase = "replied" /\ callers[c].reply.temporary
    /\ LoopEnds(c)
    /\ Shutdown(c)
    /\ UNCHANGED <<node, adapter, stream, device, setting, faults, lost, events>>

------------------------------------------------------------------------------
(* The adapter: a writer and a reader for every stream                       *)

\* A new stream's writer waits for the receiver.
LockReceiver ==
    /\ proxy = "up" /\ live /\ writer = "none"
    /\ writer' = "live"
    /\ UNCHANGED <<callers, node, adapter, live, lock, sequence, down, up, device, rest>>

\* The request is numbered and remembered, then sent: the writer of a stream that broke
\* does not know it yet.
writer_stream ==
    /\ proxy = "up" /\ writer # "none" /\ queue # <<>>
    /\ queue' = Tail(queue)
    /\ requests' = [id \in DOMAIN requests \cup {next_id} |->
                        IF id = next_id THEN Head(queue) ELSE requests[id]]
    /\ next_id' = next_id + 1
    /\ IF writer = "live"
       THEN /\ down' = Append(down, [id |-> next_id, caller |-> Head(queue).caller,
                                     req |-> Head(queue).req])
            /\ UNCHANGED <<writer, lost>>
       ELSE /\ lost' = lost \cup {Head(queue).caller}
            /\ writer' = "none"
            /\ UNCHANGED down
    /\ UNCHANGED <<callers, node, is_ready, live, lock, sequence, up, device, setting, proxy, faults,
                   events>>

DropWriter ==
    /\ proxy = "up" /\ writer = "dangling"
    /\ writer' = "none"
    /\ UNCHANGED <<callers, node, adapter, live, lock, sequence, down, up, device, rest>>

\* Mutant: the oldest request is taken to be the one that is answered.
requests_remove_oldest(resp) ==
    {i \in DOMAIN requests : \A j \in DOMAIN requests : i <= j}

\* The request a response is for.
requests_remove(resp) == IF resp.id \in DOMAIN requests THEN {resp.id} ELSE {}

\* An error that is not temporary, or a number nobody waits for, ends the proxy.
stream_reader ==
    /\ Grpc /\ proxy = "up" /\ live /\ up # <<>>
    /\ up' = Tail(up)
    /\ LET resp == Head(up)
           ids == requests_remove(resp)
       IN IF (resp.error /\ ~resp.temporary) \/ ids = {}
          THEN /\ proxy' = "down"
               /\ UNCHANGED <<callers, requests>>
          ELSE \E id \in ids :
               /\ requests' = [i \in DOMAIN requests \ {id} |-> requests[i]]
               /\ callers' = [callers EXCEPT
                    ![requests[id].caller].phase = "replied",
                    ![requests[id].caller].reply =
                        [msg |-> resp.msg, temporary |-> resp.temporary, to |-> resp.to]]
               /\ UNCHANGED proxy
    /\ UNCHANGED <<node, is_ready, queue, next_id, live, writer, lock, sequence, down, device, setting,
                   faults, lost, events>>

------------------------------------------------------------------------------
(* The serial line                                                          *)

\* A response with another sequence number ends the loop; the body that is left on the line
\* is no header for the next.
SerialRead(c) ==
    /\ ~Grpc /\ lock = c /\ up # <<>>
    /\ lock' = None
    /\ \/ /\ Head(up).id = sequence
          /\ sequence' = sequence + 1
          /\ up' = Tail(up)
          /\ callers' = [callers EXCEPT ![c].phase = "replied",
                                        ![c].reply = [msg |-> Head(up).msg, temporary |-> FALSE,
                                                      to |-> Head(up).to]]
          /\ UNCHANGED <<proxy, faults, events>>
       \/ /\ Head(up).id # sequence
          /\ up' = [up EXCEPT ![1].id = -1]
          /\ LoopEnds(c)
          /\ UNCHANGED <<sequence, proxy, faults, events>>
    /\ UNCHANGED <<node, adapter, live, writer, down, device, setting, lost>>

SerialReadFails(c) ==
    /\ ~Grpc /\ lock = c /\ faults.reads > 0
    /\ faults' = [faults EXCEPT !.reads = @ - 1]
    /\ events' = events \cup {"read failed"}
    /\ lock' = None
    /\ LoopEnds(c)
    /\ UNCHANGED <<node, adapter, live, writer, sequence, down, up, device, setting, proxy, lost>>

------------------------------------------------------------------------------
(* The signer                                                               *)

\* The signer tries until the proxy is there; what was persisted is there again.
do_connect == proxy = "up"
make_handler == decode' = None /\ UNCHANGED slots
Connect ==
    /\ Grpc /\ signer = "down" /\ ~live
    /\ do_connect
    /\ make_handler
    /\ signer' = "up" /\ live' = TRUE
    /\ UNCHANGED <<callers, node, adapter, writer, lock, sequence, down, up, rest>>

\* A request with a dbid is for the handler of a channel.
handle(req) ==
    LET kind == read_message(req.msg.type) IN
    IF req.dbid > 0 THEN ChannelHandler(slots, channel_id(req.peer, req.dbid), kind, req.msg.args)
    ELSE RootHandler(slots, decode, kind, req.msg.args)

Response(item, msg, error, temporary) ==
    [id |-> item.id, msg |-> msg, error |-> error, temporary |-> temporary, to |-> item.req]

\* What the node meant is what reached the node's function, or what came back.
AsMeant(req, out) ==
    \/ req.meant = None \/ out.verdict # "reply"
    \/ req.meant = out.call.args
    \/ req.meant = out.msg.args

\* Any error ends a device, and a signer on gRPC.
handle_requests(verdict) == verdict # "reply"

EndsSigner ==
    /\ signer' = "down" /\ live' = FALSE
    /\ writer' = IF writer = "live" THEN "dangling" ELSE writer
    /\ down' = <<>> /\ up' = <<>>
    /\ lost' = lost \cup {requests[id].caller : id \in DOMAIN requests}
                    \cup (IF lock = None THEN {} ELSE {lock})

\* A panic takes the signer with it; an error is answered, and the signer ends, maybe before
\* the answer has left.
Handle ==
    /\ signer = "up" /\ down # <<>>
    /\ LET item == Head(down)
           out == handle(item.req)
       IN /\ slots' = out.slots
          /\ events' = events \cup {out.verdict}
                              \cup (IF AsMeant(item.req, out) THEN {} ELSE {"not as meant"})
          /\ CASE ~handle_requests(out.verdict) ->
                    /\ down' = Tail(down)
                    /\ up' = Append(up, Response(item, out.msg, FALSE, FALSE))
                    /\ decode' = decode_after(decode, read_message(item.req.msg.type),
                                              item.req.msg.args)
                    /\ UNCHANGED <<signer, live, writer, lost>>
               [] handle_requests(out.verdict) /\ out.verdict = "refused" /\ Grpc ->
                    /\ UNCHANGED decode
                    /\ \/ /\ down' = <<>>
                          /\ up' = Append(up, Response(item, None, TRUE, FALSE))
                          /\ signer' = "down"
                          /\ UNCHANGED <<live, writer, lost>>
                       \/ EndsSigner
               [] OTHER -> EndsSigner /\ UNCHANGED decode
    /\ UNCHANGED <<callers, node, adapter, lock, sequence, setting, proxy, faults>>

\* A commitment of a channel whose funding is not deep enough fails for now and changes
\* nothing; a device does not tell it from another error.
HandleTemporary ==
    /\ signer = "up" /\ down # <<>> /\ faults.temporaries > 0
    /\ LET item == Head(down) IN
       /\ read_message(item.req.msg.type) \in
            {"SignRemoteCommitmentTx2", "ValidateCommitmentTx2", "ValidateCommitmentTx"}
       /\ item.req.msg.args.n > 0
       /\ faults' = [faults EXCEPT !.temporaries = @ - 1]
       /\ IF Grpc
          THEN /\ down' = Tail(down)
               /\ up' = Append(up, Response(item, None, TRUE, TRUE))
               /\ UNCHANGED <<signer, live, writer, lost>>
          ELSE EndsSigner
    /\ UNCHANGED <<callers, node, adapter, lock, sequence, slots, decode, setting, proxy, events>>

\* The connection is lost; the signer sees it, and ends.
Break ==
    /\ Grpc /\ live /\ faults.breaks > 0
    /\ faults' = [faults EXCEPT !.breaks = @ - 1]
    /\ EndsSigner
    /\ UNCHANGED <<callers, node, adapter, lock, sequence, slots, decode, setting, proxy, events>>

\* The node and the proxy start again; an LDK node reads its signers back, and counts
\* its channels from one.
Restart ==
    /\ faults.restarts > 0 /\ setting.node = "ldk" /\ Grpc
    /\ faults' = [faults EXCEPT !.restarts = @ - 1]
    /\ callers' = [c \in Callers |->
        [Idle EXCEPT !.phase = IF c \in Closed THEN "off" ELSE "idle",
                     !.reqs = IF c = Root THEN <<hsmd_init2>> ELSE <<>>]]
    /\ chans' = [k \in DOMAIN chans |->
                    [chans[k] EXCEPT !.signer = read_chan_signer(write(chans[k].signer))]]
    /\ next_dbid' = 1
    /\ follows' = FALSE /\ is_ready' = FALSE
    /\ queue' = <<>> /\ requests' = << >> /\ next_id' = 0
    /\ live' = FALSE /\ writer' = "none" /\ down' = <<>> /\ up' = <<>>
    /\ signer' = "down" /\ proxy' = "up" /\ lost' = {}
    /\ UNCHANGED <<lock, sequence, slots, decode, setting, events>>

------------------------------------------------------------------------------
Next ==
    \/ \E c \in Callers : Send(c) \/ SendTooLarge(c) \/ Reply(c) \/ Retry(c) \/ GiveUp(c)
    \/ ClientHsmFd
    \/ LockReceiver \/ writer_stream \/ DropWriter \/ stream_reader
    \/ \E c \in Callers : SerialRead(c) \/ SerialReadFails(c)
    \/ Connect \/ Handle \/ HandleTemporary \/ Break \/ Restart

\* The tasks of the proxy and the signer run; nothing makes a node ask, a stream break
\* or a signer come back.
Fairness ==
    /\ WF_vars(LockReceiver) /\ WF_vars(writer_stream) /\ WF_vars(DropWriter)
    /\ WF_vars(stream_reader) /\ WF_vars(Handle)
    /\ \A c \in Callers : WF_vars(Reply(c)) /\ WF_vars(Retry(c) \/ GiveUp(c)) /\ WF_vars(SerialRead(c))

Spec == Init /\ [][Next]_vars /\ Fairness

------------------------------------------------------------------------------
\* Two channels of the node have one dbid: next_dbid starts at one in every process.
Reused == \E j, k \in DOMAIN chans : j # k /\ chans[j].signer.dbid = chans[k].signer.dbid

\* What an LDK or a CLN node sends, in the order it does, is a message the signer's handler of
\* that connection has an arm for and carries out, and the reply is the one the caller reads:
\* whatever is lost, retried or restarted in between, as when a node that starts again asks for
\* a commitment the signer has already signed, or for a revocation it has already stored.  The
\* exceptions: two channels with one dbid, a block whose stream the signer did not live
\* through, a stale serial answer, and the follower's removal of a streamed block, in which
\* the signer compares the wrong block and always panics ("wrong block", see ChainTracker).
RequestsAreUnderstood ==
    /\ events \cap {"refused", "unimplemented", "panic"} # {} => Reused
    /\ "bad reply" \in events => "read failed" \in events
    /\ "no decoder" \in events => faults.breaks < setting.faults.breaks

\* A commitment reaches the channel with the number, the amounts, the HTLCs and the direction
\* the node gave it, a channel gets the type the node chose, and the secret that comes back is
\* the one asked for.
CommitmentsArriveAsMeant == "not as meant" \notin events

\* Every answer that a node gets is the answer to its own request, although the requests of
\* all connections share one stream that may be lost and opened again.  Over a serial line,
\* as long as no response failed to be read.
AnswersMatch == "wrong answer" \in events => "read failed" \in events

\* A caller that waits is answered, or its connection ends, as long as the signer is there
\* and did not go down with the request.
EveryRequestEnds ==
    \A c \in Callers :
        callers[c].phase = "waiting" ~>
            \/ callers[c].phase # "waiting" \/ c \in lost
            \/ signer = "down" \/ proxy = "down"

==============================================================================
