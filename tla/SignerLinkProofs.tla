-------------------------- MODULE SignerLinkProofs --------------------------
(***************************************************************************)
(* Two things about the link, for any number of connections, any number of *)
(* requests, faults and restarts, and any contents of the commitments:     *)
(* every answer is the answer to its caller's own request, and what a node *)
(* means is what the signer's channel is told.                             *)
(*                                                                         *)
(* The first is about the stream.  Each waiting caller has at most one     *)
(* entry, in the queue or among the numbered requests; numbers only grow,  *)
(* so that a number on the way, however late, is that of the request it    *)
(* was given to or of none.                                                *)
(*                                                                         *)
(* The second is about the messages.  A request is Honest when it arrives  *)
(* as meant whatever the signer's slots are by the time it is handled; so  *)
(* it does not matter what happens on the way.  All that an LDK node asks  *)
(* is Honest, because the client's encoding, the message's type and the    *)
(* handler's decoding undo one another.                                    *)
(***************************************************************************)
EXTENDS SignerLink, SequenceTheorems, TLAPS

------------------------------------------------------------------------------
(* Queues, of any elements                                                  *)

IsSeq(q) == \E S : q \in Seq(S)

LEMMA EmptyQueue ==
    IsSeq(<<>>) /\ Len(<<>>) = 0 /\ 1..Len(<<>>) = {} /\ DOMAIN <<>> = {}
<1>1. <<>> \in Seq({})  OBVIOUS
<1>2. Len(<<>>) = 0 /\ DOMAIN <<>> = 1..0 /\ 1..0 = {}  OBVIOUS
<1>. QED  BY <1>1, <1>2 DEF IsSeq

LEMMA Appended ==
    ASSUME NEW q, IsSeq(q), NEW x
    PROVE  /\ IsSeq(Append(q, x)) /\ Len(q) \in Nat /\ Len(Append(q, x)) = Len(q) + 1
           /\ \A i \in 1..Len(q) : Append(q, x)[i] = q[i]
           /\ Append(q, x)[Len(q) + 1] = x
           /\ \A i \in 1..Len(Append(q, x)) : i \in 1..Len(q) \/ i = Len(q) + 1
<1>1. PICK S : q \in Seq(S)  BY DEF IsSeq
<1>2. q \in Seq(S \cup {x})  BY <1>1
<1>3. Append(q, x) \in Seq(S \cup {x})  BY <1>2
<1>4. Len(q) \in Nat /\ Len(Append(q, x)) = Len(q) + 1  BY <1>2
<1>5. \A i \in 1..(Len(q) + 1) : i \in 1..Len(q) \/ i = Len(q) + 1  BY <1>4
<1>. QED  BY <1>2, <1>3, <1>4, <1>5 DEF IsSeq

LEMMA OneQueued ==
    ASSUME NEW x
    PROVE  Tail(<<x>>) = <<>> /\ Head(<<x>>) = x /\ <<x>>[1] = x /\ Append(<<>>, x) = <<x>>
<1>1. Tail(<<x>>) = <<>>  OBVIOUS
<1>2. Head(<<x>>) = x /\ <<x>>[1] = x  OBVIOUS
<1>3. Append(<<>>, x) = <<x>>  OBVIOUS
<1>. QED  BY <1>1, <1>2, <1>3

LEMMA Tailed ==
    ASSUME NEW q, IsSeq(q), q # <<>>
    PROVE  /\ IsSeq(Tail(q)) /\ Len(q) \in Nat \ {0} /\ Len(Tail(q)) = Len(q) - 1
           /\ \A i \in 1..(Len(q) - 1) : i + 1 \in 1..Len(q) /\ Tail(q)[i] = q[i + 1]
           /\ Head(q) = q[1] /\ 1 \in 1..Len(q)
<1>1. PICK S : q \in Seq(S)  BY DEF IsSeq
<1>2. Tail(q) \in Seq(S)  BY <1>1
<1>3. Len(q) \in Nat \ {0} /\ Len(Tail(q)) = Len(q) - 1  BY <1>1
<1>4. \A i \in 1..(Len(q) - 1) : i + 1 \in 1..Len(q)  BY <1>3
<1>5. 1 \in 1..Len(q)  BY <1>3
<1>. QED  BY <1>1, <1>2, <1>3, <1>4, <1>5 DEF IsSeq

------------------------------------------------------------------------------
\* What a handler may say of a message.
Verdicts == {"reply", "refused", "unimplemented", "panic", "no decoder", "wrong block"}

LEMMA SweepVerdict ==
    ASSUME NEW fn, NEW s, NEW chan, NEW input
    PROVE  Sweep(fn, s, chan, input).verdict \in Verdicts
BY DEF Sweep, AnswersIf, Answers, Fails, Verdicts

LEMMA RootVerdict ==
    ASSUME NEW s, NEW d, NEW kind, NEW args
    PROVE  RootHandler(s, d, kind, args).verdict \in Verdicts
<1>1. \A arm : plain(s, arm, None, args).verdict \in Verdicts
  BY DEF plain, AnswersIf, Answers, Fails, Verdicts
<1>2. hsmd_init(s, args).verdict \in Verdicts
  BY DEF hsmd_init, Answers, Fails, Verdicts
<1>3. new_channel(s, args).verdict \in Verdicts
  BY DEF new_channel, Answers, Fails, Verdicts
<1>4. get_channel_basepoints(s, args).verdict \in Verdicts
  BY DEF get_channel_basepoints, plain, AnswersIf, Answers, Fails, Verdicts
<1>5. sign_withdrawal(s, args).verdict \in Verdicts
  BY DEF sign_withdrawal, AnswersIf, Answers, Fails, Verdicts
<1>6. sign_commitment_tx(s, args).verdict \in Verdicts
  BY DEF sign_commitment_tx, AnswersIf, Answers, Fails, Verdicts
<1>7. /\ block_chunk(s, d, args).verdict \in Verdicts
      /\ add_block(s, d, args).verdict \in Verdicts
      /\ remove_block(s, d, args).verdict \in Verdicts
  BY DEF block_chunk, add_block, remove_block, Answers, Fails, Verdicts
<1>8. \A k \in DOMAIN AnySweeps :
        sweep(AnySweeps[k], s, channel_id(args.peer, args.dbid), args.input).verdict \in Verdicts
  BY SweepVerdict DEF AnySweeps, sweep, sign_delayed_payment_to_us, sign_remote_htlc_to_us,
     sign_local_htlc_tx, sign_penalty_to_us
<1>9. Fails(s, "unimplemented").verdict \in Verdicts  BY DEF Fails, Verdicts
<1>. HIDE DEF Verdicts
<1>. QED  BY <1>1, <1>2, <1>3, <1>4, <1>5, <1>6, <1>7, <1>8, <1>9 DEF RootHandler

LEMMA ChannelVerdict ==
    ASSUME NEW s, NEW chan, NEW kind, NEW args
    PROVE  ChannelHandler(s, chan, kind, args).verdict \in Verdicts
<1>1. \A arm : plain(s, arm, chan, args).verdict \in Verdicts
  BY DEF plain, AnswersIf, Answers, Fails, Verdicts
<1>2. /\ get_per_commitment_point(s, chan, args.n).verdict \in Verdicts
      /\ get_per_commitment_point2(s, chan, args.n).verdict \in Verdicts
  BY DEF get_per_commitment_point, get_per_commitment_point2, AnswersIf, Answers, Fails, Verdicts
<1>3. ready_channel(s, chan, args).verdict \in Verdicts
  BY DEF ready_channel, AnswersIf, Answers, Fails, Verdicts
<1>4. \A reply : sign_remote(s, chan, args, reply).verdict \in Verdicts
  BY DEF sign_remote, AnswersIf, Answers, Fails, Verdicts
<1>5. validate_holder(s, chan, args).verdict \in Verdicts
  BY DEF validate_holder, AnswersIf, Answers, Fails, Verdicts
<1>6. sign_local_commitment_tx2(s, chan, args).verdict \in Verdicts
  BY DEF sign_local_commitment_tx2, AnswersIf, Answers, Fails, Verdicts
<1>7. validate_revocation(s, chan, args).verdict \in Verdicts
  BY DEF validate_revocation, AnswersIf, Answers, Fails, Verdicts
<1>8. /\ \A k \in DOMAIN Sweeps : sweep(Sweeps[k], s, chan, 0).verdict \in Verdicts
      /\ sweep("penalty", s, chan, 0).verdict \in Verdicts
  BY SweepVerdict DEF Sweeps, sweep, sign_delayed_payment_to_us, sign_remote_htlc_to_us,
     sign_local_htlc_tx, sign_penalty_to_us
<1>9. Fails(s, "unimplemented").verdict \in Verdicts  BY DEF Fails, Verdicts
<1>. HIDE DEF Verdicts
<1>. QED
  BY <1>1, <1>2, <1>3, <1>4, <1>5, <1>6, <1>7, <1>8, <1>9
  DEF ChannelHandler, sign_remote_commitment_tx, sign_remote_commitment_tx2,
      validate_commitment_tx, validate_commitment_tx2

LEMMA HandleVerdict ==
    ASSUME NEW req
    PROVE  handle(req).verdict \in Verdicts
BY RootVerdict, ChannelVerdict DEF handle

------------------------------------------------------------------------------
(* Every answer is the answer to its caller's own request                    *)

CallersOK ==
    /\ DOMAIN callers = Callers
    /\ \A c \in Callers : DOMAIN callers[c] = {"phase", "reqs", "then", "reply"}

\* The caller waits for the answer to this request.
Awaits(cs, c, req) ==
    /\ c \in Callers
    /\ cs[c].phase = "waiting"
    /\ Head(cs[c].reqs) = req

RepliesOK ==
    \A c \in Callers :
        callers[c].phase = "replied" => callers[c].reply.to = Head(callers[c].reqs)

\* What is queued, and what waits for a response: for each waiting caller at most one.
EntriesOK ==
    /\ IsSeq(queue)
    /\ next_id \in Nat
    /\ DOMAIN requests \subseteq 0..(next_id - 1)
    /\ \A i \in 1..Len(queue) : Awaits(callers, queue[i].caller, queue[i].req)
    /\ \A id \in DOMAIN requests : Awaits(callers, requests[id].caller, requests[id].req)
    /\ \A i, j \in 1..Len(queue) : queue[i].caller = queue[j].caller => i = j
    /\ \A i, j \in DOMAIN requests : requests[i].caller = requests[j].caller => i = j
    /\ \A i \in 1..Len(queue), j \in DOMAIN requests : queue[i].caller # requests[j].caller

\* A number on the stream is the number of that request.
Numbered(rs, next, id, req) ==
    /\ id \in 0..(next - 1)
    /\ id \in DOMAIN rs => rs[id].req = req

StreamOK ==
    /\ \A i \in 1..Len(down) : Numbered(requests, next_id, down[i].id, down[i].req)
    /\ \A i \in 1..Len(up) : Numbered(requests, next_id, up[i].id, up[i].to)

\* One exchange at a time: nothing is on the line, or the request of the caller that holds it,
\* or the response to that request.
SerialOK ==
    /\ lock # None => lock \in Callers /\ callers[lock].phase = "waiting"
    /\ \/ down = <<>> /\ up = <<>>
       \/ \E item : /\ down = <<item>> /\ up = <<>>
                    /\ item.id = sequence /\ Awaits(callers, lock, item.req)
       \/ \E resp : /\ down = <<>> /\ up = <<resp>>
                    /\ resp.id = sequence /\ Awaits(callers, lock, resp.to)

LinkInv ==
    /\ CallersOK
    /\ IsSeq(down) /\ IsSeq(up)
    /\ Grpc => EntriesOK /\ StreamOK /\ RepliesOK
    /\ ~Grpc => queue = <<>>
    /\ ~Grpc /\ "read failed" \notin events => SerialOK /\ RepliesOK
    /\ AnswersMatch

LEMMA LinkInit == Init => LinkInv
<1>. SUFFICES ASSUME Init PROVE LinkInv  OBVIOUS
<1>1. CallersOK  BY DEF Init, CallersOK, Idle
<1>2. RepliesOK  BY DEF Init, RepliesOK, Idle
<1>3. /\ queue = <<>> /\ requests = <<>> /\ next_id = 0 /\ down = <<>> /\ up = <<>>
      /\ lock = None /\ events = {}
  BY DEF Init
<1>4. EntriesOK  BY <1>3, EmptyQueue DEF EntriesOK
<1>5. StreamOK  BY <1>3, EmptyQueue DEF StreamOK
<1>6. SerialOK  BY <1>3, EmptyQueue DEF SerialOK
<1>. QED  BY <1>1, <1>2, <1>3, <1>4, <1>5, <1>6, EmptyQueue DEF LinkInv, AnswersMatch

\* A step that touches neither the callers nor what is on the way.
LEMMA LinkStutter ==
    ASSUME LinkInv, UNCHANGED <<callers, queue, requests, next_id, lock, sequence, down, up, setting, events>>
    PROVE  LinkInv'
BY DEF LinkInv, CallersOK, EntriesOK, Awaits, RepliesOK, StreamOK, Numbered, SerialOK,
       AnswersMatch, Grpc

LEMMA LinkSendRequest ==
    ASSUME LinkInv, NEW c \in Callers, NEW req, send_request(c, req),
           ~(callers[c].phase = "waiting"), ~(callers'[c].phase = "replied"),
           callers'[c].phase = "waiting", Head(callers'[c].reqs) = req, CallersOK',
           \A d \in Callers \ {c} : callers'[d] = callers[d],
           UNCHANGED <<setting, events>>
    PROVE  LinkInv'
<1>1. Grpc /\ Grpc'  BY DEF send_request, Grpc
<1>2. EntriesOK /\ StreamOK /\ RepliesOK /\ IsSeq(queue)  BY <1>1 DEF LinkInv, EntriesOK
<1>3. queue' = Append(queue, [caller |-> c, req |-> req]) /\ UNCHANGED <<requests, next_id, stream>>
  BY DEF send_request
<1>4. /\ IsSeq(queue') /\ Len(queue) \in Nat /\ Len(queue') = Len(queue) + 1
      /\ \A i \in 1..Len(queue) : queue'[i] = queue[i]
      /\ queue'[Len(queue) + 1] = [caller |-> c, req |-> req]
  BY <1>2, <1>3, Appended
<1>5. \A d, r : Awaits(callers, d, r) => d # c /\ Awaits(callers', d, r)
  BY DEF Awaits
<1>6. Awaits(callers', c, req)  BY DEF Awaits
<1>7. EntriesOK'
  <2>1. \A i \in 1..Len(queue') :
            \/ i \in 1..Len(queue) /\ queue'[i] = queue[i]
            \/ i = Len(queue) + 1 /\ queue'[i].caller = c /\ queue'[i].req = req
    BY <1>4
  <2>2. \A i \in 1..Len(queue') : Awaits(callers', queue'[i].caller, queue'[i].req)
    BY <2>1, <1>2, <1>5, <1>6 DEF EntriesOK
  <2>3. \A id \in DOMAIN requests' : Awaits(callers', requests'[id].caller, requests'[id].req)
    BY <1>2, <1>3, <1>5 DEF EntriesOK
  <2>4. \A i, j \in 1..Len(queue') : queue'[i].caller = queue'[j].caller => i = j
    BY <2>1, <1>2, <1>5 DEF EntriesOK
  <2>5. \A i \in 1..Len(queue'), j \in DOMAIN requests' : queue'[i].caller # requests'[j].caller
    BY <2>1, <1>2, <1>3, <1>5 DEF EntriesOK
  <2>. QED  BY <1>2, <1>3, <1>4, <2>2, <2>3, <2>4, <2>5 DEF EntriesOK
<1>8. StreamOK'  BY <1>2, <1>3 DEF StreamOK, Numbered, stream
<1>9. RepliesOK'  BY <1>2 DEF RepliesOK
<1>. QED  BY <1>1, <1>3, <1>7, <1>8, <1>9 DEF LinkInv, stream, AnswersMatch

LEMMA LinkSerialRequest ==
    ASSUME LinkInv, NEW c \in Callers, NEW req, serial_request(c, req),
           callers'[c].phase = "waiting", Head(callers'[c].reqs) = req, CallersOK',
           \A d \in Callers \ {c} : callers'[d] = callers[d],
           UNCHANGED <<setting, events>>
    PROVE  LinkInv'
<1>1. ~Grpc /\ ~Grpc'  BY DEF serial_request, Grpc
<1>2. IsSeq(down')
  <2>1. IsSeq(down) /\ down' = Append(down, [id |-> sequence, caller |-> c, req |-> req])
    BY DEF LinkInv, serial_request
  <2>. QED  BY <2>1, Appended
<1>3. queue = <<>> /\ queue' = queue /\ up' = up /\ sequence' = sequence /\ lock' = c /\ lock = None
  BY <1>1 DEF LinkInv, serial_request, adapter
<1>4. ASSUME "read failed" \notin events'
      PROVE  SerialOK' /\ RepliesOK'
  <2>. DEFINE item == [id |-> sequence, caller |-> c, req |-> req]
  <2>1. SerialOK /\ RepliesOK  BY <1>1, <1>4 DEF LinkInv
  <2>2. c # None /\ None \notin Callers  BY SignerLinkAssumption DEF Callers, Front
  <2>3. down = <<>> /\ up = <<>>  BY <2>1, <2>2, <1>3 DEF SerialOK, Awaits
  <2>4. down' = <<item>>  BY <2>3 DEF serial_request
  <2>5. item.id = sequence' /\ Awaits(callers', lock', item.req)  BY <1>3 DEF Awaits
  <2>6. SerialOK'  BY <1>3, <2>3, <2>4, <2>5 DEF SerialOK
  <2>7. RepliesOK'  BY <2>1 DEF RepliesOK
  <2>. QED  BY <2>6, <2>7
<1>5. IsSeq(up')  BY <1>3 DEF LinkInv
<1>. QED  BY <1>1, <1>2, <1>3, <1>4, <1>5 DEF LinkInv, AnswersMatch

LEMMA LinkSend ==
    ASSUME LinkInv, NEW c \in Callers, Send(c)
    PROVE  LinkInv'
<1>1. PICK job \in Jobs(c) :
         \/ /\ ~LocalReply(Head(job.reqs))
            /\ Waits(c, job)
            /\ send_request(c, Head(job.reqs)) \/ serial_request(c, Head(job.reqs))
         \/ callers' = callers /\ UNCHANGED <<adapter, stream>>
  BY DEF Send
<1>2. callers[c].phase = "idle" /\ UNCHANGED <<setting, events>>  BY DEF Send
<1>3. CASE callers' = callers /\ UNCHANGED <<adapter, stream>>
  BY <1>2, <1>3, LinkStutter DEF adapter, stream
<1>4. CASE Waits(c, job) /\ (send_request(c, Head(job.reqs)) \/ serial_request(c, Head(job.reqs)))
  <2>1. DOMAIN callers = Callers  BY DEF LinkInv, CallersOK
  <2>2. /\ callers'[c].phase = "waiting" /\ callers'[c].reqs = job.reqs
        /\ DOMAIN callers'[c] = {"phase", "reqs", "then", "reply"}
        /\ DOMAIN callers' = Callers
        /\ \A d \in Callers \ {c} : callers'[d] = callers[d]
    BY <1>4, <2>1 DEF Waits
  <2>3. CallersOK'  BY <2>2 DEF LinkInv, CallersOK
  <2>. QED  BY <1>2, <1>4, <2>2, <2>3, LinkSendRequest, LinkSerialRequest
<1>. QED  BY <1>1, <1>3, <1>4

LEMMA LinkRetry ==
    ASSUME LinkInv, NEW c \in Callers, Retry(c)
    PROVE  LinkInv'
<1>1. DOMAIN callers = Callers /\ DOMAIN callers[c] = {"phase", "reqs", "then", "reply"}
  BY DEF LinkInv, CallersOK
<1>2. /\ callers'[c].phase = "waiting" /\ callers'[c].reqs = callers[c].reqs
      /\ DOMAIN callers'[c] = {"phase", "reqs", "then", "reply"}
      /\ DOMAIN callers' = Callers
      /\ \A d \in Callers \ {c} : callers'[d] = callers[d]
  BY <1>1 DEF Retry
<1>3. CallersOK'  BY <1>2 DEF LinkInv, CallersOK
<1>4. callers[c].phase = "replied" /\ send_request(c, Head(callers[c].reqs)) /\ UNCHANGED <<setting, events>>
  BY DEF Retry, rest
<1>. QED  BY <1>2, <1>3, <1>4, LinkSendRequest

\* A caller that does not wait goes on to something else than waiting.
LEMMA LinkCaller ==
    ASSUME LinkInv, NEW c \in Callers, callers[c].phase # "waiting",
           callers'[c].phase \notin {"waiting", "replied"}, CallersOK',
           \A d \in Callers \ {c} : callers'[d] = callers[d],
           UNCHANGED <<adapter, stream, setting>>,
           "read failed" \notin events' => "read failed" \notin events,
           AnswersMatch'
    PROVE  LinkInv'
<1>1. \A d, r : Awaits(callers, d, r) => Awaits(callers', d, r)  BY DEF Awaits
<1>2. EntriesOK => EntriesOK'  BY <1>1 DEF EntriesOK, adapter
<1>3. RepliesOK => RepliesOK'  BY DEF RepliesOK
<1>4. StreamOK => StreamOK'  BY DEF StreamOK, Numbered, stream, adapter
<1>5. SerialOK => SerialOK'
  <2>. SUFFICES ASSUME SerialOK PROVE SerialOK'  OBVIOUS
  <2>1. lock # None => lock # c /\ callers'[lock] = callers[lock]  BY DEF SerialOK
  <2>2. UNCHANGED <<lock, sequence, down, up>>  BY DEF stream
  <2>. QED  BY <1>1, <2>1, <2>2 DEF SerialOK
<1>. QED  BY <1>2, <1>3, <1>4, <1>5 DEF LinkInv, adapter, stream, Grpc

LEMMA LinkSendTooLarge ==
    ASSUME LinkInv, NEW c \in Callers, SendTooLarge(c) \/ GiveUp(c)
    PROVE  LinkInv'
<1>1. DOMAIN callers = Callers /\ \A d \in Callers : DOMAIN callers[d] = {"phase", "reqs", "then", "reply"}
  BY DEF LinkInv, CallersOK
<1>2. /\ callers[c].phase # "waiting"
      /\ callers' = [callers EXCEPT ![c].phase = "ended"]
      /\ UNCHANGED <<adapter, stream, setting, events>>
  BY DEF SendTooLarge, GiveUp, LoopEnds
<1>3. /\ callers'[c].phase = "ended"
      /\ \A d \in Callers \ {c} : callers'[d] = callers[d]
      /\ CallersOK'
  BY <1>1, <1>2 DEF CallersOK
<1>4. AnswersMatch'  BY <1>2 DEF LinkInv, AnswersMatch
<1>. QED  BY <1>2, <1>3, <1>4, LinkCaller

LEMMA LinkClientHsmFd ==
    ASSUME LinkInv, ClientHsmFd
    PROVE  LinkInv'
<1>1. DOMAIN callers = Callers /\ \A d \in Callers : DOMAIN callers[d] = {"phase", "reqs", "then", "reply"}
  BY DEF LinkInv, CallersOK
<1>2. 1 \in Callers  BY SignerLinkAssumption DEF Callers, Front
<1>3. /\ callers[1].phase # "waiting"
      /\ callers' = [callers EXCEPT ![1].phase = "idle"]
      /\ UNCHANGED <<adapter, stream, setting, events>>
  BY DEF ClientHsmFd, rest
<1>4. /\ callers'[1].phase = "idle"
      /\ \A d \in Callers \ {1} : callers'[d] = callers[d]
      /\ CallersOK'
  BY <1>1, <1>2, <1>3 DEF CallersOK
<1>5. AnswersMatch'  BY <1>3 DEF LinkInv, AnswersMatch
<1>. QED  BY <1>2, <1>3, <1>4, <1>5, LinkCaller

LEMMA LinkReply ==
    ASSUME LinkInv, NEW c \in Callers, Reply(c)
    PROVE  LinkInv'
<1>. DEFINE req == Head(callers[c].reqs)  reply == callers[c].reply
            understood == from_vec(reply.msg, req.reply)  left == Tail(callers[c].reqs)
            then == callers[c].then
<1>1. DOMAIN callers = Callers /\ \A d \in Callers : DOMAIN callers[d] = {"phase", "reqs", "then", "reply"}
  BY DEF LinkInv, CallersOK
<1>2. /\ callers[c].phase = "replied"
      /\ events' = events \cup (IF reply.to = req THEN {} ELSE {"wrong answer"})
                          \cup (IF understood THEN {} ELSE {"bad reply"})
      /\ callers' = [callers EXCEPT ![c] =
            IF understood
            THEN [phase |-> "idle", reqs |-> left, then |-> IF left = <<>> THEN NoThen ELSE then,
                  reply |-> None]
            ELSE [callers[c] EXCEPT !.phase = "ended"]]
      /\ UNCHANGED <<adapter, stream, setting>>
  BY DEF Reply
<1>. HIDE DEF req, reply, understood, left, then
<1>3. /\ callers'[c].phase \in {"idle", "ended"}
      /\ DOMAIN callers'[c] = {"phase", "reqs", "then", "reply"}
      /\ DOMAIN callers' = Callers
      /\ \A d \in Callers \ {c} : callers'[d] = callers[d]
  <2>1. CASE understood  BY <1>1, <1>2, <2>1
  <2>2. CASE ~understood  BY <1>1, <1>2, <2>2
  <2>. QED  BY <2>1, <2>2
<1>4. CallersOK'  BY <1>1, <1>3 DEF CallersOK
<1>5. AnswersMatch'
  <2>1. "read failed" \notin events => reply.to = req
    BY <1>2 DEF LinkInv, RepliesOK, reply, req
  <2>. QED  BY <1>2, <2>1 DEF LinkInv, AnswersMatch
<1>6. "read failed" \notin events' => "read failed" \notin events  BY <1>2
<1>. QED  BY <1>2, <1>3, <1>4, <1>5, <1>6, LinkCaller

\* Numbers grow: the one that is given now is on no stream and in no entry.
LEMMA LinkWriter ==
    ASSUME LinkInv, writer_stream
    PROVE  LinkInv'
<1>0. UNCHANGED <<callers, lock, sequence, up, setting, events>>  BY DEF writer_stream
<1>1. Grpc /\ Grpc'  BY <1>0 DEF writer_stream, LinkInv, Grpc
<1>2. EntriesOK /\ StreamOK /\ RepliesOK /\ IsSeq(queue) /\ IsSeq(down) /\ next_id \in Nat
  BY <1>1 DEF LinkInv, EntriesOK
<1>3. /\ queue # <<>> /\ queue' = Tail(queue)
      /\ requests' = [id \in DOMAIN requests \cup {next_id} |->
                        IF id = next_id THEN Head(queue) ELSE requests[id]]
      /\ next_id' = next_id + 1
      /\ \/ down' = Append(down, [id |-> next_id, caller |-> Head(queue).caller, req |-> Head(queue).req])
         \/ down' = down
  BY DEF writer_stream
<1>4. /\ IsSeq(queue') /\ Len(queue) \in Nat \ {0} /\ Len(queue') = Len(queue) - 1
      /\ \A i \in 1..Len(queue') : queue'[i] = queue[i + 1]
      /\ Head(queue) = queue[1]
  BY <1>2, <1>3, Tailed
<1>5. /\ DOMAIN requests' = DOMAIN requests \cup {next_id}
      /\ next_id \notin DOMAIN requests
      /\ requests'[next_id] = queue[1]
      /\ \A id \in DOMAIN requests : requests'[id] = requests[id]
  BY <1>2, <1>3, <1>4 DEF EntriesOK
<1>6. EntriesOK'
  <2>1. \A i \in 1..Len(queue') : Awaits(callers', queue'[i].caller, queue'[i].req)
    BY <1>0, <1>2, <1>4 DEF EntriesOK
  <2>2. \A id \in DOMAIN requests' : Awaits(callers', requests'[id].caller, requests'[id].req)
    BY <1>0, <1>2, <1>4, <1>5 DEF EntriesOK
  <2>3. \A i, j \in 1..Len(queue') : queue'[i].caller = queue'[j].caller => i = j
    <3>. SUFFICES ASSUME NEW i \in 1..Len(queue'), NEW j \in 1..Len(queue'),
                         queue'[i].caller = queue'[j].caller
                  PROVE  i = j
      OBVIOUS
    <3>1. i + 1 \in 1..Len(queue) /\ j + 1 \in 1..Len(queue)  BY <1>4
    <3>2. i + 1 = j + 1  BY <1>2, <1>4, <3>1 DEF EntriesOK
    <3>. QED  BY <1>4, <3>2
  <2>4. \A i, j \in DOMAIN requests' : requests'[i].caller = requests'[j].caller => i = j
    BY <1>2, <1>4, <1>5 DEF EntriesOK
  <2>5. \A i \in 1..Len(queue'), j \in DOMAIN requests' : queue'[i].caller # requests'[j].caller
    <3>. SUFFICES ASSUME NEW i \in 1..Len(queue'), NEW j \in DOMAIN requests'
                  PROVE  queue'[i].caller # requests'[j].caller
      OBVIOUS
    <3>1. i + 1 \in 1..Len(queue) /\ i + 1 # 1 /\ 1 \in 1..Len(queue) /\ queue'[i] = queue[i + 1]  BY <1>4
    <3>2. queue[i + 1].caller # queue[1].caller  BY <1>2, <3>1 DEF EntriesOK
    <3>3. CASE j = next_id  BY <1>5, <3>1, <3>2, <3>3
    <3>4. CASE j \in DOMAIN requests
      <4>1. queue[i + 1].caller # requests[j].caller  BY <1>2, <3>1, <3>4 DEF EntriesOK
      <4>. QED  BY <1>5, <3>1, <3>4, <4>1
    <3>. QED  BY <1>5, <3>3, <3>4
  <2>6. DOMAIN requests' \subseteq 0..(next_id' - 1) /\ next_id' \in Nat /\ IsSeq(queue')
    BY <1>2, <1>3, <1>4, <1>5 DEF EntriesOK
  <2>. QED  BY <2>1, <2>2, <2>3, <2>4, <2>5, <2>6 DEF EntriesOK
<1>7. \A id, r : Numbered(requests, next_id, id, r) => Numbered(requests', next_id', id, r)
  BY <1>2, <1>3, <1>5 DEF Numbered
<1>8. IsSeq(down') /\ StreamOK'
  <2>1. CASE down' = down  BY <2>1, <1>0, <1>2, <1>7 DEF StreamOK
  <2>2. CASE down' = Append(down, [id |-> next_id, caller |-> Head(queue).caller, req |-> Head(queue).req])
    <3>1. /\ IsSeq(down') /\ Len(down) \in Nat /\ Len(down') = Len(down) + 1
          /\ \A i \in 1..Len(down) : down'[i] = down[i]
          /\ down'[Len(down) + 1].id = next_id /\ down'[Len(down) + 1].req = queue[1].req
      BY <2>2, <1>2, <1>4, Appended
    <3>2. \A i \in 1..Len(down') : i \in 1..Len(down) \/ i = Len(down) + 1  BY <3>1
    <3>3. Numbered(requests', next_id', next_id, queue[1].req)
      BY <1>2, <1>3, <1>5 DEF Numbered
    <3>4. \A i \in 1..Len(down') : Numbered(requests', next_id', down'[i].id, down'[i].req)
      BY <3>1, <3>2, <3>3, <1>2, <1>7 DEF StreamOK
    <3>. QED  BY <3>1, <3>4, <1>0, <1>2, <1>7 DEF StreamOK
  <2>. QED  BY <1>3, <2>1, <2>2
<1>9. RepliesOK'  BY <1>0, <1>2 DEF RepliesOK
<1>. QED  BY <1>0, <1>1, <1>6, <1>8, <1>9 DEF LinkInv, CallersOK, AnswersMatch

LEMMA LinkReader ==
    ASSUME LinkInv, stream_reader
    PROVE  LinkInv'
<1>0. UNCHANGED <<queue, next_id, lock, sequence, down, setting, events>> /\ Grpc /\ Grpc'
  BY DEF stream_reader, Grpc
<1>2. EntriesOK /\ StreamOK /\ RepliesOK /\ IsSeq(queue) /\ IsSeq(up) /\ next_id \in Nat
  BY <1>0 DEF LinkInv, EntriesOK
<1>3. /\ IsSeq(up') /\ Len(up) \in Nat \ {0} /\ Len(up') = Len(up) - 1
      /\ \A i \in 1..Len(up') : i + 1 \in 1..Len(up) /\ up'[i] = up[i + 1]
      /\ Head(up) = up[1] /\ 1 \in 1..Len(up)
  BY <1>2, Tailed DEF stream_reader
<1>4. CASE UNCHANGED <<callers, requests>>
  <2>1. StreamOK'  BY <1>0, <1>2, <1>3, <1>4 DEF StreamOK, Numbered
  <2>2. EntriesOK'  BY <1>0, <1>2, <1>4 DEF EntriesOK
  <2>3. RepliesOK'  BY <1>2, <1>4 DEF RepliesOK
  <2>. QED  BY <1>0, <1>3, <1>4, <2>1, <2>2, <2>3 DEF LinkInv, CallersOK, AnswersMatch
<1>5. ASSUME NEW id \in requests_remove(Head(up)),
             requests' = [i \in DOMAIN requests \ {id} |-> requests[i]],
             callers' = [callers EXCEPT
                    ![requests[id].caller].phase = "replied",
                    ![requests[id].caller].reply =
                        [msg |-> Head(up).msg, temporary |-> Head(up).temporary, to |-> Head(up).to]]
      PROVE  LinkInv'
  <2>. DEFINE c == requests[id].caller
  <2>1. id = up[1].id /\ id \in DOMAIN requests  BY <1>3, <1>5 DEF requests_remove
  <2>2. requests[id].req = up[1].to  BY <2>1, <1>2, <1>3 DEF StreamOK, Numbered
  <2>3. c \in Callers /\ callers[c].phase = "waiting" /\ Head(callers[c].reqs) = requests[id].req
    BY <2>1, <1>2 DEF EntriesOK, Awaits
  <2>4. DOMAIN callers = Callers /\ DOMAIN callers[c] = {"phase", "reqs", "then", "reply"}
    BY <2>3 DEF LinkInv, CallersOK
  <2>5. /\ DOMAIN callers' = Callers
        /\ DOMAIN callers'[c] = {"phase", "reqs", "then", "reply"}
        /\ callers'[c].reqs = callers[c].reqs
        /\ callers'[c].reply.to = up[1].to
        /\ \A d \in Callers \ {c} : callers'[d] = callers[d]
    BY <1>3, <1>5, <2>3, <2>4
  <2>6. CallersOK'  BY <2>5 DEF LinkInv, CallersOK
  <2>7. RepliesOK'  BY <1>2, <2>2, <2>3, <2>5 DEF RepliesOK
  <2>8. /\ DOMAIN requests' = DOMAIN requests \ {id}
        /\ \A i \in DOMAIN requests' : requests'[i] = requests[i] /\ requests[i].caller # c
    BY <1>2, <1>5, <2>1 DEF EntriesOK
  <2>9. \A i \in 1..Len(queue) : queue[i].caller # c  BY <1>2, <2>1 DEF EntriesOK
  <2>10. \A d, r : d # c /\ Awaits(callers, d, r) => Awaits(callers', d, r)
    BY <2>5 DEF Awaits
  <2>. HIDE DEF c
  <2>11. EntriesOK'
    <3>1. \A i \in 1..Len(queue') : Awaits(callers', queue'[i].caller, queue'[i].req)
      BY <1>0, <1>2, <2>9, <2>10 DEF EntriesOK
    <3>2. \A i \in DOMAIN requests' : Awaits(callers', requests'[i].caller, requests'[i].req)
      BY <1>2, <2>8, <2>10 DEF EntriesOK
    <3>. QED  BY <1>0, <1>2, <2>8, <3>1, <3>2 DEF EntriesOK
  <2>12. StreamOK'
    <3>1. \A j, r : Numbered(requests, next_id, j, r) => Numbered(requests', next_id', j, r)
      BY <1>0, <2>8 DEF Numbered
    <3>. QED  BY <1>0, <1>2, <1>3, <3>1 DEF StreamOK
  <2>. QED  BY <1>0, <1>3, <2>6, <2>7, <2>11, <2>12 DEF LinkInv, AnswersMatch
<1>. QED  BY <1>4, <1>5 DEF stream_reader

LEMMA LinkSerialRead ==
    ASSUME LinkInv, NEW c \in Callers, SerialRead(c)
    PROVE  LinkInv'
<1>0. UNCHANGED <<queue, down, setting, events>> /\ ~Grpc /\ ~Grpc' /\ lock = c /\ lock' = None
      /\ up # <<>>
  BY DEF SerialRead, Grpc, adapter
<1>1. DOMAIN callers = Callers /\ \A d \in Callers : DOMAIN callers[d] = {"phase", "reqs", "then", "reply"}
  BY DEF LinkInv, CallersOK
<1>2. IsSeq(Tail(up)) /\ IsSeq(up)  BY <1>0, Tailed DEF LinkInv
<1>3. CallersOK'
  <2>1. CASE callers' = [callers EXCEPT ![c].phase = "replied",
                                        ![c].reply = [msg |-> Head(up).msg, temporary |-> FALSE,
                                                      to |-> Head(up).to]]
    BY <2>1, <1>1 DEF CallersOK
  <2>2. CASE LoopEnds(c)  BY <2>2, <1>1 DEF CallersOK, LoopEnds
  <2>. QED  BY <2>1, <2>2 DEF SerialRead
<1>4. IsSeq(up')
  <2>1. CASE up' = Tail(up)  BY <2>1, <1>2
  <2>2. CASE up' = [up EXCEPT ![1].id = -1]
    <3>1. PICK S : up \in Seq(S)  BY <1>2 DEF IsSeq
    <3>2. PICK x : up' = [up EXCEPT ![1] = x]  BY <2>2
    <3>3. up \in Seq(S \cup {x}) /\ 1 \in 1..Len(up)  BY <3>1, <1>0
    <3>4. up' \in Seq(S \cup {x})  BY <3>2, <3>3, ExceptSeq
    <3>. QED  BY <3>4 DEF IsSeq
  <2>. QED  BY <2>1, <2>2 DEF SerialRead
<1>5. ASSUME "read failed" \notin events'
      PROVE  SerialOK' /\ RepliesOK'
  <2>1. SerialOK /\ RepliesOK  BY <1>0, <1>5 DEF LinkInv
  <2>2. PICK resp : /\ down = <<>> /\ up = <<resp>>
                    /\ resp.id = sequence /\ Awaits(callers, c, resp.to)
    BY <1>0, <2>1 DEF SerialOK
  <2>3. Head(up) = resp /\ Tail(up) = <<>>  BY <2>2
  <2>4. /\ up' = <<>>
        /\ callers' = [callers EXCEPT ![c].phase = "replied",
                                      ![c].reply = [msg |-> resp.msg, temporary |-> FALSE,
                                                    to |-> resp.to]]
    BY <2>2, <2>3 DEF SerialRead
  <2>5. SerialOK'  BY <1>0, <2>2, <2>4 DEF SerialOK
  <2>6. /\ callers'[c].reqs = callers[c].reqs /\ callers'[c].reply.to = resp.to
        /\ \A d \in Callers \ {c} : callers'[d] = callers[d]
    BY <1>1, <2>4
  <2>7. RepliesOK'  BY <2>1, <2>2, <2>6 DEF RepliesOK, Awaits
  <2>. QED  BY <2>5, <2>7
<1>. QED  BY <1>0, <1>3, <1>4, <1>5 DEF LinkInv, AnswersMatch

LEMMA LinkSerialReadFails ==
    ASSUME LinkInv, NEW c \in Callers, SerialReadFails(c)
    PROVE  LinkInv'
<1>1. DOMAIN callers = Callers /\ \A d \in Callers : DOMAIN callers[d] = {"phase", "reqs", "then", "reply"}
  BY DEF LinkInv, CallersOK
<1>2. CallersOK'  BY <1>1 DEF SerialReadFails, LoopEnds, CallersOK
<1>3. UNCHANGED <<queue, down, up, setting>> /\ ~Grpc /\ ~Grpc' /\ "read failed" \in events'
  BY DEF SerialReadFails, adapter, Grpc
<1>. QED  BY <1>2, <1>3 DEF LinkInv, AnswersMatch

\* Nothing is on the way any more.
LEMMA LinkEmptied ==
    ASSUME LinkInv, down' = <<>>, up' = <<>>,
           UNCHANGED <<callers, queue, requests, next_id, lock, sequence, setting>>,
           "read failed" \notin events' => "read failed" \notin events, AnswersMatch'
    PROVE  LinkInv'
<1>1. EntriesOK => EntriesOK'  BY DEF EntriesOK
<1>2. StreamOK'  BY EmptyQueue DEF StreamOK
<1>3. SerialOK => SerialOK'  BY DEF SerialOK
<1>4. RepliesOK => RepliesOK'  BY DEF RepliesOK
<1>. QED  BY <1>1, <1>2, <1>3, <1>4, EmptyQueue DEF LinkInv, CallersOK, Grpc

Waiting == <<callers, queue, requests, next_id, lock, sequence, setting>>

Answering(resp) ==
    /\ down # <<>>
    /\ down' = Tail(down) \/ (Grpc /\ down' = <<>>)
    /\ up' = Append(up, resp)
    /\ resp.id = Head(down).id
    /\ resp.to = Head(down).req

\* The first request on the way gets a response with its number.
LEMMA LinkAnswered ==
    ASSUME LinkInv, NEW resp, Answering(resp), UNCHANGED Waiting,
           "read failed" \notin events' => "read failed" \notin events, AnswersMatch'
    PROVE  LinkInv'
<1>0. IsSeq(down) /\ IsSeq(up) /\ down # <<>>  BY DEF LinkInv, Answering
<1>1. /\ IsSeq(Tail(down)) /\ Len(down) \in Nat \ {0} /\ Len(Tail(down)) = Len(down) - 1
      /\ \A i \in 1..(Len(down) - 1) : i + 1 \in 1..Len(down) /\ Tail(down)[i] = down[i + 1]
      /\ Head(down) = down[1] /\ 1 \in 1..Len(down)
  BY <1>0, Tailed
<1>2. /\ IsSeq(Append(up, resp)) /\ Len(up) \in Nat /\ Len(Append(up, resp)) = Len(up) + 1
      /\ \A i \in 1..Len(up) : Append(up, resp)[i] = up[i]
      /\ Append(up, resp)[Len(up) + 1] = resp
      /\ \A i \in 1..Len(Append(up, resp)) : i \in 1..Len(up) \/ i = Len(up) + 1
  BY <1>0, Appended
<1>3. IsSeq(down')
  <2>1. CASE down' = Tail(down)  BY <1>1, <2>1
  <2>2. CASE down' = <<>>  BY <2>2, EmptyQueue
  <2>. QED  BY <2>1, <2>2 DEF Answering
<1>4. up' = Append(up, resp) /\ resp.id = down[1].id /\ resp.to = down[1].req
  BY <1>1 DEF Answering
<1>5. UNCHANGED <<callers, queue, requests, next_id, lock, sequence, setting>>  BY DEF Waiting
<1>6. EntriesOK => EntriesOK'  BY <1>5 DEF EntriesOK
<1>7. RepliesOK => RepliesOK'  BY <1>5 DEF RepliesOK
<1>8. StreamOK => StreamOK'
  <2>. SUFFICES ASSUME StreamOK PROVE StreamOK'  OBVIOUS
  <2>1. \A i \in 1..Len(down') : Numbered(requests', next_id', down'[i].id, down'[i].req)
    <3>1. CASE down' = Tail(down)  BY <1>1, <1>5, <3>1 DEF StreamOK
    <3>2. CASE down' = <<>>  BY <3>2, EmptyQueue
    <3>. QED  BY <3>1, <3>2 DEF Answering
  <2>2. \A i \in 1..Len(up') : Numbered(requests', next_id', up'[i].id, up'[i].to)
    BY <1>1, <1>2, <1>4, <1>5 DEF StreamOK
  <2>. QED  BY <2>1, <2>2 DEF StreamOK
<1>9. ~Grpc /\ SerialOK => SerialOK'
  <2>. SUFFICES ASSUME ~Grpc, SerialOK PROVE SerialOK'  OBVIOUS
  <2>1. PICK item : /\ down = <<item>> /\ up = <<>>
                    /\ item.id = sequence /\ Awaits(callers, lock, item.req)
    BY <1>0 DEF SerialOK
  <2>2. Tail(down) = <<>> /\ down[1] = item /\ Append(up, resp) = <<resp>>
    BY <2>1, OneQueued
  <2>3. down' = <<>> /\ up' = <<resp>>  BY <1>4, <2>2 DEF Answering
  <2>4. resp.id = sequence' /\ Awaits(callers', lock', resp.to)  BY <1>4, <1>5, <2>1, <2>2
  <2>. QED  BY <1>5, <2>3, <2>4 DEF SerialOK
<1>. QED  BY <1>2, <1>3, <1>4, <1>5, <1>6, <1>7, <1>8, <1>9 DEF LinkInv, CallersOK, Grpc

LEMMA LinkHandle ==
    ASSUME LinkInv, Handle
    PROVE  LinkInv'
<1>. DEFINE item == Head(down)  out == handle(item.req)
<1>1. UNCHANGED <<callers, queue, requests, next_id, lock, sequence, setting>> /\ down # <<>>
  BY DEF Handle, adapter
<1>2. events' = events \cup {out.verdict} \cup (IF AsMeant(item.req, out) THEN {} ELSE {"not as meant"})
  BY DEF Handle
<1>3. out.verdict \in Verdicts  BY HandleVerdict
<1>4. \/ down' = <<>> /\ up' = <<>>
      \/ down' = Tail(down) /\ up' = Append(up, Response(item, out.msg, FALSE, FALSE))
      \/ Grpc /\ down' = <<>> /\ up' = Append(up, Response(item, None, TRUE, FALSE))
  BY DEF Handle, EndsSigner
<1>5. \A msg, error, temporary : /\ Response(item, msg, error, temporary).id = Head(down).id
                                 /\ Response(item, msg, error, temporary).to = Head(down).req
  BY DEF Response
<1>. HIDE DEF item, out
<1>6. ("read failed" \notin events' => "read failed" \notin events) /\ AnswersMatch'
  BY <1>2, <1>3 DEF LinkInv, AnswersMatch, Verdicts
<1>7. CASE down' = <<>> /\ up' = <<>>  BY <1>1, <1>6, <1>7, LinkEmptied
<1>8. CASE down' = Tail(down) /\ up' = Append(up, Response(item, out.msg, FALSE, FALSE))
  <2>1. Answering(Response(item, out.msg, FALSE, FALSE))  BY <1>1, <1>5, <1>8 DEF Answering
  <2>. QED  BY <1>1, <1>6, <2>1, LinkAnswered DEF Waiting
<1>9. CASE Grpc /\ down' = <<>> /\ up' = Append(up, Response(item, None, TRUE, FALSE))
  <2>1. Answering(Response(item, None, TRUE, FALSE))  BY <1>1, <1>5, <1>9 DEF Answering
  <2>. QED  BY <1>1, <1>6, <2>1, LinkAnswered DEF Waiting
<1>. QED  BY <1>4, <1>7, <1>8, <1>9

LEMMA LinkHandleTemporary ==
    ASSUME LinkInv, HandleTemporary
    PROVE  LinkInv'
<1>1. UNCHANGED <<callers, queue, requests, next_id, lock, sequence, setting, events>> /\ down # <<>>
  BY DEF HandleTemporary, adapter
<1>2. \/ down' = <<>> /\ up' = <<>>
      \/ down' = Tail(down) /\ up' = Append(up, Response(Head(down), None, TRUE, TRUE))
  BY DEF HandleTemporary, EndsSigner
<1>3. /\ Response(Head(down), None, TRUE, TRUE).id = Head(down).id
      /\ Response(Head(down), None, TRUE, TRUE).to = Head(down).req
  BY DEF Response
<1>4. AnswersMatch'  BY <1>1 DEF LinkInv, AnswersMatch
<1>5. CASE down' = <<>> /\ up' = <<>>  BY <1>1, <1>4, <1>5, LinkEmptied
<1>6. CASE down' = Tail(down) /\ up' = Append(up, Response(Head(down), None, TRUE, TRUE))
  <2>1. Answering(Response(Head(down), None, TRUE, TRUE))  BY <1>1, <1>3, <1>6 DEF Answering
  <2>. QED  BY <1>1, <1>4, <2>1, LinkAnswered DEF Waiting
<1>. QED  BY <1>2, <1>5, <1>6

LEMMA LinkBreak ==
    ASSUME LinkInv, Break
    PROVE  LinkInv'
<1>1. /\ UNCHANGED <<callers, queue, requests, next_id, lock, sequence, setting, events>>
      /\ down' = <<>> /\ up' = <<>>
  BY DEF Break, EndsSigner, adapter
<1>2. AnswersMatch'  BY <1>1 DEF LinkInv, AnswersMatch
<1>. QED  BY <1>1, <1>2, LinkEmptied

LEMMA LinkRestart ==
    ASSUME LinkInv, Restart
    PROVE  LinkInv'
<1>1. /\ callers' = [c \in Callers |->
            [Idle EXCEPT !.phase = IF c \in Closed THEN "off" ELSE "idle",
                         !.reqs = IF c = Root THEN <<hsmd_init2>> ELSE <<>>]]
      /\ queue' = <<>> /\ requests' = <<>> /\ next_id' = 0 /\ down' = <<>> /\ up' = <<>>
      /\ UNCHANGED <<setting, events>> /\ Grpc /\ Grpc'
  BY DEF Restart, Grpc
<1>2. CallersOK'  BY <1>1 DEF CallersOK, Idle
<1>3. RepliesOK'
  <2>1. \A c \in Callers : callers'[c].phase \in {"off", "idle"}  BY <1>1 DEF Idle
  <2>. QED  BY <2>1 DEF RepliesOK
<1>4. EntriesOK' /\ StreamOK'  BY <1>1, EmptyQueue DEF EntriesOK, StreamOK
<1>. QED  BY <1>1, <1>2, <1>3, <1>4, EmptyQueue DEF LinkInv, AnswersMatch

LEMMA LinkStep == LinkInv /\ [Next]_vars => LinkInv'
<1>. SUFFICES ASSUME LinkInv, [Next]_vars PROVE LinkInv'  OBVIOUS
<1>1. CASE UNCHANGED vars  BY <1>1, LinkStutter DEF vars, adapter, stream, rest
<1>2. CASE LockReceiver \/ DropWriter \/ Connect
  BY <1>2, LinkStutter DEF LockReceiver, DropWriter, Connect, adapter, rest
<1>3. CASE \E c \in Callers : Send(c) \/ SendTooLarge(c) \/ Reply(c) \/ Retry(c) \/ GiveUp(c)
  BY <1>3, LinkSend, LinkSendTooLarge, LinkReply, LinkRetry
<1>4. CASE \E c \in Callers : SerialRead(c) \/ SerialReadFails(c)
  BY <1>4, LinkSerialRead, LinkSerialReadFails
<1>. QED
  BY <1>1, <1>2, <1>3, <1>4, LinkClientHsmFd, LinkWriter, LinkReader, LinkHandle,
     LinkHandleTemporary, LinkBreak, LinkRestart
  DEF Next

\* AnswersMatch: no connection gets the answer to another's request, or to an earlier one of its
\* own, for every number of connections and any broken streams, retries and restarts.
THEOREM EveryAnswerIsTheRightOne == Spec => []AnswersMatch
<1>1. LinkInv => AnswersMatch  BY DEF LinkInv
<1>. QED  BY LinkInit, LinkStep, <1>1, PTL DEF Spec

------------------------------------------------------------------------------
(* What a node means is what arrives                                        *)

\* The messages that carry something a node means.
MeantKinds == {"ReadyChannel", "SignRemoteCommitmentTx2", "ValidateCommitmentTx2", "GetPerCommitmentPoint"}

MeantId == [ReadyChannel |-> 31, SignRemoteCommitmentTx2 |-> 1019, ValidateCommitmentTx2 |-> 1035,
            GetPerCommitmentPoint |-> 18]

Apart(ids) == \A k \in DOMAIN ids, m \in MeantKinds : ids[k] = MeantId[m] <=> k = m

LEMMA MergeDomain ==
    ASSUME NEW f, NEW g, NEW x
    PROVE  x \in DOMAIN Merge(f, g) <=> x \in DOMAIN f \/ x \in DOMAIN g
BY DEF Merge

LEMMA MergeApart ==
    ASSUME NEW f, NEW g, Apart(f), Apart(g)
    PROVE  Apart(Merge(f, g))
BY DEF Apart, Merge

LEMMA MeantIds ==
    ASSUME NEW m \in MeantKinds
    PROVE  m \in DOMAIN Id /\ Id[m] = MeantId[m] /\ read_message(Id[m]) = m
<1>1. Apart(StartupIds)  BY DEF Apart, StartupIds, MeantKinds, MeantId
<1>2. Apart(WalletIds)  BY DEF Apart, WalletIds, MeantKinds, MeantId
<1>3. Apart(GossipIds)  BY DEF Apart, GossipIds, MeantKinds, MeantId
<1>4. Apart(ChannelIds)  BY DEF Apart, ChannelIds, MeantKinds, MeantId
<1>5. Apart(RemoteIds)  BY DEF Apart, RemoteIds, MeantKinds, MeantId
<1>6. Apart(SweepIds)  BY DEF Apart, SweepIds, MeantKinds, MeantId
<1>7. Apart(ChainIds)  BY DEF Apart, ChainIds, MeantKinds, MeantId
<1>8. Apart(Id)  BY <1>1, <1>2, <1>3, <1>4, <1>5, <1>6, <1>7, MergeApart DEF Id
<1>9. m \in DOMAIN Id
  <2>1. m \in DOMAIN ChannelIds \/ m \in DOMAIN RemoteIds  BY DEF ChannelIds, RemoteIds, MeantKinds
  <2>. QED  BY <2>1, MergeDomain DEF Id
<1>10. m \in Variants /\ \A k \in Variants : Id[k] = Id[m] => k = m
  <2>1. m # "SignGossipMessageReply"  BY DEF MeantKinds
  <2>. QED  BY <1>8, <1>9, <2>1 DEF Variants, Apart
<1>11. Id[m] = MeantId[m]  BY <1>8, <1>9 DEF Apart
<1>. QED  BY <1>9, <1>10, <1>11 DEF read_message

LEMMA MeantArms ==
    ASSUME NEW m \in MeantKinds
    PROVE  /\ m \notin DOMAIN ChannelArms
           /\ \A s, d, args : RootHandler(s, d, m, args).verdict # "reply"
<1>1. m \notin DOMAIN HandlerArms /\ m \notin DOMAIN RemoteHtlcArms /\ m \notin DOMAIN CloseArms
      /\ m \notin DOMAIN AnnounceArms
  BY DEF HandlerArms, RemoteHtlcArms, CloseArms, AnnounceArms, MeantKinds
<1>2. m \notin DOMAIN NodeArms /\ m \notin DOMAIN StartArms /\ m \notin DOMAIN InvoiceArms
      /\ m \notin DOMAIN ChainArms /\ m \notin DOMAIN GossipArms
  BY DEF NodeArms, StartArms, InvoiceArms, ChainArms, GossipArms, MeantKinds
<1>3. m \notin DOMAIN ChannelArms /\ m \notin DOMAIN RootArms
  BY <1>1, <1>2, MergeDomain DEF ChannelArms, RootArms
<1>4. m \notin DOMAIN AnySweeps
  BY DEF AnySweeps, MeantKinds
<1>5. \A s, d, args : RootHandler(s, d, m, args) = Fails(s, "unimplemented")
  BY <1>3, <1>4 DEF RootHandler, MeantKinds
<1>. QED  BY <1>3, <1>5 DEF Fails

HandledIn(s, d, req) ==
    LET kind == read_message(req.msg.type) IN
    IF req.dbid > 0 THEN ChannelHandler(s, channel_id(req.peer, req.dbid), kind, req.msg.args)
    ELSE RootHandler(s, d, kind, req.msg.args)

\* Whatever the signer's slots are when it is handled, it arrives as meant.
Honest(req) == \A s, d : AsMeant(req, HandledIn(s, d, req))

LEMMA UnmeantIsHonest ==
    ASSUME NEW req, req.meant = None
    PROVE  Honest(req)
BY DEF Honest, AsMeant

LEMMA MeantIsHonest ==
    ASSUME NEW m \in MeantKinds, NEW peer, NEW dbid, NEW args, NEW reply, NEW meant,
           \A s, chan :
              LET out == ChannelHandler(s, chan, m, args) IN
              out.verdict = "reply" => meant = out.call.args \/ meant = out.msg.args
    PROVE  Honest(Request(peer, dbid, m, args, reply, meant))
<1>. DEFINE req == Request(peer, dbid, m, args, reply, meant)
<1>1. /\ req.dbid = dbid /\ req.peer = peer /\ req.msg.type = Id[m] /\ req.msg.args = args
      /\ req.meant = meant
  BY DEF Request, Msg
<1>2. read_message(req.msg.type) = m  BY <1>1, MeantIds
<1>. SUFFICES ASSUME NEW s, NEW d PROVE AsMeant(req, HandledIn(s, d, req))
  BY DEF Honest
<1>. HIDE DEF req
<1>3. CASE dbid > 0
  <2>1. HandledIn(s, d, req) = ChannelHandler(s, channel_id(peer, dbid), m, args)
    BY <1>1, <1>2, <1>3 DEF HandledIn
  <2>. QED  BY <1>1, <2>1 DEF AsMeant
<1>4. CASE ~(dbid > 0)
  <2>1. HandledIn(s, d, req) = RootHandler(s, d, m, args)
    BY <1>1, <1>2, <1>4 DEF HandledIn
  <2>. QED  BY <2>1, MeantArms DEF AsMeant
<1>. QED  BY <1>3, <1>4

LEMMA MeantHandlers ==
    ASSUME NEW s, NEW chan, NEW args
    PROVE  /\ ChannelHandler(s, chan, "ReadyChannel", args) = ready_channel(s, chan, args)
           /\ ChannelHandler(s, chan, "SignRemoteCommitmentTx2", args)
                = sign_remote_commitment_tx2(s, chan, args)
           /\ ChannelHandler(s, chan, "ValidateCommitmentTx2", args)
                = validate_commitment_tx2(s, chan, args)
           /\ ChannelHandler(s, chan, "GetPerCommitmentPoint", args)
                = get_per_commitment_point(s, chan, args.n)
<1>1. \A m \in MeantKinds : m \notin DOMAIN ChannelArms  BY MeantArms
<1>2. ChannelHandler(s, chan, "ReadyChannel", args) = ready_channel(s, chan, args)
  BY <1>1 DEF ChannelHandler, Sweeps, MeantKinds
<1>3. ChannelHandler(s, chan, "SignRemoteCommitmentTx2", args) = sign_remote_commitment_tx2(s, chan, args)
  BY <1>1 DEF ChannelHandler, Sweeps, MeantKinds
<1>4. ChannelHandler(s, chan, "ValidateCommitmentTx2", args) = validate_commitment_tx2(s, chan, args)
  BY <1>1 DEF ChannelHandler, Sweeps, MeantKinds
<1>5. ChannelHandler(s, chan, "GetPerCommitmentPoint", args) = get_per_commitment_point(s, chan, args.n)
  BY <1>1 DEF ChannelHandler, Sweeps, MeantKinds
<1>. QED  BY <1>2, <1>3, <1>4, <1>5

\* The signer makes a channel of the type the node chose.
LEMMA ParametersAreHonest ==
    ASSUME NEW signer0, NEW params
    PROVE  Honest(provide_channel_parameters(signer0, params))
<1>. DEFINE type == IF params.opt_anchors
                    THEN IF params.opt_non_zero_fee_anchors THEN "Anchors" ELSE "AnchorsZeroFeeHtlc"
                    ELSE "StaticRemoteKey"
            bits == commitment_type_to_channel_type(type)
            args == [bits |-> bits, outpoint |-> params.outpoint]
            meant == [type |-> type, outpoint |-> params.outpoint]
<1>1. channel_type_to_commitment_type(bits) = type
  <2>1. type \in {"Anchors", "AnchorsZeroFeeHtlc", "StaticRemoteKey"}  OBVIOUS
  <2>. HIDE DEF type
  <2>. QED  BY <2>1 DEF channel_type_to_commitment_type, commitment_type_to_channel_type,
                       OPT_STATIC_REMOTEKEY, OPT_ANCHOR_OUTPUTS, OPT_ANCHORS_ZERO_FEE_HTLC_TX
<1>. HIDE DEF type, bits
<1>2. ASSUME NEW s, NEW chan, ready_channel(s, chan, args).verdict = "reply"
      PROVE  meant = ready_channel(s, chan, args).call.args
  BY <1>1, <1>2 DEF ready_channel, AnswersIf, Answers, Fails, Call
<1>3. Honest(Request(signer0.peer, signer0.dbid, "ReadyChannel", args, "ReadyChannelReply", meant))
  <2>1. \A s, chan :
           LET out == ChannelHandler(s, chan, "ReadyChannel", args) IN
           out.verdict = "reply" => meant = out.call.args \/ meant = out.msg.args
    BY <1>2, MeantHandlers
  <2>2. "ReadyChannel" \in MeantKinds  BY DEF MeantKinds
  <2>. HIDE DEF args, meant
  <2>. QED  BY <2>1, <2>2, MeantIsHonest
<1>. QED  BY <1>3 DEF provide_channel_parameters, call, type, bits

\* What arrives as the HTLCs of a side.
LEMMA SidesArrive ==
    ASSUME NEW n, NEW p \in Parts, NEW by_us \in BOOLEAN, NEW is_remote \in BOOLEAN,
           is_remote # by_us
    PROVE  LET wire == to_htlcs(LdkTx(n, p, by_us).htlcs, is_remote) IN
           /\ HTLCInfo2(wire, LOCAL_SIDE) = Sats(p.ours)
           /\ HTLCInfo2(wire, REMOTE_SIDE) = Sats(p.theirs)
<1>. DEFINE htlcs == LdkTx(n, p, by_us).htlcs
            ours == p.ours
            theirs == p.theirs
<1>0. \A h \in ours \cup theirs : h.sat \in Nat  BY SignerLinkAssumption
<1>. DEFINE LdkOurs(h) == [offered |-> by_us, amount_msat |-> h.sat * 1000 + 999, hash |-> h.hash]
            LdkTheirs(h) == [offered |-> ~by_us, amount_msat |-> h.sat * 1000, hash |-> h.hash]
            Wire(g) == [side |-> IF g.offered # is_remote THEN LOCAL_SIDE ELSE REMOTE_SIDE,
                        amount |-> g.amount_msat, hash |-> g.hash]
            Ours(h) == [side |-> LOCAL_SIDE, amount |-> h.sat * 1000 + 999, hash |-> h.hash]
            Theirs(h) == [side |-> REMOTE_SIDE, amount |-> h.sat * 1000, hash |-> h.hash]
            wire == to_htlcs(htlcs, is_remote)
<1>1. wire = {Ours(h) : h \in ours} \cup {Theirs(h) : h \in theirs}
  <2>1. \A h : Wire(LdkOurs(h)) = Ours(h)  OBVIOUS
  <2>2. \A h : Wire(LdkTheirs(h)) = Theirs(h)  OBVIOUS
  <2>3. wire = {Wire(g) : g \in htlcs}  BY DEF to_htlcs
  <2>4. htlcs = {LdkOurs(h) : h \in ours} \cup {LdkTheirs(h) : h \in theirs}
    BY DEF LdkTx
  <2>. HIDE DEF htlcs, wire, Wire, LdkOurs, LdkTheirs, Ours, Theirs
  <2>. QED  BY <2>1, <2>2, <2>3, <2>4
<1>2. {g \in wire : g.side = LOCAL_SIDE} = {Ours(h) : h \in ours}
  BY <1>1 DEF LOCAL_SIDE, REMOTE_SIDE
<1>3. {g \in wire : g.side = REMOTE_SIDE} = {Theirs(h) : h \in theirs}
  BY <1>1 DEF LOCAL_SIDE, REMOTE_SIDE
<1>4. \A x \in Nat : (x * 1000 + 999) \div 1000 = x /\ (x * 1000) \div 1000 = x  OBVIOUS
<1>5. \A h \in ours : Ours(h).amount \div 1000 = h.sat /\ Ours(h).hash = h.hash  BY <1>0, <1>4
<1>6. \A h \in theirs : Theirs(h).amount \div 1000 = h.sat /\ Theirs(h).hash = h.hash  BY <1>0, <1>4
<1>. HIDE DEF wire, Ours, Theirs
<1>7. HTLCInfo2(wire, LOCAL_SIDE) = Sats(ours)
  BY <1>2, <1>5 DEF HTLCInfo2, Sats
<1>8. HTLCInfo2(wire, REMOTE_SIDE) = Sats(theirs)
  BY <1>3, <1>6 DEF HTLCInfo2, Sats
<1>. QED  BY <1>7, <1>8 DEF wire

\* A commitment of the counterparty: amounts, HTLCs and number.
LEMMA CounterpartyCommitmentIsHonest ==
    ASSUME NEW signer0, NEW n \in Int, NEW p \in Parts
    PROVE  Honest(sign_counterparty_commitment(signer0, LdkTx(n, p, FALSE), Meant(n, p, FALSE)))
<1>. DEFINE tx == LdkTx(n, p, FALSE)
            args == [n |-> Initial - tx.idx, to_local |-> tx.to_countersignatory,
                     to_remote |-> tx.to_broadcaster, htlcs |-> to_htlcs(tx.htlcs, TRUE)]
            meant == Meant(n, p, FALSE)
<1>1. args.n = n  BY ProtocolAssumption DEF LdkTx, idx
<1>2. args.to_local = p.to_us /\ args.to_remote = p.to_them  BY DEF LdkTx
<1>3. /\ HTLCInfo2(args.htlcs, LOCAL_SIDE) = Sats(p.ours)
      /\ HTLCInfo2(args.htlcs, REMOTE_SIDE) = Sats(p.theirs)
  BY SidesArrive
<1>4. meant = Commitment(n, p.to_us, p.to_them, Sats(p.theirs), Sats(p.ours))  BY DEF Meant
<1>. HIDE DEF args, meant
<1>5. extract_htlcs(args.htlcs)[1] = Sats(p.theirs) /\ extract_htlcs(args.htlcs)[2] = Sats(p.ours)
  BY <1>3 DEF extract_htlcs
<1>6. ASSUME NEW s, NEW chan, sign_remote_commitment_tx2(s, chan, args).verdict = "reply"
      PROVE  meant = sign_remote_commitment_tx2(s, chan, args).call.args
  BY <1>1, <1>2, <1>4, <1>5, <1>6
  DEF sign_remote_commitment_tx2, sign_remote, AnswersIf, Answers, Fails, Call
<1>7. "SignRemoteCommitmentTx2" \in MeantKinds  BY DEF MeantKinds
<1>8. \A s, chan :
        LET out == ChannelHandler(s, chan, "SignRemoteCommitmentTx2", args) IN
        out.verdict = "reply" => meant = out.call.args \/ meant = out.msg.args
  BY <1>6, MeantHandlers
<1>9. Honest(Request(signer0.peer, signer0.dbid, "SignRemoteCommitmentTx2", args,
                     "SignCommitmentTxWithHtlcsReply", meant))
  BY <1>7, <1>8, MeantIsHonest
<1>. QED  BY <1>9 DEF sign_counterparty_commitment, call, args, meant

LEMMA HolderCommitmentIsHonest ==
    ASSUME NEW signer0, NEW n \in Int, NEW p \in Parts
    PROVE  Honest(validate_holder_commitment(signer0, LdkTx(n, p, TRUE), Meant(n, p, TRUE)))
<1>. DEFINE tx == LdkTx(n, p, TRUE)
            args == [n |-> Initial - tx.idx, to_local |-> tx.to_broadcaster,
                     to_remote |-> tx.to_countersignatory, htlcs |-> to_htlcs(tx.htlcs, FALSE)]
            meant == Meant(n, p, TRUE)
<1>1. args.n = n  BY ProtocolAssumption DEF LdkTx, idx
<1>2. args.to_local = p.to_us /\ args.to_remote = p.to_them  BY DEF LdkTx
<1>3. /\ HTLCInfo2(args.htlcs, LOCAL_SIDE) = Sats(p.ours)
      /\ HTLCInfo2(args.htlcs, REMOTE_SIDE) = Sats(p.theirs)
  BY SidesArrive
<1>4. meant = Commitment(n, p.to_us, p.to_them, Sats(p.ours), Sats(p.theirs))  BY DEF Meant
<1>. HIDE DEF args, meant
<1>5. extract_htlcs(args.htlcs)[1] = Sats(p.theirs) /\ extract_htlcs(args.htlcs)[2] = Sats(p.ours)
  BY <1>3 DEF extract_htlcs
<1>6. ASSUME NEW s, NEW chan, validate_commitment_tx2(s, chan, args).verdict = "reply"
      PROVE  meant = validate_commitment_tx2(s, chan, args).call.args
  BY <1>1, <1>2, <1>4, <1>5, <1>6
  DEF validate_commitment_tx2, validate_holder, AnswersIf, Answers, Fails, Call
<1>7. "ValidateCommitmentTx2" \in MeantKinds  BY DEF MeantKinds
<1>8. \A s, chan :
        LET out == ChannelHandler(s, chan, "ValidateCommitmentTx2", args) IN
        out.verdict = "reply" => meant = out.call.args \/ meant = out.msg.args
  BY <1>6, MeantHandlers
<1>9. Honest(Request(signer0.peer, signer0.dbid, "ValidateCommitmentTx2", args,
                     "ValidateCommitmentTxReply", meant))
  BY <1>7, <1>8, MeantIsHonest
<1>. QED  BY <1>9 DEF validate_holder_commitment, call, args, meant

\* The secret that comes back is the one asked for.
LEMMA SecretIsHonest ==
    ASSUME NEW signer0, NEW n \in Nat
    PROVE  Honest(release_commitment_secret(signer0, idx(n), [secret |-> n]))
<1>. DEFINE args == [n |-> (Initial - idx(n)) + 2]
            meant == [secret |-> n]
<1>1. args.n = n + 2  BY ProtocolAssumption DEF idx
<1>. HIDE DEF args
<1>2. n + 2 >= 2 /\ (n + 2) - 2 = n  OBVIOUS
<1>3. ASSUME NEW s, NEW chan, get_per_commitment_point(s, chan, args.n).verdict = "reply"
      PROVE  meant = get_per_commitment_point(s, chan, args.n).msg.args
  BY <1>1, <1>2, <1>3 DEF get_per_commitment_point, AnswersIf, Answers, Fails, Msg
<1>. HIDE DEF meant
<1>4. "GetPerCommitmentPoint" \in MeantKinds  BY DEF MeantKinds
<1>5. \A s, chan :
        LET out == ChannelHandler(s, chan, "GetPerCommitmentPoint", args) IN
        out.verdict = "reply" => meant = out.call.args \/ meant = out.msg.args
  BY <1>3, MeantHandlers
<1>6. Honest(Request(signer0.peer, signer0.dbid, "GetPerCommitmentPoint", args,
                     "GetPerCommitmentPointReply", meant))
  BY <1>4, <1>5, MeantIsHonest
<1>. QED  BY <1>6 DEF release_commitment_secret, call, args, meant

AllHonest(reqs) == IsSeq(reqs) /\ \A i \in 1..Len(reqs) : Honest(reqs[i])

Asks(reqs) == AllHonest(reqs) /\ reqs # <<>>

LEMMA NoneAreHonest == AllHonest(<<>>)
BY EmptyQueue DEF AllHonest

LEMMA OneIsHonest ==
    ASSUME NEW req, Honest(req)
    PROVE  Asks(<<req>>)
<1>1. <<req>> \in Seq({req}) /\ Len(<<req>>) = 1 /\ <<req>>[1] = req  OBVIOUS
<1>2. IsSeq(<<req>>)  BY <1>1 DEF IsSeq
<1>3. <<req>> # <<>>  OBVIOUS
<1>4. \A i \in 1..1 : i = 1  OBVIOUS
<1>. QED  BY <1>1, <1>2, <1>3, <1>4 DEF Asks, AllHonest

LEMMA BothAreHonest ==
    ASSUME NEW a, NEW b, AllHonest(a), AllHonest(b)
    PROVE  AllHonest(a \o b) /\ (a # <<>> \/ b # <<>> => a \o b # <<>>)
<1>1. PICK S : a \in Seq(S)  BY DEF AllHonest, IsSeq
<1>2. PICK T : b \in Seq(T)  BY DEF AllHonest, IsSeq
<1>3. a \in Seq(S \cup T) /\ b \in Seq(S \cup T)  BY <1>1, <1>2
<1>4. /\ a \o b \in Seq(S \cup T) /\ Len(a \o b) = Len(a) + Len(b)
      /\ \A i \in 1..Len(a) + Len(b) : (a \o b)[i] = IF i <= Len(a) THEN a[i] ELSE b[i - Len(a)]
      /\ Len(a) \in Nat /\ Len(b) \in Nat
  BY <1>3, ConcatProperties
<1>5. ASSUME NEW i \in 1..Len(a \o b)
      PROVE  Honest((a \o b)[i])
  <2>1. CASE i <= Len(a)  BY <1>4, <1>5, <2>1 DEF AllHonest
  <2>2. CASE ~(i <= Len(a))
    <3>1. i - Len(a) \in 1..Len(b)  BY <1>4, <1>5, <2>2
    <3>. QED  BY <1>4, <1>5, <2>2, <3>1 DEF AllHonest
  <2>. QED  BY <2>1, <2>2
<1>6. a # <<>> => Len(a) # 0  BY <1>1
<1>7. b # <<>> => Len(b) # 0  BY <1>2
<1>8. a # <<>> \/ b # <<>> => Len(a \o b) # 0  BY <1>4, <1>6, <1>7
<1>9. a # <<>> \/ b # <<>> => a \o b # <<>>  BY <1>8, EmptyQueue
<1>. QED  BY <1>4, <1>5, <1>9 DEF AllHonest, IsSeq

LEMMA TwoAreHonest ==
    ASSUME NEW a, NEW b, Honest(a), Honest(b)
    PROVE  Asks(<<a, b>>)
<1>1. <<a, b>> \in Seq({a, b}) /\ Len(<<a, b>>) = 2 /\ <<a, b>>[1] = a /\ <<a, b>>[2] = b  OBVIOUS
<1>2. IsSeq(<<a, b>>)  BY <1>1 DEF IsSeq
<1>3. <<a, b>> # <<>>  OBVIOUS
<1>4. \A i \in 1..2 : i = 1 \/ i = 2  OBVIOUS
<1>. QED  BY <1>1, <1>2, <1>3, <1>4 DEF Asks, AllHonest

LEMMA NodeCallsAreHonest ==
    ASSUME NEW kind, NEW args, NEW reply
    PROVE  Honest(node_call(kind, args, reply)) /\ Asks(<<node_call(kind, args, reply)>>)
<1>1. node_call(kind, args, reply).meant = None  BY DEF node_call, Request
<1>. QED  BY <1>1, UnmeantIsHonest, OneIsHonest

LEMMA UnmeantCallsAreHonest ==
    ASSUME NEW signer0, NEW kind, NEW args, NEW reply
    PROVE  Honest(call(signer0, kind, args, reply, None))
<1>1. call(signer0, kind, args, reply, None).meant = None  BY DEF call, Request
<1>. QED  BY <1>1, UnmeantIsHonest

\* A chunk is a request, and so is the block that follows.
LEMMA FrontAsks ==
    ASSUME NEW job \in FrontJobs
    PROVE  Asks(job.reqs) /\ job.then.k \in {-1, 0}
<1>1. \A kind, args, reply : Asks(<<front(kind, args, reply)>>)
  BY NodeCallsAreHonest DEF front
<1>2. \A s : AllHonest(maybe_stream_block(s))
  <2>1. \A i : Honest(front("BlockChunk", [offset |-> i - 1], "BlockChunkReply"))
    <3>1. \A i : front("BlockChunk", [offset |-> i - 1], "BlockChunkReply").meant = None
      BY DEF front, node_call, Request
    <3>. QED  BY <3>1, UnmeantIsHonest
  <2>. DEFINE F(i) == front("BlockChunk", [offset |-> i - 1], "BlockChunkReply")
              two == [i \in 1..2 |-> F(i)]
  <2>2. two \in Seq({F(1), F(2)}) /\ Len(two) = 2 /\ \A i \in 1..2 : two[i] = F(i)
    <3>. HIDE DEF F
    <3>1. \A i \in 1..2 : F(i) \in {F(1), F(2)}  OBVIOUS
    <3>. QED  BY <3>1
  <2>3. AllHonest(two)  BY <2>1, <2>2 DEF AllHonest, IsSeq
  <2>. QED  BY <2>3, NoneAreHonest DEF maybe_stream_block
<1>3. \A s : AllHonest(front_add_block(s)) /\ AllHonest(front_remove_block(s))
  <2>. SUFFICES ASSUME NEW s PROVE AllHonest(front_add_block(s)) /\ AllHonest(front_remove_block(s))
    OBVIOUS
  <2>1. /\ AllHonest(<<front("AddBlock", [streamed |-> s], "AddBlockReply")>>)
        /\ AllHonest(<<front("RemoveBlock", [streamed |-> s], "RemoveBlockReply")>>)
        /\ AllHonest(maybe_stream_block(s))
    BY <1>1, <1>2 DEF Asks
  <2>. QED  BY <2>1, BothAreHonest DEF front_add_block, front_remove_block
<1>4. Asks(tip_info) /\ Asks(beat) /\ Asks(forward_watches) /\ Asks(reverse_watches) /\ Asks(populate_keys)
  BY <1>1 DEF tip_info, beat, forward_watches, reverse_watches, populate_keys
<1>5. Asks(tip_info \o beat)  BY <1>4, BothAreHonest DEF Asks
<1>6. \A s : Asks((tip_info \o forward_watches) \o front_add_block(s))
  BY <1>3, <1>4, BothAreHonest DEF Asks
<1>7. \A s : Asks((tip_info \o reverse_watches) \o front_remove_block(s))
  BY <1>3, <1>4, BothAreHonest DEF Asks
<1>8. \A reqs \in update : Asks(reqs)  BY <1>5, <1>6, <1>7 DEF update
<1>. QED  BY <1>4, <1>8 DEF FrontJobs, Job, NoThen

\* What a CLN node asks carries nothing it means in the sense of AsMeant.
LEMMA ClnAsks ==
    ASSUME NEW c, NEW job \in ClnJobs(c)
    PROVE  Asks(job.reqs)
<1>. DEFINE Req(peer, a) == Request(peer, c, a.kind, a.args, a.reply, None)
<1>1. \A peer, a : Asks(<<Req(peer, a)>>)
  <2>1. \A peer, a : Req(peer, a).meant = None  BY DEF Request
  <2>. HIDE DEF Req
  <2>. QED  BY <2>1, UnmeantIsHonest, OneIsHonest
<1>2. PICK a : job = Job(<<Req(IF c = Root THEN None ELSE Peer, a)>>,
                         IF a.to = a.from THEN NoThen ELSE [k |-> 1, chan |-> ClnChan(a.to)])
  BY DEF ClnJobs
<1>. HIDE DEF Req
<1>3. job.reqs = <<Req(IF c = Root THEN None ELSE Peer, a)>>  BY <1>2 DEF Job
<1>. QED  BY <1>1, <1>3

\* A channel of an LDK node, and what a job leaves of one.
IsChan(ch) ==
    /\ DOMAIN ch = {"signer", "outpoint", "stage", "holder", "counterparty", "revoked"}
    /\ ch.holder \in Nat /\ ch.counterparty \in Nat /\ ch.revoked \in Nat

IsThen(then) == then.k \in Int /\ (then.k > 0 => IsChan(then.chan))

ChansOK(cs) == IsSeq(cs) /\ \A k \in 1..Len(cs) : IsChan(cs[k])

LEMMA NothingThen == IsThen(NoThen)
BY DEF NoThen, IsThen

LEMMA LdkRootAsks ==
    ASSUME ChansOK(chans), setting \in Settings, setting.node = "ldk", NEW job \in LdkRootJobs
    PROVE  Asks(job.reqs) /\ IsThen(job.then)
<1>1. \A keys_id : Asks(derive_channel_signer(keys_id))
  <2>. SUFFICES ASSUME NEW keys_id PROVE Asks(derive_channel_signer(keys_id))  OBVIOUS
  <2>. DEFINE dbid == from_be_bytes(keys_id)
              a == node_call("NewChannel", [peer |-> NoPeer, dbid |-> dbid], "NewChannelReply")
              b == client_basepoints(dbid)
  <2>1. Honest(a) /\ Honest(b)  BY NodeCallsAreHonest DEF client_basepoints
  <2>2. derive_channel_signer(keys_id) = <<a, b>>  BY DEF derive_channel_signer
  <2>. HIDE DEF a, b
  <2>. QED  BY <2>1, <2>2, TwoAreHonest
<1>2. \A ds : Asks(<<sign_onchain_tx(ds)>>)  BY NodeCallsAreHonest DEF sign_onchain_tx
<1>3. \A r \in setting.asks : Asks(<<r>>)
  <2>1. \A r \in {client_ecdh, client_sign_invoice, sign_gossip_message} : Asks(<<r>>)
    BY NodeCallsAreHonest DEF client_ecdh, client_sign_invoice, sign_gossip_message
  <2>2. setting.asks \subseteq {client_ecdh, client_sign_invoice, sign_gossip_message}
    BY SignerLinkAssumption
  <2>. QED  BY <2>1, <2>2
<1>4. \A k, keys_id : IsChan(NewChan(k, keys_id))  BY DEF NewChan, IsChan
<1>5. Len(chans) + 1 \in Int
  <2>1. PICK S : chans \in Seq(S)  BY DEF ChansOK, IsSeq
  <2>. QED  BY <2>1
<1>. DEFINE then(keys_id) == [k |-> Len(chans) + 1, chan |-> NewChan(Len(chans) + 1, keys_id)]
<1>6. \A keys_id : IsThen(then(keys_id))  BY <1>4, <1>5 DEF IsThen
<1>7. \/ \E keys_id : job = Job(derive_channel_signer(keys_id), then(keys_id))
      \/ \E ds : job = Job(<<sign_onchain_tx(ds)>>, NoThen)
      \/ \E r \in setting.asks : job = Job(<<r>>, NoThen)
  <2>. DEFINE A == {Job(derive_channel_signer(keys_id), then(keys_id)) :
                        keys_id \in {generate_channel_keys_id(d) : d \in {next_dbid} \cap 1..MaxDbid}}
              B == {Job(<<sign_onchain_tx({Descriptor(chans[k])})>>, NoThen) :
                        k \in {i \in DOMAIN chans : /\ setting.closes
                                                    /\ \/ chans[i].stage \in {"closed", "forced"}
                                                       \/ chans[i].counterparty > setting.commits}}
              C == {Job(<<r>>, NoThen) : r \in setting.asks}
  <2>1. LdkRootJobs = (A \cup B) \cup C  BY DEF LdkRootJobs
  <2>2. job \in A => \E keys_id : job = Job(derive_channel_signer(keys_id), then(keys_id))
    <3>. HIDE DEF then
    <3>. QED  OBVIOUS
  <2>3. job \in B => \E ds : job = Job(<<sign_onchain_tx(ds)>>, NoThen)  OBVIOUS
  <2>4. job \in C => \E r \in setting.asks : job = Job(<<r>>, NoThen)  OBVIOUS
  <2>. HIDE DEF A, B, C, then
  <2>. QED  BY <2>1, <2>2, <2>3, <2>4
<1>. HIDE DEF then
<1>8. \A reqs, th : Job(reqs, th).reqs = reqs /\ Job(reqs, th).then = th  BY DEF Job
<1>9. CASE \E keys_id : job = Job(derive_channel_signer(keys_id), then(keys_id))
  <2>1. PICK keys_id : job = Job(derive_channel_signer(keys_id), then(keys_id))  BY <1>9
  <2>. QED  BY <2>1, <1>1, <1>6, <1>8
<1>10. CASE \E ds : job = Job(<<sign_onchain_tx(ds)>>, NoThen)
  <2>1. PICK ds : job = Job(<<sign_onchain_tx(ds)>>, NoThen)  BY <1>10
  <2>. QED  BY <2>1, <1>2, <1>8, NothingThen
<1>11. CASE \E r \in setting.asks : job = Job(<<r>>, NoThen)
  <2>1. PICK r \in setting.asks : job = Job(<<r>>, NoThen)  BY <1>11
  <2>. QED  BY <2>1, <1>3, <1>8, NothingThen
<1>. QED  BY <1>7, <1>9, <1>10, <1>11

\* Each of the things LDK does with a channel.
LEMMA ChannelJobs ==
    ASSUME NEW k \in Nat, NEW c, IsChan(c)
    PROVE  /\ Asks(PointJob(k, c).reqs) /\ IsThen(PointJob(k, c).then)
           /\ \A a, z : /\ Asks(ParametersJob(k, c, a, z).reqs)
                        /\ IsThen(ParametersJob(k, c, a, z).then)
           /\ \A p \in Parts : Asks(SignJob(k, c, p).reqs) /\ IsThen(SignJob(k, c, p).then)
           /\ \A p \in Parts : Asks(HolderJob(k, c, p).reqs) /\ IsThen(HolderJob(k, c, p).then)
           /\ Asks(RevocationJob(k, c).reqs) /\ IsThen(RevocationJob(k, c).then)
           /\ \A job \in CloseJobs(k, c) : Asks(job.reqs) /\ IsThen(job.then)
<1>1. /\ c.holder \in Nat /\ c.counterparty \in Nat /\ c.revoked \in Nat
      /\ c.holder \in Int /\ c.counterparty \in Int
  BY DEF IsChan
<1>2. \A c1 : IsChan(c1) => IsThen(Then(k, c1))  BY DEF IsThen, Then
<1>3. /\ \A st : IsChan([c EXCEPT !.stage = st])
      /\ IsChan([c EXCEPT !.counterparty = c.counterparty + 1])
      /\ IsChan([c EXCEPT !.holder = c.holder + 1])
      /\ IsChan([c EXCEPT !.revoked = c.revoked + 1])
  BY <1>1 DEF IsChan
<1>4. \A reqs, th : Job(reqs, th).reqs = reqs /\ Job(reqs, th).then = th  BY DEF Job
<1>5. \A i : Asks(<<client_point(c.signer, i)>>)
  BY UnmeantCallsAreHonest, OneIsHonest DEF client_point
<1>6. Asks(PointJob(k, c).reqs) /\ IsThen(PointJob(k, c).then)
  BY <1>2, <1>3, <1>4, <1>5 DEF PointJob
<1>7. ASSUME NEW a, NEW z
      PROVE  Asks(ParametersJob(k, c, a, z).reqs) /\ IsThen(ParametersJob(k, c, a, z).then)
  BY <1>2, <1>3, <1>4, ParametersAreHonest, OneIsHonest DEF ParametersJob
<1>8. ASSUME NEW p \in Parts
      PROVE  Asks(SignJob(k, c, p).reqs) /\ IsThen(SignJob(k, c, p).then)
  <2>. DEFINE m == c.counterparty
              a == sign_counterparty_commitment(c.signer, LdkTx(m, p, FALSE), Meant(m, p, FALSE))
  <2>1. Honest(a)  BY <1>1, CounterpartyCommitmentIsHonest
  <2>2. SignJob(k, c, p) = Job(<<a>>, Then(k, [c EXCEPT !.counterparty = c.counterparty + 1]))
    BY DEF SignJob
  <2>. HIDE DEF a
  <2>. QED  BY <1>2, <1>3, <1>4, <2>1, <2>2, OneIsHonest
<1>9. ASSUME NEW p \in Parts
      PROVE  Asks(HolderJob(k, c, p).reqs) /\ IsThen(HolderJob(k, c, p).then)
  <2>. DEFINE n == c.holder
              a == validate_holder_commitment(c.signer, LdkTx(n, p, TRUE), Meant(n, p, TRUE))
              b == client_point(c.signer, idx(n + 1))
              d == IF n = 0 THEN <<>>
                   ELSE <<release_commitment_secret(c.signer, idx(n - 1), [secret |-> n - 1])>>
  <2>1. Honest(a) /\ Honest(b)
    BY <1>1, HolderCommitmentIsHonest, UnmeantCallsAreHonest DEF client_point
  <2>2. AllHonest(d)
    <3>1. CASE n = 0  BY <3>1, NoneAreHonest
    <3>2. CASE n # 0
      <4>1. n - 1 \in Nat  BY <1>1, <3>2
      <4>2. Asks(<<release_commitment_secret(c.signer, idx(n - 1), [secret |-> n - 1])>>)
        BY <4>1, SecretIsHonest, OneIsHonest
      <4>. QED  BY <3>2, <4>2 DEF Asks
    <3>. QED  BY <3>1, <3>2
  <2>3. HolderJob(k, c, p) = Job(<<a, b>> \o d, Then(k, [c EXCEPT !.holder = c.holder + 1]))
    BY DEF HolderJob
  <2>. HIDE DEF a, b, d
  <2>5. Asks(<<a, b>>)  BY <2>1, TwoAreHonest
  <2>6. Asks(<<a, b>> \o d)  BY <2>2, <2>5, BothAreHonest DEF Asks
  <2>. QED  BY <1>2, <1>3, <1>4, <2>3, <2>6
<1>10. Asks(RevocationJob(k, c).reqs) /\ IsThen(RevocationJob(k, c).then)
  <2>1. Asks(<<validate_counterparty_revocation(c.signer, idx(c.revoked))>>)
    BY UnmeantCallsAreHonest, OneIsHonest DEF validate_counterparty_revocation
  <2>. QED  BY <1>2, <1>3, <1>4, <2>1 DEF RevocationJob
<1>11. ASSUME NEW job \in CloseJobs(k, c)
       PROVE  Asks(job.reqs) /\ IsThen(job.then)
  <2>1. /\ Asks(<<sign_channel_announcement(c.signer)>>)
        /\ Asks(<<sign_closing_transaction(c.signer)>>)
        /\ Asks(<<sign_holder_commitment_and_htlcs(c.signer, idx(c.holder - 1))>>)
    BY UnmeantCallsAreHonest, OneIsHonest
    DEF sign_channel_announcement, sign_closing_transaction, sign_holder_commitment_and_htlcs
  <2>. QED  BY <1>2, <1>3, <1>4, <2>1, NothingThen DEF CloseJobs
<1>. QED  BY <1>6, <1>7, <1>8, <1>9, <1>10, <1>11

LEMMA LdkChannelAsks ==
    ASSUME ChansOK(chans), NEW k \in DOMAIN chans, NEW job \in LdkChannelJobs(k)
    PROVE  Asks(job.reqs) /\ IsThen(job.then)
<1>. DEFINE c == chans[k]
<1>1. k \in Nat /\ IsChan(c)
  <2>1. PICK S : chans \in Seq(S)  BY DEF ChansOK, IsSeq
  <2>2. k \in 1..Len(chans) /\ Len(chans) \in Nat  BY <2>1
  <2>. QED  BY <2>2 DEF ChansOK
<1>2. \A n : Contents(n) \subseteq Parts  BY DEF Contents
<1>3. \/ job = PointJob(k, c)
      \/ \E a, z : job = ParametersJob(k, c, a, z)
      \/ job \in ReadyJobs(k, c)
  BY DEF LdkChannelJobs
<1>. HIDE DEF c
<1>4. job \in ReadyJobs(k, c) => \/ \E p \in Contents(c.counterparty) : job = SignJob(k, c, p)
                                 \/ \E p \in Contents(c.holder) : job = HolderJob(k, c, p)
                                 \/ job = RevocationJob(k, c)
                                 \/ job \in CloseJobs(k, c)
  BY DEF ReadyJobs
<1>. QED  BY <1>1, <1>2, <1>3, <1>4, ChannelJobs

LEMMA LdkAsks ==
    ASSUME ChansOK(chans), setting \in Settings, setting.node = "ldk", NEW c, NEW job \in LdkJobs(c)
    PROVE  Asks(job.reqs) /\ IsThen(job.then)
<1>1. CASE c = Root
  <2>1. job \in LdkRootJobs  BY <1>1 DEF LdkJobs
  <2>. QED  BY <2>1, LdkRootAsks
<1>2. CASE c # Root
  <2>1. PICK k \in DOMAIN chans : job \in LdkChannelJobs(k)  BY <1>2 DEF LdkJobs
  <2>. QED  BY <2>1, LdkChannelAsks
<1>. QED  BY <1>1, <1>2

------------------------------------------------------------------------------
\* What a caller has left to ask arrives as meant.
CallerMeans(s, caller) ==
    /\ AllHonest(caller.reqs)
    /\ caller.phase \in {"waiting", "replied"} => caller.reqs # <<>>
    /\ s.node = "ldk" => IsThen(caller.then)

ItemsMean(q) == \A i \in 1..Len(q) : Honest(q[i].req)

HolderWaits == lock # None => ~Grpc /\ lock \in Callers /\ callers[lock].phase = "waiting"

MeantInv ==
    /\ setting \in Settings
    /\ \A c \in Callers : CallerMeans(setting, callers[c])
    /\ setting.node = "ldk" => ChansOK(chans)
    /\ HolderWaits
    /\ ItemsMean(queue) /\ ItemsMean(down)
    /\ CommitmentsArriveAsMeant

LEMMA NoItems == ItemsMean(<<>>)
BY EmptyQueue DEF ItemsMean

LEMMA ItemsAppended ==
    ASSUME NEW q, IsSeq(q), ItemsMean(q), NEW x, Honest(x.req)
    PROVE  ItemsMean(Append(q, x))
<1>1. \A i \in 1..Len(Append(q, x)) : i \in 1..Len(q) \/ i = Len(q) + 1  BY Appended
<1>2. \A i \in 1..Len(q) : Append(q, x)[i] = q[i]  BY Appended
<1>3. Append(q, x)[Len(q) + 1] = x  BY Appended
<1>. QED  BY <1>1, <1>2, <1>3 DEF ItemsMean

LEMMA ItemsTailed ==
    ASSUME NEW q, IsSeq(q), q # <<>>, ItemsMean(q)
    PROVE  ItemsMean(Tail(q)) /\ Honest(Head(q).req)
<1>1. Len(Tail(q)) = Len(q) - 1 /\ Head(q) = q[1] /\ 1 \in 1..Len(q)  BY Tailed
<1>2. \A i \in 1..(Len(q) - 1) : i + 1 \in 1..Len(q) /\ Tail(q)[i] = q[i + 1]  BY Tailed
<1>. QED  BY <1>1, <1>2 DEF ItemsMean

LEMMA FirstIsHonest ==
    ASSUME NEW reqs, Asks(reqs)
    PROVE  Honest(Head(reqs)) /\ AllHonest(Tail(reqs))
<1>1. IsSeq(reqs) /\ reqs # <<>> /\ \A i \in 1..Len(reqs) : Honest(reqs[i])  BY DEF Asks, AllHonest
<1>2. IsSeq(Tail(reqs)) /\ Len(Tail(reqs)) = Len(reqs) - 1 /\ Head(reqs) = reqs[1] /\ 1 \in 1..Len(reqs)
  BY <1>1, Tailed
<1>3. \A i \in 1..(Len(reqs) - 1) : i + 1 \in 1..Len(reqs) /\ Tail(reqs)[i] = reqs[i + 1]
  BY <1>1, Tailed
<1>. QED  BY <1>1, <1>2, <1>3 DEF AllHonest

LEMMA QueuesAreSequences ==
    ASSUME LinkInv
    PROVE  IsSeq(queue) /\ IsSeq(down)
BY EmptyQueue DEF LinkInv, EntriesOK

LEMMA StartIsHonest == Asks(<<hsmd_init2>>)
BY NodeCallsAreHonest DEF hsmd_init2

\* The callers and the queues as the node and the proxy start.
LEMMA StartMeans ==
    ASSUME NEW s, NEW caller, caller.reqs = <<hsmd_init2>> \/ caller.reqs = <<>>,
           caller.phase \in {"off", "idle"}, caller.then = NoThen
    PROVE  CallerMeans(s, caller)
<1>1. AllHonest(caller.reqs)  BY StartIsHonest, NoneAreHonest DEF Asks
<1>. QED  BY <1>1, NothingThen DEF CallerMeans

LEMMA MeantInit == Init => MeantInv
<1>. SUFFICES ASSUME Init PROVE MeantInv  OBVIOUS
<1>1. ASSUME NEW c \in Callers PROVE CallerMeans(setting, callers[c])
  <2>1. callers[c].phase \in {"off", "idle"}  BY DEF Init, Idle
  <2>2. callers[c].reqs = <<hsmd_init2>> \/ callers[c].reqs = <<>>  BY DEF Init, Idle
  <2>3. callers[c].then = NoThen  BY DEF Init, Idle
  <2>. QED  BY <2>1, <2>2, <2>3, StartMeans
<1>2. setting.node = "ldk" => ChansOK(chans)
  <2>1. setting.node = "ldk" => chans = <<>>  BY DEF Init
  <2>. QED  BY <2>1, EmptyQueue DEF ChansOK
<1>3. setting \in Settings /\ lock = None /\ queue = <<>> /\ down = <<>> /\ events = {}  BY DEF Init
<1>. QED  BY <1>1, <1>2, <1>3, NoItems DEF MeantInv, HolderWaits, CommitmentsArriveAsMeant

LEMMA JobsAsk ==
    ASSUME MeantInv, NEW c \in Callers, callers[c].phase = "idle", NEW job \in Jobs(c)
    PROVE  Asks(job.reqs) /\ (setting.node = "ldk" => IsThen(job.then))
<1>1. CASE callers[c].reqs # <<>>
  <2>1. job = Job(callers[c].reqs, callers[c].then)  BY <1>1 DEF Jobs
  <2>2. job.reqs = callers[c].reqs /\ job.then = callers[c].then  BY <2>1 DEF Job
  <2>. QED  BY <1>1, <2>2 DEF MeantInv, CallerMeans, Asks
<1>2. CASE callers[c].reqs = <<>>
  <2>1. setting.node \in {"ldk", "cln"}  BY SignerLinkAssumption DEF MeantInv
  <2>2. CASE c = Front
    <3>1. job \in FrontJobs  BY <1>2, <2>2 DEF Jobs
    <3>. QED  BY <3>1, FrontAsks DEF IsThen
  <2>3. CASE c # Front /\ setting.node = "ldk"
    <3>1. job \in LdkJobs(c)  BY <1>2, <2>3 DEF Jobs
    <3>. QED  BY <2>3, <3>1, LdkAsks DEF MeantInv
  <2>4. CASE c # Front /\ setting.node = "cln"
    <3>1. job \in ClnJobs(c)  BY <1>2, <2>4 DEF Jobs
    <3>. QED  BY <2>4, <3>1, ClnAsks
  <2>. QED  BY <2>1, <2>2, <2>3, <2>4
<1>. QED  BY <1>1, <1>2

LEMMA MeantStutter ==
    ASSUME MeantInv, UNCHANGED <<callers, chans, lock, queue, down, setting, events>>
    PROVE  MeantInv'
BY DEF MeantInv, CallerMeans, HolderWaits, Grpc, ItemsMean, CommitmentsArriveAsMeant, ChansOK

\* A request that arrives as meant is put in the queue or on the line.
LEMMA MeantSent ==
    ASSUME LinkInv, MeantInv, NEW c \in Callers, NEW req, Honest(req),
           send_request(c, req) \/ serial_request(c, req),
           callers[c].phase # "waiting",
           CallerMeans(setting, callers'[c]), callers'[c].phase = "waiting",
           \A d \in Callers \ {c} : callers'[d] = callers[d],
           UNCHANGED <<chans, setting, events>>
    PROVE  MeantInv'
<1>1. \A d \in Callers : CallerMeans(setting', callers'[d])  BY DEF MeantInv
<1>2. ItemsMean(queue') /\ ItemsMean(down') /\ HolderWaits'
  <2>1. CASE send_request(c, req)
    <3>1. queue' = Append(queue, [caller |-> c, req |-> req]) /\ UNCHANGED <<lock, down>> /\ Grpc /\ lock = None
      BY <2>1 DEF send_request, stream, MeantInv, HolderWaits
    <3>2. ItemsMean(queue')  BY <3>1, QueuesAreSequences, ItemsAppended DEF MeantInv
    <3>. QED  BY <3>1, <3>2 DEF MeantInv, HolderWaits
  <2>2. CASE serial_request(c, req)
    <3>1. /\ down' = Append(down, [id |-> sequence, caller |-> c, req |-> req])
          /\ UNCHANGED queue /\ lock' = c /\ ~Grpc /\ ~Grpc'
      BY <2>2 DEF serial_request, adapter, Grpc
    <3>2. ItemsMean(down')  BY <3>1, QueuesAreSequences, ItemsAppended DEF MeantInv
    <3>. QED  BY <3>1, <3>2 DEF MeantInv, HolderWaits
  <2>. QED  BY <2>1, <2>2
<1>. QED  BY <1>1, <1>2 DEF MeantInv, CommitmentsArriveAsMeant

LEMMA MeantSend ==
    ASSUME LinkInv, MeantInv, NEW c \in Callers, Send(c)
    PROVE  MeantInv'
<1>1. PICK job \in Jobs(c) :
         \/ /\ Waits(c, job)
            /\ send_request(c, Head(job.reqs)) \/ serial_request(c, Head(job.reqs))
         \/ callers' = callers /\ UNCHANGED <<adapter, stream>>
  BY DEF Send
<1>2. callers[c].phase = "idle" /\ UNCHANGED <<chans, setting, events>>  BY DEF Send
<1>3. CASE callers' = callers /\ UNCHANGED <<adapter, stream>>
  BY <1>2, <1>3, MeantStutter DEF adapter, stream
<1>4. CASE Waits(c, job) /\ (send_request(c, Head(job.reqs)) \/ serial_request(c, Head(job.reqs)))
  <2>1. DOMAIN callers = Callers  BY DEF LinkInv, CallersOK
  <2>2. /\ callers'[c].phase = "waiting" /\ callers'[c].reqs = job.reqs /\ callers'[c].then = job.then
        /\ \A d \in Callers \ {c} : callers'[d] = callers[d]
    BY <1>4, <2>1 DEF Waits
  <2>3. Asks(job.reqs) /\ (setting.node = "ldk" => IsThen(job.then))  BY <1>2, JobsAsk
  <2>4. CallerMeans(setting, callers'[c])  BY <2>2, <2>3 DEF CallerMeans, Asks
  <2>5. Honest(Head(job.reqs))  BY <2>3, FirstIsHonest
  <2>. QED  BY <1>2, <1>4, <2>2, <2>4, <2>5, MeantSent
<1>. QED  BY <1>1, <1>3, <1>4

LEMMA MeantRetry ==
    ASSUME LinkInv, MeantInv, NEW c \in Callers, Retry(c)
    PROVE  MeantInv'
<1>1. DOMAIN callers = Callers /\ DOMAIN callers[c] = {"phase", "reqs", "then", "reply"}
  BY DEF LinkInv, CallersOK
<1>2. /\ callers'[c].phase = "waiting" /\ callers'[c].reqs = callers[c].reqs
      /\ callers'[c].then = callers[c].then
      /\ \A d \in Callers \ {c} : callers'[d] = callers[d]
  BY <1>1 DEF Retry
<1>3. callers[c].phase = "replied" /\ send_request(c, Head(callers[c].reqs))
      /\ UNCHANGED <<chans, setting, events>>
  BY DEF Retry, rest, node
<1>4. Asks(callers[c].reqs)  BY <1>3 DEF MeantInv, CallerMeans, Asks
<1>5. CallerMeans(setting, callers'[c])  BY <1>2, <1>4 DEF MeantInv, CallerMeans, Asks
<1>6. Honest(Head(callers[c].reqs))  BY <1>4, FirstIsHonest
<1>. QED  BY <1>2, <1>3, <1>5, <1>6, MeantSent

\* A caller that does not hold the line goes on, or gives up.
LEMMA MeantCaller ==
    ASSUME MeantInv, NEW c \in Callers, lock' = None \/ (lock # c /\ lock' = lock),
           CallerMeans(setting, callers'[c]),
           \A d \in Callers \ {c} : callers'[d] = callers[d],
           UNCHANGED <<queue, down, setting>>,
           setting.node = "ldk" => ChansOK(chans'),
           "not as meant" \notin events'
    PROVE  MeantInv'
<1>1. \A d \in Callers : CallerMeans(setting', callers'[d])  BY DEF MeantInv
<1>2. HolderWaits'  BY DEF MeantInv, HolderWaits, Grpc
<1>. QED  BY <1>1, <1>2 DEF MeantInv, CommitmentsArriveAsMeant

LEMMA PhaseOnly ==
    ASSUME MeantInv, NEW c \in Callers, callers'[c].phase \notin {"waiting", "replied"},
           callers'[c].reqs = callers[c].reqs, callers'[c].then = callers[c].then
    PROVE  CallerMeans(setting, callers'[c])
BY DEF MeantInv, CallerMeans

LEMMA MeantEnds ==
    ASSUME LinkInv, MeantInv, NEW c \in Callers, SendTooLarge(c) \/ GiveUp(c) \/ SerialReadFails(c)
    PROVE  MeantInv'
<1>1. /\ callers' = [callers EXCEPT ![c].phase = "ended"]
      /\ UNCHANGED <<queue, down, setting, chans>>
  BY DEF SendTooLarge, GiveUp, SerialReadFails, LoopEnds, adapter, stream, node
<1>2. /\ DOMAIN callers = Callers
      /\ \A d \in Callers : DOMAIN callers[d] = {"phase", "reqs", "then", "reply"}
  BY DEF LinkInv, CallersOK
<1>3. lock' = None \/ (lock # c /\ lock' = lock)
  <2>1. CASE SerialReadFails(c)  BY <2>1 DEF SerialReadFails
  <2>2. CASE SendTooLarge(c) \/ GiveUp(c)
    <3>1. callers[c].phase # "waiting" /\ lock' = lock  BY <2>2 DEF SendTooLarge, GiveUp, stream
    <3>. QED  BY <3>1 DEF MeantInv, HolderWaits
  <2>. QED  BY <2>1, <2>2
<1>4. CallerMeans(setting, callers'[c]) /\ \A d \in Callers \ {c} : callers'[d] = callers[d]
  <2>1. /\ callers'[c].phase = "ended" /\ callers'[c].reqs = callers[c].reqs
        /\ callers'[c].then = callers[c].then
        /\ \A d \in Callers \ {c} : callers'[d] = callers[d]
    BY <1>1, <1>2
  <2>. QED  BY <2>1, PhaseOnly
<1>5. "not as meant" \notin events'
  <2>1. events' = events \/ events' = events \cup {"read failed"}
    BY DEF SendTooLarge, GiveUp, SerialReadFails
  <2>2. "not as meant" \notin events  BY DEF MeantInv, CommitmentsArriveAsMeant
  <2>3. CASE events' = events  BY <2>2, <2>3
  <2>4. CASE events' = events \cup {"read failed"}  BY <2>2, <2>4
  <2>. QED  BY <2>1, <2>3, <2>4
<1>6. setting.node = "ldk" => ChansOK(chans')  BY <1>1 DEF MeantInv
<1>. QED  BY <1>1, <1>3, <1>4, <1>5, <1>6, MeantCaller

LEMMA MeantClientHsmFd ==
    ASSUME LinkInv, MeantInv, ClientHsmFd
    PROVE  MeantInv'
<1>1. 1 \in Callers  BY SignerLinkAssumption DEF Callers, Front
<1>2. /\ callers' = [callers EXCEPT ![1].phase = "idle"] /\ callers[1].phase = "off"
      /\ UNCHANGED <<queue, down, lock, setting, events>> /\ setting.node = "cln"
  BY DEF ClientHsmFd, adapter, stream, rest
<1>3. /\ DOMAIN callers = Callers
      /\ \A d \in Callers : DOMAIN callers[d] = {"phase", "reqs", "then", "reply"}
  BY DEF LinkInv, CallersOK
<1>4. CallerMeans(setting, callers'[1]) /\ \A d \in Callers \ {1} : callers'[d] = callers[d]
  <2>1. /\ callers'[1].phase = "idle" /\ callers'[1].reqs = callers[1].reqs
        /\ callers'[1].then = callers[1].then
        /\ \A d \in Callers \ {1} : callers'[d] = callers[d]
    BY <1>1, <1>2, <1>3
  <2>. QED  BY <1>1, <2>1, PhaseOnly
<1>5. lock # 1 /\ lock' = lock
  <2>1. ~(callers[1].phase = "waiting")  BY <1>2
  <2>2. None # 1  BY SignerLinkAssumption
  <2>. QED  BY <1>2, <2>1, <2>2 DEF MeantInv, HolderWaits
<1>6. "not as meant" \notin events'  BY <1>2 DEF MeantInv, CommitmentsArriveAsMeant
<1>. QED  BY <1>1, <1>2, <1>4, <1>5, <1>6, MeantCaller

LEMMA MeantReply ==
    ASSUME LinkInv, MeantInv, NEW c \in Callers, Reply(c)
    PROVE  MeantInv'
<1>. DEFINE req == Head(callers[c].reqs)  reply == callers[c].reply
            understood == from_vec(reply.msg, req.reply)  left == Tail(callers[c].reqs)
            then == callers[c].then
<1>1. DOMAIN callers = Callers /\ \A d \in Callers : DOMAIN callers[d] = {"phase", "reqs", "then", "reply"}
  BY DEF LinkInv, CallersOK
<1>2. /\ callers[c].phase = "replied"
      /\ callers' = [callers EXCEPT ![c] =
            IF understood
            THEN [phase |-> "idle", reqs |-> left, then |-> IF left = <<>> THEN NoThen ELSE then,
                  reply |-> None]
            ELSE [callers[c] EXCEPT !.phase = "ended"]]
  BY DEF Reply
<1>3. /\ events' = events \cup (IF reply.to = req THEN {} ELSE {"wrong answer"})
                          \cup (IF understood THEN {} ELSE {"bad reply"})
      /\ UNCHANGED <<queue, down, lock, setting>>
  BY DEF Reply, adapter, stream
<1>4. \/ chans' = chans
      \/ chans' = CASE then.k > Len(chans) -> Append(chans, then.chan)
                    [] then.k \in DOMAIN chans -> [chans EXCEPT ![then.k] = then.chan]
                    [] then.k <= 0 -> chans
  BY DEF Reply
<1>5. Asks(callers[c].reqs) /\ CallerMeans(setting, callers[c])
  BY <1>2 DEF MeantInv, CallerMeans, Asks
<1>6. AllHonest(left)  BY <1>5, FirstIsHonest
<1>7. setting.node = "ldk" => IsThen(then)  BY <1>5 DEF CallerMeans
<1>. HIDE DEF req, reply, understood, left, then
<1>8. \A d \in Callers \ {c} : callers'[d] = callers[d]  BY <1>1, <1>2
<1>9. CallerMeans(setting, callers'[c])
  <2>1. CASE understood
    <3>1. callers'[c].phase = "idle" /\ callers'[c].reqs = left /\ callers'[c].then \in {NoThen, then}
      BY <1>1, <1>2, <2>1
    <3>. QED  BY <1>6, <1>7, <3>1, NothingThen DEF CallerMeans
  <2>2. CASE ~understood
    <3>1. callers'[c].phase = "ended" /\ callers'[c].reqs = callers[c].reqs /\ callers'[c].then = callers[c].then
      BY <1>1, <1>2, <2>2
    <3>. QED  BY <3>1, PhaseOnly
  <2>. QED  BY <2>1, <2>2
<1>10. lock # c \/ lock' = None
  BY <1>2, <1>3 DEF MeantInv, HolderWaits
<1>11. ASSUME setting.node = "ldk" PROVE ChansOK(chans')
  <2>1. ChansOK(chans) /\ IsThen(then)  BY <1>7, <1>11 DEF MeantInv
  <2>2. CASE chans' = chans  BY <2>1, <2>2
  <2>3. PICK S : chans \in Seq(S)  BY <2>1 DEF ChansOK, IsSeq
  <2>4. Len(chans) \in Nat /\ DOMAIN chans = 1..Len(chans)  BY <2>3
  <2>5. CASE then.k > Len(chans) /\ chans' = Append(chans, then.chan)
    <3>1. IsChan(then.chan)  BY <2>1, <2>4, <2>5 DEF IsThen
    <3>2. IsSeq(chans)  BY <2>1 DEF ChansOK
    <3>3. IsSeq(chans') /\ \A i \in 1..Len(chans') : i \in 1..Len(chans) \/ i = Len(chans) + 1
      BY <2>5, <3>2, Appended
    <3>4. (\A i \in 1..Len(chans) : chans'[i] = chans[i]) /\ chans'[Len(chans) + 1] = then.chan
      BY <2>5, <3>2, Appended
    <3>. QED  BY <2>1, <3>1, <3>3, <3>4 DEF ChansOK
  <2>6. CASE then.k \in DOMAIN chans /\ chans' = [chans EXCEPT ![then.k] = then.chan]
    <3>1. IsChan(then.chan)  BY <2>1, <2>4, <2>6 DEF IsThen
    <3>2. chans \in Seq(S \cup {then.chan}) /\ then.k \in 1..Len(chans)  BY <2>3, <2>4, <2>6
    <3>3. chans' \in Seq(S \cup {then.chan}) /\ Len(chans') = Len(chans)
      BY <2>6, <3>2, ExceptSeq
    <3>4. \A i \in 1..Len(chans) : chans'[i] = IF i = then.k THEN then.chan ELSE chans[i]
      BY <2>4, <2>6
    <3>. QED  BY <2>1, <3>1, <3>3, <3>4 DEF ChansOK, IsSeq
  <2>7. then.k > Len(chans) \/ then.k \in DOMAIN chans \/ then.k <= 0
    BY <2>1, <2>4 DEF IsThen
  <2>8. ~(then.k > Len(chans) /\ then.k \in DOMAIN chans) /\ ~(then.k > Len(chans) /\ then.k <= 0)
        /\ ~(then.k \in DOMAIN chans /\ then.k <= 0)
    BY <2>1, <2>4 DEF IsThen
  <2>9. \/ chans' = chans
        \/ then.k > Len(chans) /\ chans' = Append(chans, then.chan)
        \/ then.k \in DOMAIN chans /\ chans' = [chans EXCEPT ![then.k] = then.chan]
    BY <1>4, <2>7, <2>8, Zenon
  <2>. QED  BY <2>2, <2>5, <2>6, <2>9
<1>12. "not as meant" \notin events'  BY <1>3 DEF MeantInv, CommitmentsArriveAsMeant
<1>. QED  BY <1>3, <1>8, <1>9, <1>10, <1>11, <1>12, MeantCaller

LEMMA MeantWriter ==
    ASSUME LinkInv, MeantInv, writer_stream
    PROVE  MeantInv'
<1>1. /\ queue # <<>> /\ queue' = Tail(queue)
      /\ UNCHANGED <<callers, chans, lock, setting, events>>
  BY DEF writer_stream, node
<1>2. \/ down' = Append(down, [id |-> next_id, caller |-> Head(queue).caller, req |-> Head(queue).req])
      \/ down' = down
  BY DEF writer_stream
<1>3. ItemsMean(queue') /\ Honest(Head(queue).req)
  BY <1>1, QueuesAreSequences, ItemsTailed DEF MeantInv
<1>4. ItemsMean(down')
  <2>1. CASE down' = down  BY <2>1 DEF MeantInv
  <2>2. CASE down' = Append(down, [id |-> next_id, caller |-> Head(queue).caller, req |-> Head(queue).req])
    BY <1>3, <2>2, QueuesAreSequences, ItemsAppended DEF MeantInv
  <2>. QED  BY <1>2, <2>1, <2>2
<1>. QED  BY <1>1, <1>3, <1>4 DEF MeantInv, HolderWaits, Grpc, CommitmentsArriveAsMeant

\* A caller gets its answer.
LEMMA MeantReplied ==
    ASSUME LinkInv, MeantInv, NEW c \in Callers, callers[c].phase = "waiting", NEW reply,
           callers' = [callers EXCEPT ![c].phase = "replied", ![c].reply = reply]
    PROVE  CallerMeans(setting, callers'[c]) /\ \A d \in Callers \ {c} : callers'[d] = callers[d]
<1>1. DOMAIN callers = Callers /\ DOMAIN callers[c] = {"phase", "reqs", "then", "reply"}
  BY DEF LinkInv, CallersOK
<1>2. /\ callers'[c].reqs = callers[c].reqs
      /\ callers'[c].then = callers[c].then
      /\ \A d \in Callers \ {c} : callers'[d] = callers[d]
  BY <1>1
<1>. QED  BY <1>2 DEF MeantInv, CallerMeans

LEMMA MeantReader ==
    ASSUME LinkInv, MeantInv, stream_reader
    PROVE  MeantInv'
<1>1. UNCHANGED <<queue, lock, down, setting, events, chans>> /\ Grpc
  BY DEF stream_reader, node
<1>2. CASE UNCHANGED <<callers, requests>>  BY <1>1, <1>2, MeantStutter
<1>3. ASSUME NEW id \in requests_remove(Head(up)), NEW reply,
             callers' = [callers EXCEPT ![requests[id].caller].phase = "replied",
                                        ![requests[id].caller].reply = reply]
      PROVE  MeantInv'
  <2>1. id \in DOMAIN requests  BY <1>3 DEF requests_remove
  <2>2. EntriesOK  BY <1>1 DEF LinkInv
  <2>3. PICK c : c = requests[id].caller  OBVIOUS
  <2>4. c \in Callers /\ callers[c].phase = "waiting"  BY <2>1, <2>2, <2>3 DEF EntriesOK, Awaits
  <2>5. callers' = [callers EXCEPT ![c].phase = "replied", ![c].reply = reply]  BY <1>3, <2>3
  <2>6. CallerMeans(setting, callers'[c]) /\ \A d \in Callers \ {c} : callers'[d] = callers[d]
    BY <2>4, <2>5, MeantReplied
  <2>7. lock' = None  BY <1>1 DEF MeantInv, HolderWaits
  <2>8. "not as meant" \notin events' /\ (setting.node = "ldk" => ChansOK(chans'))
    BY <1>1 DEF MeantInv, CommitmentsArriveAsMeant
  <2>. QED  BY <1>1, <2>4, <2>6, <2>7, <2>8, MeantCaller
<1>. QED  BY <1>2, <1>3 DEF stream_reader

LEMMA MeantSerialRead ==
    ASSUME LinkInv, MeantInv, NEW c \in Callers, SerialRead(c)
    PROVE  MeantInv'
<1>1. UNCHANGED <<queue, down, setting, events, chans>> /\ lock = c /\ lock' = None
  BY DEF SerialRead, adapter, node
<1>2. None \notin Callers  BY SignerLinkAssumption DEF Callers, Front
<1>3. callers[c].phase = "waiting"  BY <1>1, <1>2 DEF MeantInv, HolderWaits
<1>4. CallerMeans(setting, callers'[c]) /\ \A d \in Callers \ {c} : callers'[d] = callers[d]
  <2>1. CASE callers' = [callers EXCEPT ![c].phase = "replied",
                                        ![c].reply = [msg |-> Head(up).msg, temporary |-> FALSE,
                                                      to |-> Head(up).to]]
    BY <2>1, <1>3, MeantReplied
  <2>2. CASE LoopEnds(c)
    <3>1. DOMAIN callers = Callers /\ DOMAIN callers[c] = {"phase", "reqs", "then", "reply"}
      BY DEF LinkInv, CallersOK
    <3>2. /\ callers'[c].phase = "ended" /\ callers'[c].reqs = callers[c].reqs
          /\ callers'[c].then = callers[c].then
          /\ \A d \in Callers \ {c} : callers'[d] = callers[d]
      BY <2>2, <3>1 DEF LoopEnds
    <3>. QED  BY <3>2, PhaseOnly
  <2>. QED  BY <2>1, <2>2 DEF SerialRead
<1>5. "not as meant" \notin events' /\ (setting.node = "ldk" => ChansOK(chans'))
  BY <1>1 DEF MeantInv, CommitmentsArriveAsMeant
<1>. QED  BY <1>1, <1>4, <1>5, MeantCaller

\* What the signer does changes neither the callers nor the queue.
LEMMA MeantDown ==
    ASSUME MeantInv, UNCHANGED <<callers, chans, lock, queue, setting>>, ItemsMean(down'),
           "not as meant" \notin events'
    PROVE  MeantInv'
BY DEF MeantInv, CallerMeans, HolderWaits, Grpc, ItemsMean, CommitmentsArriveAsMeant, ChansOK

LEMMA MeantHandle ==
    ASSUME LinkInv, MeantInv, Handle
    PROVE  MeantInv'
<1>. DEFINE item == Head(down)  out == handle(item.req)
<1>1. UNCHANGED <<callers, chans, queue, lock, setting>> /\ down # <<>>
  BY DEF Handle, adapter, node
<1>2. events' = events \cup {out.verdict} \cup (IF AsMeant(item.req, out) THEN {} ELSE {"not as meant"})
  BY DEF Handle
<1>3. out.verdict \in Verdicts  BY HandleVerdict
<1>4. down' = <<>> \/ down' = Tail(down)  BY DEF Handle, EndsSigner
<1>5. ItemsMean(Tail(down)) /\ Honest(item.req)
  BY <1>1, QueuesAreSequences, ItemsTailed DEF MeantInv
<1>6. out = HandledIn(slots, decode, item.req)  BY DEF handle, HandledIn
<1>7. AsMeant(item.req, out)  BY <1>5, <1>6 DEF Honest
<1>. HIDE DEF item, out
<1>8. "not as meant" \notin events'
  BY <1>2, <1>3, <1>7 DEF MeantInv, CommitmentsArriveAsMeant, Verdicts
<1>9. ItemsMean(down')
  <2>1. CASE down' = <<>>  BY <2>1, NoItems
  <2>2. CASE down' = Tail(down)  BY <2>2, <1>5
  <2>. QED  BY <1>4, <2>1, <2>2
<1>. QED  BY <1>1, <1>8, <1>9, MeantDown

LEMMA MeantSigner ==
    ASSUME LinkInv, MeantInv, HandleTemporary \/ Break
    PROVE  MeantInv'
<1>1. UNCHANGED <<callers, chans, queue, lock, setting, events>>
  BY DEF HandleTemporary, Break, adapter, node
<1>2. down' = <<>> \/ (down # <<>> /\ down' = Tail(down))  BY DEF HandleTemporary, Break, EndsSigner
<1>3. ItemsMean(down')
  <2>1. CASE down' = <<>>  BY <2>1, NoItems
  <2>2. CASE down # <<>> /\ down' = Tail(down)
    BY <2>2, QueuesAreSequences, ItemsTailed DEF MeantInv
  <2>. QED  BY <1>2, <2>1, <2>2
<1>4. "not as meant" \notin events'  BY <1>1 DEF MeantInv, CommitmentsArriveAsMeant
<1>. QED  BY <1>1, <1>3, <1>4, MeantDown

\* A node that starts again reads its signers back; the numbers of the commitments stay.
LEMMA MeantRestart ==
    ASSUME LinkInv, MeantInv, Restart
    PROVE  MeantInv'
<1>1. /\ queue' = <<>> /\ down' = <<>> /\ UNCHANGED <<setting, events, lock>>
      /\ setting.node = "ldk" /\ Grpc /\ Grpc'
  BY DEF Restart, Grpc
<1>2. callers' = [c \in Callers |->
            [Idle EXCEPT !.phase = IF c \in Closed THEN "off" ELSE "idle",
                         !.reqs = IF c = Root THEN <<hsmd_init2>> ELSE <<>>]]
  BY DEF Restart
<1>3. ASSUME NEW c \in Callers PROVE CallerMeans(setting', callers'[c])
  <2>1. callers'[c].phase \in {"off", "idle"}  BY <1>2 DEF Idle
  <2>2. callers'[c].reqs = <<hsmd_init2>> \/ callers'[c].reqs = <<>>  BY <1>2 DEF Idle
  <2>3. callers'[c].then = NoThen  BY <1>2 DEF Idle
  <2>. QED  BY <2>1, <2>2, <2>3, StartMeans
<1>4. ChansOK(chans')
  <2>1. ChansOK(chans)  BY <1>1 DEF MeantInv
  <2>2. PICK S : chans \in Seq(S)  BY <2>1 DEF ChansOK, IsSeq
  <2>3. Len(chans) \in Nat /\ DOMAIN chans = 1..Len(chans)  BY <2>2
  <2>4. chans' = [k \in DOMAIN chans |->
                    [chans[k] EXCEPT !.signer = read_chan_signer(write(chans[k].signer))]]
    BY DEF Restart
  <2>5. \A k \in 1..Len(chans) : IsChan(chans'[k])
    <3>. SUFFICES ASSUME NEW k \in 1..Len(chans) PROVE IsChan(chans'[k])  OBVIOUS
    <3>1. IsChan(chans[k])  BY <2>1 DEF ChansOK
    <3>2. PICK x : chans'[k] = [chans[k] EXCEPT !.signer = x]  BY <2>3, <2>4
    <3>. QED  BY <3>1, <3>2 DEF IsChan
  <2>. DEFINE T == {chans'[k] : k \in 1..Len(chans)}
  <2>6. chans' \in [1..Len(chans) -> T]  BY <2>3, <2>4
  <2>7. chans' \in Seq(T) /\ Len(chans') = Len(chans)  BY <2>3, <2>6
  <2>. QED  BY <2>5, <2>7 DEF ChansOK, IsSeq
<1>5. lock' = None  BY <1>1 DEF MeantInv, HolderWaits
<1>6. ItemsMean(queue') /\ ItemsMean(down')  BY <1>1, NoItems
<1>7. setting' \in Settings /\ CommitmentsArriveAsMeant'  BY <1>1 DEF MeantInv, CommitmentsArriveAsMeant
<1>. QED  BY <1>3, <1>4, <1>5, <1>6, <1>7 DEF MeantInv, HolderWaits

LEMMA MeantStep == LinkInv /\ MeantInv /\ [Next]_vars => MeantInv'
<1>. SUFFICES ASSUME LinkInv, MeantInv, [Next]_vars PROVE MeantInv'  OBVIOUS
<1>1. CASE UNCHANGED vars  BY <1>1, MeantStutter DEF vars, adapter, stream, rest, node
<1>2. CASE LockReceiver \/ DropWriter \/ Connect
  BY <1>2, MeantStutter DEF LockReceiver, DropWriter, Connect, adapter, rest, node
<1>3. CASE \E c \in Callers : Send(c) \/ SendTooLarge(c) \/ Reply(c) \/ Retry(c) \/ GiveUp(c)
  BY <1>3, MeantSend, MeantEnds, MeantReply, MeantRetry
<1>4. CASE \E c \in Callers : SerialRead(c) \/ SerialReadFails(c)
  BY <1>4, MeantSerialRead, MeantEnds
<1>. QED
  BY <1>1, <1>2, <1>3, <1>4, MeantClientHsmFd, MeantWriter, MeantReader, MeantHandle,
     MeantSigner, MeantRestart
  DEF Next

\* CommitmentsArriveAsMeant, for every number of channels and commitments and every content of
\* them: the client's encoding, the wire and the handler's decoding compose to what LDK meant.
THEOREM CommitmentsArrive == Spec => []CommitmentsArriveAsMeant
<1>1. MeantInv => CommitmentsArriveAsMeant  BY DEF MeantInv
<1>2. LinkInv /\ MeantInv /\ [Next]_vars => (LinkInv /\ MeantInv)'  BY LinkStep, MeantStep
<1>3. Init => LinkInv /\ MeantInv  BY LinkInit, MeantInit
<1>. QED  BY <1>1, <1>2, <1>3, PTL DEF Spec

==============================================================================
