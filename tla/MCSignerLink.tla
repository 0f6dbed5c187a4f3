---------------------------- MODULE MCSignerLink ----------------------------
(***************************************************************************)
(* Two dbids of two-digit bytes.  Each setting lets a few things happen:   *)
(* the whole life of an LDK channel; the same over streams that break and  *)
(* with failures to retry; two channels at once; a node that starts again, *)
(* with channels to make and with commitments to exchange;                 *)
(* CLN's messages over gRPC and over a serial line; a follower's blocks.   *)
(***************************************************************************)
EXTENDS SignerLink

Htlc(sat, hash) == [sat |-> sat, hash |-> hash]
Part(ours, theirs) == [to_us |-> 2, to_them |-> 1, ours |-> ours, theirs |-> theirs]
TwoParts == {Part({}, {}), Part({Htlc(1, "a")}, {Htlc(2, "b")})}

NoFaults ==
    [breaks |-> 0, temporaries |-> 0, restarts |-> 0, reads |-> 0, large |-> 0, repeats |-> 1]
OneBreak == [NoFaults EXCEPT !.breaks = 1]

\* Channels that are made ready and not used.
Ldk(chs, limits) ==
    [node |-> "ldk", link |-> "grpc", front |-> FALSE, chans |-> chs, commits |-> -1,
     closes |-> FALSE, anchors |-> {FALSE}, asks |-> {}, parts |-> {}, faults |-> limits]
Used(commits, limits) ==
    [Ldk(1, limits) EXCEPT !.commits = commits, !.closes = TRUE, !.parts = TwoParts]
ClnNode(to, limits) == [Ldk(1, limits) EXCEPT !.node = "cln", !.link = to]

Life == Used(2, NoFaults)
Types == [Ldk(1, OneBreak) EXCEPT !.anchors = BOOLEAN,
                                  !.asks = {client_ecdh, client_sign_invoice, sign_gossip_message}]
Broken == Used(1, [OneBreak EXCEPT !.temporaries = 1, !.large = 1])
Two == Ldk(2, OneBreak)
Again == Ldk(2, [NoFaults EXCEPT !.restarts = 1])
AskAgain ==
    [Ldk(1, [NoFaults EXCEPT !.restarts = 1]) EXCEPT
        !.commits = 2, !.parts = {Part({Htlc(1, "a")}, {Htlc(2, "b")})}]
OverGrpc == ClnNode("grpc", NoFaults)
OverSerial == ClnNode("serial", [NoFaults EXCEPT !.reads = 1, !.repeats = 2])
Follower == [Ldk(0, OneBreak) EXCEPT !.front = TRUE, !.asks = {client_ecdh}]
SerialFollower ==
    [Ldk(1, NoFaults) EXCEPT !.front = TRUE, !.link = "serial", !.commits = 1, !.parts = TwoParts,
                             !.faults.temporaries = 1]

EverySetting ==
    {Life, Types, Broken, Two, Again, AskAgain, OverGrpc, OverSerial, Follower, SerialFollower}

==============================================================================
