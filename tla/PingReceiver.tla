----------------------------- MODULE PingReceiver -----------------------------
(***************************************************************************)
(* The receivers of the application-layer ping, which echo what a server   *)
(* sends them: over TCP, with a child process that pings the POP meanwhile *)
(* (tcp_ping_receiver_pop.c) or without one (tcp_ping_receiver.c), and     *)
(* over UDP (udp_ping_receiver.c).                                         *)
(*                                                                         *)
(* A byte of the TCP stream is its number.  A system call is a step; pc is *)
(* the call that comes next.  The handler is installed with signal(),      *)
(* which restarts recv and send, so a signal is seen only at the loop's    *)
(* head.  The server is external: it sends packets, closes or resets.      *)
(***************************************************************************)
EXTENDS Integers, Sequences, SequencesExt

CONSTANTS
    PktLen,     \* sizeof(ping_pkt_t)
    MaxPkts     \* Packets that arrive

ASSUME PingAssumption == PktLen \in Nat \ {0} /\ MaxPkts \in Nat

VARIABLES tcp, udp

-----------------------------------------------------------------------------
(* The TCP receiver's start *)

Go(r, pc) == [r EXCEPT !.pc = pc]

\* get_pop_ip_from_script: without an address there is no child
GetPopIp(r, ok) == Go([r EXCEPT !.pop = ok], "connect")

\* socket, bind and connect; any of them may fail, and main returns
ConnectServer(r, ok) == Go(r, IF ok THEN "fork" ELSE "failed")

\* start_pop_ping_child
StartChild(r, ok) ==
    Go(IF r.pop /\ ok THEN [r EXCEPT !.pid = TRUE, !.child = "forked"] ELSE r, "loop")

\* The child: setpgid, then exec, which puts the default signal actions back,
\* or fails and exits
ChildStep(r, ok) ==
    [r EXCEPT !.child = IF @ = "forked" THEN "grouped" ELSE IF ok THEN "exec" ELSE "dead"]

-----------------------------------------------------------------------------
(* The echo loop *)

LoopHead(r) ==
    IF r.stop THEN Go(r, "close") ELSE [Go(r, "recv") EXCEPT !.buf = <<>>, !.left = PktLen]

\* read_all: a short read leaves the rest for the next
ReadSome(r, n) ==
    LET s == [r EXCEPT !.buf = @ \o [i \in 1 .. n |-> r.read + i],
                       !.read = @ + n, !.left = @ - n]
    IN Go(s, IF s.left = 0 THEN "check" ELSE "recv")

\* A packet with another magic is skipped
PacketOf(byte) == (byte - 1) \div PktLen + 1

Check(r) ==
    IF r.good[PacketOf(Last(r.buf))] THEN [Go(r, "send") EXCEPT !.left = PktLen]
    ELSE Go(r, "loop")

\* Slip: each send starts at the beginning
SendSomeSlip(r, n) ==
    LET s == [r EXCEPT !.out = @ \o SubSeq(r.buf, 1, n), !.left = @ - n]
    IN Go(s, IF s.left = 0 THEN "loop" ELSE "send")

\* write_all
SendSome(r, n) ==
    LET done == PktLen - r.left
        s == [r EXCEPT !.out = @ \o SubSeq(r.buf, done + 1, done + n), !.left = @ - n]
    IN Go(s, IF s.left = 0 THEN "loop" ELSE "send")

\* A reset is an error, except to a socket whose peer had closed before: then
\* it is EPIPE, and SIGPIPE ends the process
SendFails(r) == Go(r, IF r.fin THEN "killed" ELSE "close")

-----------------------------------------------------------------------------
(* The end *)

\* Slip: the child is stopped only after a signal
CloseSocketSlip(r) == Go(r, IF r.pid /\ r.stop THEN "sigterm" ELSE "plot")

\* close, then stop_pop_ping_child
CloseSocket(r) == Go(r, IF r.pid THEN "sigterm" ELSE "plot")

\* To the child's group, which exists once it has called setpgid.  Before
\* exec the child still has the parent's handler for SIGTERM.
Sigterm(r) == Go([r EXCEPT !.child = IF @ = "exec" THEN "dead" ELSE @], "usleep")

\* Slip: no SIGKILL
SigkillSlip(r) == Go(r, "waitpid")

\* A child that has not called setpgid by then, 200 ms later, is not in the
\* group; late records it
Sigkill(r) ==
    Go([r EXCEPT !.child = IF @ \in {"grouped", "exec"} THEN "dead" ELSE @,
                 !.late = r.child = "forked"], "waitpid")

Waitpid(r) == Go([r EXCEPT !.child = "reaped", !.pid = FALSE], "plot")

-----------------------------------------------------------------------------

TcpInit ==
    tcp = [pc |-> "pop_ip", pop |-> FALSE, stop |-> FALSE, pid |-> FALSE, child |-> "none",
           good |-> <<>>, read |-> 0, buf |-> <<>>, left |-> 0, out |-> <<>>,
           fin |-> FALSE, rst |-> FALSE, late |-> FALSE]

Waiting == Len(tcp.good) * PktLen - tcp.read

\* At a call of main that returns at once
MainStep ==
    \/ \E ok \in BOOLEAN : \/ tcp.pc = "pop_ip" /\ tcp' = GetPopIp(tcp, ok)
                           \/ tcp.pc = "connect" /\ tcp' = ConnectServer(tcp, ok)
                           \/ tcp.pc = "fork" /\ tcp' = StartChild(tcp, ok)
    \/ tcp.pc = "loop" /\ tcp' = LoopHead(tcp)
    \/ tcp.pc = "check" /\ tcp' = Check(tcp)
    \/ tcp.pc = "close" /\ tcp' = CloseSocket(tcp)
    \/ tcp.pc = "sigterm" /\ tcp' = Sigterm(tcp)
    \/ tcp.pc = "usleep" /\ tcp' = Go(tcp, "sigkill")
    \/ tcp.pc = "sigkill" /\ tcp' = Sigkill(tcp)
    \/ tcp.pc = "plot" /\ tcp' = Go(tcp, "exit")

\* What was sent before a close or a reset is read first
RecvStep ==
    /\ tcp.pc = "recv"
    /\ \/ \E n \in 1 .. Min({tcp.left, Waiting}) : tcp' = ReadSome(tcp, n)
       \/ Waiting = 0 /\ (tcp.fin \/ tcp.rst) /\ tcp' = Go(tcp, "close")

SendStep ==
    /\ tcp.pc = "send"
    /\ \/ ~tcp.rst /\ \E n \in 1 .. tcp.left : tcp' = SendSome(tcp, n)
       \/ tcp.rst /\ tcp' = SendFails(tcp)

WaitStep == tcp.pc = "waitpid" /\ tcp.child = "dead" /\ tcp' = Waitpid(tcp)

Child == tcp.child \in {"forked", "grouped"} /\ \E ok \in BOOLEAN : tcp' = ChildStep(tcp, ok)

Ended == tcp.pc \in {"exit", "failed", "killed"}

Signal == ~Ended /\ ~tcp.stop /\ tcp' = [tcp EXCEPT !.stop = TRUE]

Connected == tcp.pc \in {"fork", "loop", "recv", "check", "send"}

ServerSends(good) ==
    /\ Connected /\ ~tcp.fin /\ ~tcp.rst /\ Len(tcp.good) < MaxPkts
    /\ tcp' = [tcp EXCEPT !.good = Append(@, good)]

\* A server that has closed resets the connection when an echo reaches it
ServerCloses ==
    \/ Connected /\ ~tcp.fin /\ ~tcp.rst /\ tcp' = [tcp EXCEPT !.fin = TRUE]
    \/ Connected /\ ~tcp.rst /\ (tcp.fin => tcp.out # <<>>) /\ tcp' = [tcp EXCEPT !.rst = TRUE]

ServerStep == ServerCloses \/ \E good \in BOOLEAN : ServerSends(good)

TcpNext == MainStep \/ RecvStep \/ SendStep \/ WaitStep \/ Child \/ Signal \/ ServerStep

\* The processes run, and the server sends or closes in the end.
TcpFairness ==
    WF_tcp(MainStep \/ RecvStep \/ SendStep \/ WaitStep) /\ WF_tcp(Child) /\ WF_tcp(ServerStep)

-----------------------------------------------------------------------------
(* The UDP receiver *)

Datagrams == [size : {"short", "whole", "long"}, magic : BOOLEAN]

UdpInit ==
    udp = [registered |-> FALSE, arrived |-> 0, buf |-> [magic |-> FALSE, seq |-> 0],
           echoed |-> <<>>]

\* A REGISTER is sent once; it may be lost
Register(ok) == ~udp.registered /\ udp' = [udp EXCEPT !.registered = ok]

\* recvfrom into the one buffer: a longer datagram is cut to the size of a
\* packet, a shorter one leaves the end of the packet before in place
Received(buf, d, n) == [magic |-> d.magic, seq |-> IF d.size = "short" THEN buf.seq ELSE n]

Echo(d, buf) == IF d.size # "short" /\ buf.magic THEN <<buf.seq>> ELSE <<>>

UdpRecv(d) ==
    LET n   == udp.arrived + 1
        buf == Received(udp.buf, d, n)
    IN /\ n <= MaxPkts
       /\ udp' = [udp EXCEPT !.arrived = n, !.buf = buf, !.echoed = @ \o Echo(d, buf)]

UdpNext == (\E ok \in BOOLEAN : Register(ok)) \/ \E d \in Datagrams : UdpRecv(d)

-----------------------------------------------------------------------------
(* Properties *)

\* The bytes of the packets with the right magic
Goods == {b \in 1 .. Len(tcp.good) * PktLen : tcp.good[PacketOf(b)]}

InOrder(s) == \A i, j \in DOMAIN s : i < j => s[i] < s[j]

\* What was echoed is a prefix of the packets with the right magic, byte for
\* byte, however recv and send cut the stream: in order, nothing else, and
\* nothing left out before the last.  Over UDP a ping is echoed at most once,
\* in the order of arrival: never the one before it, which is still in the
\* buffer.
EchoesIntact ==
    /\ InOrder(tcp.out)
    /\ Range(tcp.out) \subseteq Goods
    /\ \A b \in Goods, e \in Range(tcp.out) : b < e => b \in Range(tcp.out)
    /\ InOrder(udp.echoed)
    /\ \A i \in DOMAIN udp.echoed : udp.echoed[i] > 0

\* When main returns, the child that pings the POP is dead and waited for;
\* only SIGPIPE, when an echo meets a reset after the server's close, ends the
\* receiver without that.
NoPopOrphan ==
    /\ tcp.pc = "exit" => tcp.child \in {"none", "reaped"}
    /\ tcp.pc = "failed" => tcp.child = "none"
    /\ tcp.pc = "killed" => tcp.fin /\ tcp.rst

\* A receiver that was told to stop ends, with its child, once the server has
\* sent something more or closed: the signal does not interrupt recv.  Only a
\* child so late that neither kill finds its group keeps it in waitpid.
StopEnds == tcp.stop ~> Ended \/ tcp.late
=============================================================================
