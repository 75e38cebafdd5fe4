------------------------------ MODULE TcpSender ------------------------------
(***************************************************************************)
(* The sending side of a TCP connection: tcp_output.c's transmit,          *)
(* retransmit, loss-probe, window-probe, MTU-probe, connect and FIN paths  *)
(* over the two queues of TcpSkb.  This is the peer of the receive-window  *)
(* controller: the window it is offered may shrink, below what it has      *)
(* already sent and down to zero.                                          *)
(*                                                                         *)
(* Every action runs under the socket lock.  What else decides how far a   *)
(* handler gets (pacing, small queues, memory, routing, the device) is the *)
(* environment env of the call: room buffers are sent, then one attempt    *)
(* fails early (before the buffer is touched), mid (trimmed, not cut) or   *)
(* late (cut, then not sent).  tcp_input.c and tcp_timer.c, which call     *)
(* this code, are external.                                                *)
(***************************************************************************)
EXTENDS TcpSkb, FiniteSets

CONSTANTS
    Msses,          \* Segment sizes the path allows, from the largest down
    MaxData,        \* Bytes the application writes
    WriteSizes,     \* Bytes of one send()
    Windows,        \* Windows the peer may advertise
    Cwnds,          \* Congestion windows
    MaxSegs,        \* tcp_tso_segs
    TsoWinDivisor,  \* sysctl_tcp_tso_win_divisor, 0 for none
    MtuProbing,     \* sysctl_tcp_mtu_probing
    ProbeCwnd,      \* Congestion window an MTU probe needs, 11 in the code
    Reordering,     \* tp->reordering
    FastOpenSizes,  \* Bytes of data with the SYN, -1 without Fast Open
    Nagles,         \* Nagle settings of the socket: sets of "off" and "cork"
    Env             \* Environments of a call: room buffers pass, the next fails
                    \* as how says; wait: there is time to grow a TSO buffer;
                    \* so many buffers as join says can be joined to another

ASSUME SenderAssumption ==
    /\ Msses \subseteq Nat \ {0, 1} /\ Msses # {} /\ IsFiniteSet(Msses)
    /\ MaxData \in Nat /\ MaxSegs \in Nat \ {0}
    /\ WriteSizes \subseteq Nat \ {0} /\ FastOpenSizes \subseteq -1 .. MaxData
    /\ Windows \subseteq Nat /\ Cwnds \subseteq Nat \ {0}
    /\ TsoWinDivisor \in Nat /\ Reordering \in Nat /\ ProbeCwnd \in Nat \ {0, 1}
    /\ Nagles \subseteq SUBSET {"off", "cork"}
    /\ MtuProbing \in BOOLEAN
    /\ Env \subseteq [room : Nat, how : {"early", "mid", "late"}, wait : BOOLEAN,
                     join : Nat]

VARIABLES
    sk,         \* The socket
    untrimmed   \* History: tcp_trim_head has failed for memory at an ACK that
                \* ended inside a buffer of several segments

-----------------------------------------------------------------------------
(* May the buffer at the head of the write queue be sent? *)

CwndQuota(s, skb) ==
    IF skb.fin /\ skb.pc = 1 THEN 1
    ELSE IF InFlight(s) >= s.cwnd THEN 0
    ELSE Min({Max({s.cwnd \div 2, 1}), s.cwnd - InFlight(s)})

SndWndTest(s, skb, mss) ==
    (IF Size(skb) > mss THEN skb.seq + mss ELSE skb.end) <= WndEnd(s)

\* Minshall: a small segment is still unacknowledged
MinshallCheck(s) == s.sml > s.una /\ s.sml <= s.nxt

NagleCheck(s, partial, nonagle) ==
    partial /\ ("cork" \in nonagle
                \/ (nonagle = {} /\ s.packets_out > 0 /\ MinshallCheck(s)))

NagleTest(s, skb, mss, nonagle) ==
    skb.fin \/ ~NagleCheck(s, Size(skb) < mss, nonagle)

IsLast(s) == Len(s.wq) = 1

MssSplitPoint(s, skb, mss, segs, nonagle) ==
    LET window == WndEnd(s) - skb.seq
        needed == Min({Size(skb), window})
        part   == needed % mss
    IN IF \/ mss * segs <= window /\ ~IsLast(s)
          \/ mss * segs <= needed THEN mss * segs
       ELSE IF NagleCheck(s, part # 0, nonagle) THEN needed - part
       ELSE needed

TsoShouldDefer(s, skb, wait) ==
    LET send  == WndEnd(s) - skb.seq
        cong  == (s.cwnd - InFlight(s)) * s.mss
        limit == Min({send, cong})
        enough == IF TsoWinDivisor > 0
                  THEN limit >= Min({s.wnd, s.cwnd * s.mss}) \div TsoWinDivisor
                  ELSE limit > 3 * s.mss
    IN /\ s.ca = "Open"
       /\ wait
       /\ limit < MaxSegs * s.mss
       /\ IsLast(s) \/ limit < Size(skb)
       /\ ~enough
       /\ s.rtx # <<>>
       /\ \/ (IF cong < send THEN cong ELSE send) <= Size(skb)
          \/ ~skb.fin

-----------------------------------------------------------------------------
(* Sending new data *)

\* One turn of the loop of tcp_write_xmit, with at least one buffer queued
XmitOne(acc, mss, nonagle, pushOne, env) ==
    LET skb   == InitTsoSegs(Head(acc.sk.wq), mss)
        s     == [acc.sk EXCEPT !.wq = Spliced(@, 1, <<skb>>)]
        quota == Max({CwndQuota(s, skb), Bit(pushOne = 2)})
        stop(x) == [acc EXCEPT !.sk = x, !.go = FALSE]
        limit == IF skb.pc > 1
                 THEN MssSplitPoint(s, skb, mss, Min({quota, MaxSegs}), nonagle)
                 ELSE mss
        cut   == IF Size(skb) > limit THEN TsoFragment(s, limit, mss) ELSE s
        out   == Head(cut.wq)
        sent  == EventNewDataSent(Transmit(cut, out))
    IN IF acc.room = 0 /\ env.how = "early" THEN stop(acc.sk)
       ELSE IF \/ quota = 0
               \/ ~SndWndTest(s, skb, mss)
               \/ skb.pc = 1 /\ IsLast(s) /\ ~NagleTest(s, skb, mss, nonagle)
               \/ skb.pc > 1 /\ pushOne = 0 /\ TsoShouldDefer(s, skb, env.wait)
               \/ acc.room = 0 /\ env.how = "mid" THEN stop(s)
       ELSE IF acc.room = 0 \/ out.seq = out.end THEN stop(cut)
       ELSE [sk   |-> [sent EXCEPT !.sml = IF Size(out) < out.pc * mss
                                           THEN out.end ELSE @],
             room |-> acc.room - 1, sent |-> acc.sent + out.pc, go |-> pushOne = 0]

\* The middle of the search range, for which any size above the MSS may stand
ProbeSize(s) == s.mss + 1

\* 1: a probe is sent, 0: wait for room to send one, -1: do not probe, or
\* the buffers cannot be joined to one
MtuProbeVerdict(s, joins) ==
    LET needed == ProbeSize(s) + (Reordering + 1) * s.mss
    IN IF \/ ~MtuProbing \/ s.mtup # 0 \/ s.ca # "Open" \/ s.cwnd < ProbeCwnd
          \/ s.wseq - s.nxt < needed \/ s.wnd < needed THEN -1
       ELSE IF s.nxt + needed > WndEnd(s) THEN 0
       ELSE IF InFlight(s) + 2 > s.cwnd THEN (IF InFlight(s) = 0 THEN -1 ELSE 0)
       ELSE IF joins THEN 1 ELSE -1

\* Slip: the buffer that was taken in part is not trimmed
AfterProbeSlip(rest, stop, mss) == rest

\* What the probe leaves of the write queue
AfterProbe(rest, stop, mss) ==
    LET first == Head(rest)
    IN IF rest # <<>> /\ first.seq < stop
       THEN Spliced(rest, 1, <<SetTsoSegs([first EXCEPT !.seq = stop], mss)>>)
       ELSE rest

\* The first ProbeSize bytes of the write queue as one buffer, in place of
\* the buffers it swallows
MtuProbeQueue(s) ==
    LET start == Head(s.wq).seq
        stop  == start + ProbeSize(s)
        Eaten(b) == b.seq < stop /\ b.seq + Size(b) <= stop
        probe == [NewSkb(start, stop) EXCEPT !.pc = 1,
                     !.fin = \E i \in DOMAIN s.wq : Eaten(s.wq[i]) /\ s.wq[i].fin]
        first == Min({i \in DOMAIN s.wq : ~Eaten(s.wq[i])})
    IN <<probe>> \o AfterProbe(SubSeq(s.wq, first, Len(s.wq)), stop, s.mss)

\* After the loop: the socket, and whether nothing is in flight and nothing
\* could be sent
EndOfXmit(end, pushOne) ==
    LET done == IF end.sent > 0 /\ pushOne # 2
                THEN ScheduleLossProbe(end.sk) ELSE end.sk
    IN [sk |-> done, stuck |-> end.sent = 0 /\ done.packets_out = 0 /\ done.wq # <<>>]

WriteXmit(s, mss, nonagle, pushOne, env) ==
    LET verdict == IF pushOne = 0 THEN MtuProbeVerdict(s, env.join > 0) ELSE -1
        built   == IF verdict = 1 /\ (env.room > 0 \/ env.how # "early")
                   THEN [s EXCEPT !.wq = MtuProbeQueue(s)] ELSE s
        probe   == Head(built.wq)
        probed  == verdict = 1 /\ env.room > 0
        s0      == IF ~probed THEN built
                   ELSE [EventNewDataSent(Transmit(built, probe))
                           EXCEPT !.cwnd = @ - 1, !.mtup = probe.end]
        Turn(acc, n) == IF acc.go /\ acc.sk.wq # <<>>
                        THEN XmitOne(acc, mss, nonagle, pushOne, env) ELSE acc
        start   == [sk |-> s0, room |-> env.room - Bit(probed),
                    sent |-> Bit(probed), go |-> TRUE]
    IN IF verdict = 0 THEN [sk |-> s, stuck |-> FALSE]
       ELSE EndOfXmit(Iterate(Turn, start, s0.wseq - s0.nxt + 1), pushOne)

\* Slip: no timer probes the closed window
PushPendingFramesSlip(s, nonagle, env) ==
    IF s.state = "CLOSE" THEN s ELSE WriteXmit(s, s.mss, nonagle, 0, env).sk

PushPendingFrames(s, nonagle, env) ==
    LET Checked(r) == IF r.stuck THEN CheckProbeTimer(r.sk) ELSE r.sk
    IN IF s.state = "CLOSE" THEN s ELSE Checked(WriteXmit(s, s.mss, nonagle, 0, env))

-----------------------------------------------------------------------------
(* Retransmitting *)

\* A SYN that was acknowledged is dropped before the trim
Unacked(skb, una) ==
    LET noSyn == IF skb.syn /\ skb.seq < una
                 THEN [skb EXCEPT !.syn = FALSE, !.seq = @ + 1] ELSE skb
    IN IF noSyn.seq < una THEN TrimHead(noSyn, una) ELSE noSyn

\* Slip: a part of a segment is not cut to the window
ResendLengthSlip(mss, segs, avail) ==
    IF mss * segs <= avail \/ avail < mss THEN mss * segs ELSE avail - (avail % mss)

\* Whole segments, as many as asked for and as fit, or a part of one
ResendLength(mss, segs, avail) ==
    IF mss * segs <= avail THEN mss * segs
    ELSE IF avail < mss THEN avail ELSE avail - (avail % mss)

\* __tcp_retransmit_skb on buffer i: the socket, and whether it was sent
RetransmitOne(s0, i, segs, env) ==
    LET busy  == [Assert_(s0, s0.rtx[i].end >= s0.una)
                    EXCEPT !.mtup = IF @ > 0 THEN 0 ELSE @]
        skb   == Unacked(s0.rtx[i], s0.una)
        s     == [busy EXCEPT !.rtx = Spliced(@, i, <<skb>>)]
        room  == WndEnd(s) - skb.seq
        avail == IF room <= 0 THEN s.mss ELSE room
        len   == ResendLength(s.mss, segs, avail)
        whole == LET t == SetTsoSegs(skb, s.mss)
                 IN AdjustPcount([s EXCEPT !.rtx = Spliced(@, i, <<t>>)],
                                 skb, skb.pc - t.pc)
        cut   == IF Size(skb) > len THEN Fragment(s, "rtx", i, len, s.mss)
                 ELSE IF Size(skb) < Min({avail, s.mss})
                 THEN RetransTryCollapse(whole, i, Min({avail, s.mss}), env.join)
                 ELSE whole
        fails(how) == env.room = 0 /\ env.how = how
    IN IF fails("early") \/ s0.rtx[i].end < s0.una THEN [sk |-> busy, ok |-> FALSE]
       ELSE IF fails("mid") \/ (room <= 0 /\ skb.seq # s.una)
       THEN [sk |-> s, ok |-> FALSE]
       ELSE IF fails("late") THEN [sk |-> cut, ok |-> FALSE]
       ELSE [sk |-> Transmit(cut, cut.rtx[i]), ok |-> TRUE]

MarkRetrans(r, i) ==
    LET skb    == r.sk.rtx[i]
        Marked(s) == [Assert_(s, ~skb.retrans) EXCEPT
                        !.rtx = Spliced(@, i, <<[skb EXCEPT !.retrans = TRUE]>>),
                        !.retrans_out = @ + skb.pc]
    IN IF r.ok THEN [r EXCEPT !.sk = Marked(r.sk)] ELSE r

RetransmitSkb(s, i, segs, env) == MarkRetrans(RetransmitOne(s, i, segs, env), i)

\* Slip: the hint runs one buffer ahead
ScanHintSlip(hint, hole, i) == IF hole THEN hint ELSE i + 1

\* The hint follows the scan up to the first hole
ScanHint(hint, hole, i) == IF hole THEN hint ELSE i

\* One turn of the scan: buffer acc.i, with hole when one before it was skipped
VisitRtx(acc, env) ==
    LET at  == [acc.sk EXCEPT !.hint = ScanHint(@, acc.hole, acc.i)]
        skb == at.rtx[acc.i]
        quota == at.cwnd - InFlight(at)
        stop(x) == [acc EXCEPT !.sk = x, !.go = FALSE]
        Resent(r) == IF ~r.ok THEN stop(r.sk)
                     ELSE [acc EXCEPT !.sk = r.sk, !.i = @ + 1, !.room = @ - 1,
                             !.rearm = @ \/ (acc.i = 1 /\ at.pending # "reo")]
    IN IF ~acc.go \/ acc.i > Len(acc.sk.rtx) THEN acc
       ELSE IF acc.room = 0 /\ env.how = "early" THEN stop(acc.sk)
       ELSE IF quota <= 0 \/ at.retrans_out >= at.lost_out THEN stop(at)
       ELSE IF ~skb.lost \/ skb.acked \/ skb.retrans
       THEN [acc EXCEPT !.sk = at, !.i = @ + 1,
               !.hole = @ \/ ~(skb.lost \/ skb.acked \/ skb.retrans)]
       ELSE Resent(RetransmitSkb(at, acc.i, Min({quota, MaxSegs}),
                                 [env EXCEPT !.room = acc.room]))

\* From the hint on, what is marked lost and not yet retransmitted.
XmitRetransmitQueue(s, env) ==
    LET start == [sk |-> s, i |-> Max({s.hint, 1}), hole |-> FALSE,
                  room |-> env.room, rearm |-> FALSE, go |-> TRUE]
        Rearmed(end) == [end.sk EXCEPT !.pending = IF end.rearm THEN "retrans" ELSE @]
    IN IF s.packets_out = 0 THEN s
       ELSE Rearmed(Iterate(LAMBDA acc, n : VisitRtx(acc, env), start, MaxData + 2))

\* New data if the window lets it, else the last segment once more
SendLossProbe(s, env) ==
    LET n    == Len(s.rtx)
        last == s.rtx[n]
        cuts == last.pc > 1 /\ Size(last) > (last.pc - 1) * s.mss
        tail == IF cuts THEN Fragment(s, "rtx", n, (last.pc - 1) * s.mss, s.mss) ELSE s
        Sent(x) == RearmRto([x EXCEPT !.tlp = x.nxt, !.pending = "none"])
        Written(x) == IF x.packets_out > s.packets_out THEN Sent(x) ELSE RearmRto(x)
        Resent(r)  == IF r.ok THEN Sent(r.sk) ELSE RearmRto(r.sk)
    IN IF s.tlp # 0 THEN RearmRto(s)
       ELSE IF s.wq # <<>> /\ SndWndTest(s, Head(s.wq), s.mss)
       THEN Written(WriteXmit(s, s.mss, {"off"}, 2, env).sk)
       ELSE IF n = 0 THEN Assert_([s EXCEPT !.pending = "none"], s.packets_out = 0)
       ELSE IF env.room = 0 /\ env.how = "early" THEN RearmRto(s)
       ELSE Resent(RetransmitOne(tail, Len(tail.rtx), 1, env))

-----------------------------------------------------------------------------
(* Window probes *)

\* A full or partial segment where the window has room for one, else an
\* empty segment below snd_una, which the peer must answer
WriteWakeup(s, env) ==
    LET skb  == Head(s.wq)
        fit  == WndEnd(s) - skb.seq
        cut  == IF fit < skb.end - skb.seq \/ Size(skb) > s.mss
                THEN Fragment(s, "wq", 1, Min({fit, s.mss}), s.mss)
                ELSE IF skb.pc = 0
                THEN [s EXCEPT !.wq = Spliced(@, 1, <<SetTsoSegs(skb, s.mss)>>)]
                ELSE s
    IN IF s.wq # <<>> /\ skb.seq < WndEnd(s)
       THEN IF env.room > 0 THEN EventNewDataSent(Transmit(cut, Head(cut.wq)))
            ELSE IF env.how = "late" THEN cut ELSE s
       ELSE IF env.room > 0
       THEN Transmit(s, [NewSkb(s.una - 1, s.una - 1) EXCEPT !.pc = 1])
       ELSE s

\* Slip: the timer is armed again only if the probe went out
SendProbe0Slip(s, env) ==
    LET after == WriteWakeup(s, env)
    IN IF env.room = 0 THEN after ELSE [after EXCEPT !.pending = "probe0"]

SendProbe0(s, env) ==
    LET after == WriteWakeup(s, env)
    IN IF after.packets_out > 0 \/ after.wq = <<>> THEN after
       ELSE [after EXCEPT !.pending = "probe0"]

-----------------------------------------------------------------------------
(* Loss marks and acknowledgements, by tcp_input.c *)

\* tcp_mark_skb_lost
MarkLost(s, i) ==
    LET skb  == s.rtx[i]
        hint == IF \/ s.hint = 0 /\ s.retrans_out >= s.lost_out
                   \/ s.hint > i THEN i ELSE s.hint
        mark(b) == [s EXCEPT !.rtx = Spliced(@, i, <<b>>), !.hint = hint]
    IN IF skb.acked THEN s
       ELSE IF ~skb.lost
       THEN [mark([skb EXCEPT !.lost = TRUE]) EXCEPT !.lost_out = @ + skb.pc]
       ELSE IF skb.retrans
       THEN [mark([skb EXCEPT !.retrans = FALSE]) EXCEPT !.retrans_out = @ - skb.pc]
       ELSE mark(skb)

MarkAll(s, I) ==
    Iterate(LAMBDA t, i : IF i \in I THEN MarkLost(t, i) ELSE t, s, Len(s.rtx))

\* tcp_sacktag_one
SackOne(s, i) ==
    LET skb == s.rtx[i]
    IN [s EXCEPT !.rtx = Spliced(@, i, <<[skb EXCEPT !.acked = TRUE, !.lost = FALSE,
                                                     !.retrans = FALSE]>>),
                 !.sacked_out  = @ + skb.pc,
                 !.lost_out    = @ - skb.pc * Bit(skb.lost),
                 !.retrans_out = @ - skb.pc * Bit(skb.retrans)]

\* Slip: a trim that failed is counted as if it had been made
CleanRtxQueueSlip(s, ack, trims) ==
    LET Leave(t, n) ==
            IF t.rtx = <<>> \/ Head(t.rtx).end > ack THEN t
            ELSE [AdjustPcount(t, Head(t.rtx), Head(t.rtx).pc)
                    EXCEPT !.rtx = Tail(@), !.hint = Max({@ - 1, 0})]
        left   == Iterate(Leave, s, Len(s.rtx))
        skb    == Head(left.rtx)
        rest   == TrimHead(skb, ack)
    IN [IF left.rtx # <<>> /\ skb.pc > 1 /\ skb.seq < ack
        THEN [AdjustPcount(left, skb, skb.pc - rest.pc)
                EXCEPT !.rtx = IF trims THEN Spliced(@, 1, <<rest>>) ELSE @]
        ELSE left
        EXCEPT !.una = ack]

\* tcp_clean_rtx_queue: fully acknowledged buffers leave, a TSO buffer that is
\* acknowledged in part is trimmed unless trimming fails
CleanRtxQueue(s, ack, trims) ==
    LET Leave(t, n) ==
            IF t.rtx = <<>> \/ Head(t.rtx).end > ack THEN t
            ELSE [AdjustPcount(t, Head(t.rtx), Head(t.rtx).pc)
                    EXCEPT !.rtx = Tail(@), !.hint = Max({@ - 1, 0})]
        left   == Iterate(Leave, s, Len(s.rtx))
        skb    == Head(left.rtx)
        rest   == TrimHead(skb, ack)
    IN [IF left.rtx # <<>> /\ skb.pc > 1 /\ skb.seq < ack /\ trims
        THEN [AdjustPcount(left, skb, skb.pc - rest.pc)
                EXCEPT !.rtx = Spliced(@, 1, <<rest>>)]
        ELSE left
        EXCEPT !.una = ack]

\* ack ends inside a buffer of several segments
NeedsTrim(s, ack) ==
    \E i \in DOMAIN s.rtx : s.rtx[i].pc > 1 /\ ack \in s.rtx[i].seq + 1 .. s.rtx[i].end - 1

\* tcp_ack_probe: the answer to a window probe
AckProbe(s) ==
    IF s.wq = <<>> THEN s
    ELSE [s EXCEPT !.pending = IF Head(s.wq).end <= WndEnd(s)
                               THEN "none" ELSE "probe0"]

Recovering(s) == s.ca # "Open"

DataSndCheck(s, env) ==
    LET rest == [env EXCEPT !.room = Max({@ - Cardinality(s.tx), 0})]
    IN IF s.wq = <<>> THEN s ELSE PushPendingFrames(s, s.nonagle, rest)

\* tcp_xmit_recovery and tcp_data_snd_check, at the end of every ACK
AfterAck(s, env) ==
    DataSndCheck(IF Recovering(s) THEN XmitRetransmitQueue(s, env) ELSE s, env)

Fresh(s) == [s EXCEPT !.tx = {}]

-----------------------------------------------------------------------------
(* The calls of the stack *)

Closed ==
    [state |-> "CLOSE", una |-> 0, nxt |-> 0, wseq |-> 0, wnd |-> 0, cwnd |-> 1,
     mss |-> Max(Msses), packets_out |-> 0, lost_out |-> 0, retrans_out |-> 0,
     sacked_out |-> 0, rtx |-> <<>>, wq |-> <<>>, sml |-> 0, tlp |-> 0,
     pending |-> "none", hint |-> 0, ca |-> "Open", nonagle |-> {}, mtup |-> 0,
     tx |-> {}, bug |-> FALSE]

SenderInit ==
    /\ sk \in {[Closed EXCEPT !.nonagle = n] : n \in Nagles}
    /\ untrimmed = FALSE

ConnectQueueSkb(s, skb) == [s EXCEPT !.wseq = skb.end, !.packets_out = @ + skb.pc]

\* tcp_send_syn_data: SYN and data as one segment, kept as a SYN and a data
\* buffer behind it.  When it could not be sent, the data waits in the write
\* queue and the SYN goes alone.
SendSynData(s, syn, space, ok) ==
    LET data   == [NewSkb(syn.end, syn.end + space) EXCEPT !.pc = 1]
        queued == ConnectQueueSkb(s, data)
    IN IF ok
       THEN [queued EXCEPT !.rtx = Append(@, data),
               !.tx = {[seq |-> syn.seq, end |-> data.end, fin |-> FALSE]}]
       ELSE Transmit([queued EXCEPT !.wq = <<data>>, !.packets_out = @ - data.pc], syn)

\* tcp_connect; space is -1 without Fast Open, or when it falls back
Connect(space, ok) ==
    LET syn  == ControlSkb(sk.wseq, "SYN")
        s    == ConnectQueueSkb([Fresh(sk) EXCEPT !.state = "SYN_SENT", !.rtx = <<syn>>,
                                                  !.sml = 0], syn)
        sent == IF space >= 0 THEN SendSynData(s, syn, space, ok) ELSE Transmit(s, syn)
    IN /\ sk.state = "CLOSE" /\ sk.wseq = 0
       /\ sk' = [sent EXCEPT !.nxt = IF sent.wq = <<>> THEN sent.wseq
                                     ELSE Head(sent.wq).seq,
                             !.pending = "retrans"]

\* tcp_sendmsg: the bytes join the last buffer of the write queue while it is
\* smaller than a TSO packet, and are pushed
Sendmsg(n, env) ==
    LET tail == Last(sk.wq)
        fits == sk.wq # <<>> /\ Size(tail) + n <= MaxSegs * sk.mss
        more == [tail EXCEPT !.end = @ + n, !.pc = 0]
        wq   == IF fits THEN Append(Front(sk.wq), more)
                ELSE Append(sk.wq, NewSkb(sk.wseq, sk.wseq + n))
    IN /\ sk.state = "ESTABLISHED"
       /\ sk.wseq + n <= MaxData + 1
       /\ sk' = PushPendingFrames([Fresh(sk) EXCEPT !.wq = wq, !.wseq = @ + n],
                                  sk.nonagle, env)

\* Clearing TCP_CORK pushes what was held back
Uncork(env) ==
    /\ sk.state # "CLOSE" /\ "cork" \in sk.nonagle
    /\ sk' = LET s == [Fresh(sk) EXCEPT !.nonagle = {}]
             IN IF s.wq = <<>> \/ s.state = "SYN_SENT" THEN s
                ELSE PushPendingFrames(s, {"off"}, env)

\* Slip: the FIN takes no sequence number
FinOnTailSlip(s, q) ==
    LET last == [Last(s[q]) EXCEPT !.fin = TRUE, !.end = @ + 1]
    IN [s EXCEPT ![q] = Append(Front(@), last)]

FinOnTail(s, q) ==
    LET last == [Last(s[q]) EXCEPT !.fin = TRUE, !.end = @ + 1]
    IN [s EXCEPT !.wseq = @ + 1, ![q] = Append(Front(@), last)]

\* tcp_send_fin: on the last unsent buffer, or under memory pressure on the
\* last one already sent, as if it had been sent with it, or in its own
SendFin(pressure, alloc, env) ==
    LET onTail == FinOnTail(Fresh(sk), "wq")
        onSent == [FinOnTail(Fresh(sk), "rtx") EXCEPT !.nxt = @ + 1]
        alone  == [Fresh(sk) EXCEPT !.wseq = @ + 1,
                     !.wq = <<ControlSkb(sk.wseq, "FIN")>>]
        Shut(s) == [s EXCEPT !.state = "FIN_WAIT1"]
    IN /\ sk.state = "ESTABLISHED"
       /\ sk' = IF sk.wq # <<>> THEN Shut(PushPendingFrames(onTail, {"off"}, env))
                ELSE IF pressure /\ sk.rtx # <<>> THEN Shut(onSent)
                ELSE IF ~alloc THEN Shut(Fresh(sk))
                ELSE Shut(PushPendingFrames(alone, {"off"}, env))

\* An ACK that carries a new number, window or neither.  A window is taken
\* with a new number or when it is larger.
RecvAck(ack, wnd, cwnd, trims, env) ==
    LET acked == CleanRtxQueue(Fresh(sk), ack, trims)
        s     == [acked EXCEPT
                    !.wnd  = IF ack > sk.una \/ wnd > sk.wnd THEN wnd ELSE @,
                    !.cwnd = cwnd,
                    !.tlp  = IF ack >= @ THEN 0 ELSE @,
                    !.mtup = IF @ > 0 /\ ack >= @ THEN -1 ELSE @,
                    !.ca   = IF acked.lost_out = 0 THEN "Open" ELSE @]
        timed == IF sk.packets_out = 0 THEN AckProbe(s)
                 ELSE IF s.packets_out = sk.packets_out THEN s
                 ELSE IF CanProbeLoss(s) THEN ScheduleLossProbe(s) ELSE RearmRto(s)
    IN /\ sk.state \in {"ESTABLISHED", "FIN_WAIT1"}
       /\ ack \in sk.una .. sk.nxt
       /\ sk' = AfterAck(timed, env)

\* The SYN-ACK.  Fast Open data it does not acknowledge is lost.
RecvSynAck(ack, wnd, cwnd, env) ==
    LET acked == CleanRtxQueue(Fresh(sk), ack, TRUE)
        s     == [acked EXCEPT !.wnd = wnd, !.cwnd = cwnd, !.state = "ESTABLISHED",
                     !.ca = "Open"]
        timed == RearmRto(s)
        lost  == [MarkAll(timed, DOMAIN timed.rtx) EXCEPT !.ca = "Loss"]
    IN /\ sk.state = "SYN_SENT"
       /\ ack \in 1 .. sk.nxt
       /\ sk' = AfterAck(IF s.rtx # <<>> THEN lost ELSE timed, env)

\* A duplicate ACK that SACKs buffer i; RACK finds buffer l lost, or arms the
\* reordering timer
RecvSack(i, l, reo, env) ==
    LET s == SackOne(Fresh(sk), i)
        m == IF l = 0 THEN (IF reo THEN [s EXCEPT !.pending = "reo"] ELSE s)
             ELSE [MarkLost(s, l) EXCEPT !.ca = IF @ = "Open" THEN "Recovery" ELSE @]
    IN /\ sk.state \in {"ESTABLISHED", "FIN_WAIT1"}
       /\ ~sk.rtx[i].acked /\ sk.rtx[i].seq > sk.una
       /\ l > 0 => l < i /\ ~sk.rtx[l].acked
       /\ sk' = AfterAck(m, env)

\* tcp_retransmit_timer: everything, or the head alone, is lost
RtoFires(all, env) ==
    LET s    == [Fresh(sk) EXCEPT !.pending = "none", !.tlp = 0]
        reneg == s.rtx # <<>> /\ Head(s.rtx).acked
        clean == IF reneg
                 THEN [s EXCEPT !.sacked_out = 0,
                         !.rtx = [i \in DOMAIN @ |-> [@[i] EXCEPT !.acked = FALSE]]]
                 ELSE s
        lost == MarkAll(clean, IF all \/ reneg THEN DOMAIN s.rtx ELSE {1})
        loss == [lost EXCEPT !.hint = 0, !.ca = "Loss", !.cwnd = InFlight(lost) + 1]
    IN /\ sk.pending = "retrans"
       /\ sk' = IF s.packets_out = 0 THEN s
                ELSE IF s.rtx = <<>> THEN Assert_(s, FALSE)
                ELSE [RetransmitSkb(loss, 1, 1, env).sk EXCEPT !.pending = "retrans"]

LossProbeFires(env) ==
    /\ sk.pending = "loss_probe"
    /\ sk' = SendLossProbe(Fresh(sk), env)

\* tcp_probe_timer
Probe0Fires(env) ==
    LET s == [Fresh(sk) EXCEPT !.pending = "none"]
    IN /\ sk.pending = "probe0"
       /\ sk' = IF s.packets_out > 0 \/ s.wq = <<>> THEN s ELSE SendProbe0(s, env)

\* tcp_rack_reo_timeout
ReoFires(l, env) ==
    LET m == [MarkLost(Fresh(sk), l) EXCEPT !.ca = IF @ = "Open" THEN "Recovery" ELSE @]
        s == XmitRetransmitQueue(m, env)
    IN /\ sk.pending = "reo"
       /\ sk' = IF s.pending # "retrans" THEN RearmRto(s) ELSE s

\* tcp_tsq_write: the queues below have drained, or the pacing timer fired
TsqWrite(env) ==
    LET s == IF sk.lost_out > sk.retrans_out /\ sk.cwnd > InFlight(sk)
             THEN XmitRetransmitQueue(Fresh(sk), env) ELSE Fresh(sk)
    IN /\ sk.state \in {"ESTABLISHED", "FIN_WAIT1"}
       /\ sk' = WriteXmit(s, s.mss, s.nonagle, 0, env).sk

\* tcp_v4_mtu_reduced, with tcp_simple_retransmit: buffers whose segments are
\* larger than the new size are lost
MtuReduced(mss, env) ==
    LET s    == [Fresh(sk) EXCEPT !.mss = mss]
        big  == {i \in DOMAIN s.rtx : s.rtx[i].pc > 0
                   /\ (IF s.rtx[i].pc = 1 THEN Size(s.rtx[i]) ELSE s.rtx[i].gso) > mss}
        lost == MarkAll(s, big)
    IN /\ sk.state \in {"ESTABLISHED", "FIN_WAIT1"}
       /\ mss < sk.mss
       /\ sk' = IF lost.lost_out = s.lost_out THEN lost
                ELSE XmitRetransmitQueue([lost EXCEPT !.ca = "Loss"], env)

Application(env) ==
    \/ \E n \in WriteSizes : Sendmsg(n, env)
    \/ Uncork(env)
    \/ \E pressure, alloc \in BOOLEAN : SendFin(pressure, alloc, env)

Acknowledgements(env) ==
    \E ack \in sk.una .. sk.nxt, wnd \in Windows, cwnd \in Cwnds :
        \/ /\ RecvAck(ack, wnd, cwnd, TRUE, env) \/ RecvSynAck(ack, wnd, cwnd, env)
           /\ UNCHANGED untrimmed
        \/ /\ NeedsTrim(sk, ack)
           /\ RecvAck(ack, wnd, cwnd, FALSE, env)
           /\ untrimmed' = TRUE

Losses(env) ==
    \/ \E i \in DOMAIN sk.rtx, l \in {0} \cup DOMAIN sk.rtx, reo \in BOOLEAN :
         RecvSack(i, l, reo, env)
    \/ \E all \in BOOLEAN : RtoFires(all, env)
    \/ \E l \in DOMAIN sk.rtx : ReoFires(l, env)
    \/ \E mss \in Msses : MtuReduced(mss, env)

Probes(env) ==
    LossProbeFires(env) \/ Probe0Fires(env) \/ TsqWrite(env)

SenderNext ==
    \/ \E space \in FastOpenSizes, ok \in BOOLEAN : Connect(space, ok) /\ UNCHANGED untrimmed
    \/ \E env \in Env :
         \/ Acknowledgements(env)
         \/ /\ Application(env) \/ Losses(env) \/ Probes(env)
            /\ UNCHANGED untrimmed

senderVars == <<sk, untrimmed>>

SenderSpec == SenderInit /\ [][SenderNext]_senderVars

-----------------------------------------------------------------------------
(* Properties *)

Count(P(_)) ==
    Iterate(LAMBDA n, i : n + (IF P(sk.rtx[i]) THEN sk.rtx[i].pc ELSE 0), 0, Len(sk.rtx))

\* The fields of the socket stay in their ranges.
SenderTypeOK ==
    /\ sk.state \in {"CLOSE", "SYN_SENT", "ESTABLISHED", "FIN_WAIT1"}
    /\ 0 <= sk.una /\ sk.una <= sk.nxt /\ sk.nxt <= sk.wseq /\ sk.wseq <= MaxData + 2
    /\ {sk.packets_out, sk.lost_out, sk.retrans_out, sk.sacked_out} \subseteq Nat
    /\ sk.cwnd \in Nat \ {0}
    /\ sk.pending \in {"none", "retrans", "loss_probe", "probe0", "reo"}

\* However buffers are cut, trimmed, joined, probed with or moved, the two
\* queues hold every byte from the first unacknowledged one to the last one
\* written exactly once and in order, with what was sent in the first and
\* the rest in the second; only the very last buffer carries the FIN.  Below
\* snd_una, where a failed trim leaves bytes behind, nothing is asked.
QueuesCover ==
    LET all == sk.rtx \o sk.wq
        Above(n) == Max({n, sk.una})
    IN /\ \A i \in 1 .. Len(all) - 1 : Above(all[i].end) = Above(all[i + 1].seq)
       /\ all # <<>> => /\ Head(all).seq <= sk.una
                        /\ Last(all).end = sk.wseq
       /\ all = <<>> => sk.una = sk.wseq
       /\ sk.rtx # <<>> => Last(sk.rtx).end = sk.nxt
       /\ sk.wq # <<>> => Head(sk.wq).seq = sk.nxt
       /\ \A i \in DOMAIN all : all[i].fin => i = Len(all)

\* The packet counters the congestion control works with (packets_out,
\* lost_out, retrans_out, sacked_out) are what the buffers of the retransmit
\* queue add up to.  The one path that leaks a packet begins with a trim that
\* failed at an ACK: __tcp_retransmit_skb makes up for it without
\* tcp_adjust_pcount.
CountersMatch ==
    ~untrimmed =>
        /\ SenderTypeOK
        /\ sk.packets_out = Count(LAMBDA b : TRUE)
        /\ sk.lost_out    = Count(LAMBDA b : b.lost)
        /\ sk.retrans_out = Count(LAMBDA b : b.retrans)
        /\ sk.sacked_out  = Count(LAMBDA b : b.acked)
        /\ sk.sacked_out + sk.lost_out <= sk.packets_out

\* After a failed trim too, the counters only ever count too much: none of
\* them wraps below zero when its buffers leave the queue, and what is left
\* out of the flight (tcp_verify_left_out) is no more than what is out.
CountersCover ==
    /\ SenderTypeOK
    /\ sk.packets_out >= Count(LAMBDA b : TRUE)
    /\ sk.lost_out    >= Count(LAMBDA b : b.lost)
    /\ sk.retrans_out >= Count(LAMBDA b : b.retrans)
    /\ sk.sacked_out  >= Count(LAMBDA b : b.acked)
    /\ sk.sacked_out + sk.lost_out <= sk.packets_out

\* tcp_xmit_retransmit_queue starts at the hint: however the queue was cut,
\* joined and acknowledged since, the hint is a buffer of it, and nothing
\* before it still waits for its retransmission.
HintSkipsNothing ==
    /\ sk.hint <= Len(sk.rtx)
    /\ \A i \in 1 .. sk.hint - 1 :
         ~(sk.rtx[i].lost /\ ~sk.rtx[i].retrans /\ ~sk.rtx[i].acked)

\* The BUG_ONs and WARN_ONs of the modelled code say that their conditions
\* never hold.
AssertionsHold == ~sk.bug

\* None of them is reached unless a trim has failed at an ACK: no order of
\* writes, cuts, joins, probes, losses and acknowledgements gets there without.
NoBug == ~untrimmed => AssertionsHold

\* Between two calls of the stack a timer is armed whenever anything waits:
\* for an acknowledgement, or for the window to open; unless a failed trim has
\* made packets_out count what is no longer there.
NeverStranded ==
    ~untrimmed =>
        /\ sk.packets_out > 0 => sk.pending \in {"retrans", "loss_probe", "reo"}
        /\ sk.packets_out = 0 /\ sk.wq # <<>> => sk.pending = "probe0"

\* New data stays inside the window the peer offered, whichever of the
\* write, push, probe, loss-probe and FIN paths sends it.  Only the FIN, on a
\* buffer whose data fills the window, may be one beyond it.  What is sent
\* again stays inside the window too, even when the peer has shrunk it,
\* except from the first unacknowledged byte on, where one segment serves as
\* a window probe.
SentInWindow ==
    [][/\ sk'.nxt > sk.nxt /\ sk.state # "CLOSE"
            => sk'.nxt - Bit(Last(sk'.rtx).fin) <= Max({WndEnd(sk'), sk.nxt})
       /\ \A seg \in sk'.tx :
            seg.end <= sk.nxt /\ seg.seq > sk'.una
              => seg.end - Bit(seg.fin) <= WndEnd(sk')]_sk
=============================================================================
