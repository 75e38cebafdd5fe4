-------------------------------- MODULE TcpSkb --------------------------------
(***************************************************************************)
(* The buffers of a TCP sender and the operations of tcp_output.c that cut,*)
(* trim, join and move them between the write queue (never sent) and the   *)
(* retransmit queue (sent, not acknowledged).                              *)
(*                                                                         *)
(* A socket sk is a record.  Its sequence numbers count bytes from the SYN,*)
(* which is number 0; a connection here is far shorter than 2^31 bytes, so *)
(* before() and after() are < and >.  A buffer is a range of sequence      *)
(* numbers with its flags: fin, syn, the scoreboard marks acked (SACKed),  *)
(* retrans and lost, and the number of segments pc it counts for, with the *)
(* segment size gso it was cut for (0 for a single segment).  The          *)
(* retransmit hint is the index of a buffer of the retransmit queue, 0 for *)
(* NULL.  Payload, truesize and time stamps are left out.                  *)
(***************************************************************************)
EXTENDS Integers, SequencesExt

Bit(b) == IF b THEN 1 ELSE 0

\* Op(... Op(Op(base, 1), 2) ..., n)
Iterate(Op(_, _), base, n) ==
    LET turn[i \in 0 .. n] == IF i = 0 THEN base ELSE Op(turn[i - 1], i)
    IN turn[n]

\* skb->len: SYN and FIN take a sequence number and no payload
Size(skb) == skb.end - skb.seq - Bit(skb.fin) - Bit(skb.syn)

NewSkb(seq, end) ==
    [seq |-> seq, end |-> end, syn |-> FALSE, fin |-> FALSE, acked |-> FALSE,
     retrans |-> FALSE, lost |-> FALSE, pc |-> 0, gso |-> 0]

\* tcp_init_nondata_skb: one segment, whose flag takes a sequence number
ControlSkb(seq, flag) ==
    [NewSkb(seq, seq + 1) EXCEPT !.syn = (flag = "SYN"), !.fin = (flag = "FIN"),
                                 !.pc = 1]

SetTsoSegs(skb, mss) ==
    IF Size(skb) <= mss
    THEN [skb EXCEPT !.pc = 1, !.gso = 0]
    ELSE [skb EXCEPT !.pc = (Size(skb) + mss - 1) \div mss, !.gso = mss]

\* Slip: a buffer that was never counted stays uncounted
InitTsoSegsSlip(skb, mss) ==
    IF skb.pc > 1 /\ skb.gso # mss THEN SetTsoSegs(skb, mss) ELSE skb

InitTsoSegs(skb, mss) ==
    IF skb.pc = 0 \/ (skb.pc > 1 /\ skb.gso # mss)
    THEN SetTsoSegs(skb, mss) ELSE skb

-----------------------------------------------------------------------------
(* Packet counters *)

InFlight(sk) == sk.packets_out - (sk.sacked_out + sk.lost_out) + sk.retrans_out

\* Slip: the lost packets are forgotten
AdjustPcountSlip(sk, skb, decr) ==
    [sk EXCEPT !.packets_out = @ - decr,
               !.sacked_out  = @ - decr * Bit(skb.acked),
               !.retrans_out = @ - decr * Bit(skb.retrans)]

\* The connection has SACK; lost_cnt_hint is tcp_input.c's
AdjustPcount(sk, skb, decr) ==
    [sk EXCEPT !.packets_out = @ - decr,
               !.sacked_out  = @ - decr * Bit(skb.acked),
               !.retrans_out = @ - decr * Bit(skb.retrans),
               !.lost_out    = @ - decr * Bit(skb.lost)]

\* A BUG_ON or WARN_ON of the code whose condition holds is remembered
Assert_(sk, ok) == [sk EXCEPT !.bug = @ \/ ~ok]

-----------------------------------------------------------------------------
(* Cutting, trimming and joining *)

\* The FIN goes with the second part, the scoreboard marks with both
Halves(skb, len, mss) ==
    <<SetTsoSegs([skb EXCEPT !.end = skb.seq + len, !.fin = FALSE], mss),
      SetTsoSegs([skb EXCEPT !.seq = skb.seq + len], mss)>>

Spliced(s, i, parts) == SubSeq(s, 1, i - 1) \o parts \o SubSeq(s, i + 1, Len(s))

TsoFragment(sk, len, mss) ==
    [sk EXCEPT !.wq = Spliced(@, 1, Halves(@[1], len, mss))]

\* q is "wq" or "rtx".  Only a buffer that was sent is in the counters.
Fragment(sk, q, i, len, mss) ==
    LET skb   == sk[q][i]
        parts == Halves(skb, len, mss)
        cut   == [Assert_(sk, len <= Size(skb)) EXCEPT
                     ![q] = Spliced(@, i, parts),
                     !.hint = IF q = "rtx" /\ @ > i THEN @ + 1 ELSE @]
    IN IF sk.nxt >= skb.end
       THEN AdjustPcount(cut, skb, skb.pc - parts[1].pc - parts[2].pc) ELSE cut

TrimHead(skb, seq) ==
    LET rest == [skb EXCEPT !.seq = seq]
    IN IF rest.pc > 1 THEN SetTsoSegs(rest, rest.gso) ELSE rest

CanCollapse(skb) == skb.pc <= 1 /\ ~skb.acked

\* Buffer i and its successor become one
Joined(s, i, both) == SubSeq(s, 1, i - 1) \o <<both>> \o SubSeq(s, i + 2, Len(s))

CollapseRetrans(sk, i) ==
    LET next == sk.rtx[i + 1]
        both == [sk.rtx[i] EXCEPT !.end = next.end, !.fin = @ \/ next.fin]
    IN [AdjustPcount(Assert_(sk, sk.rtx[i].pc = 1 /\ next.pc = 1), next, next.pc)
          EXCEPT !.rtx  = Joined(@, i, both),
                 !.hint = IF @ > i THEN @ - 1 ELSE @]

WndEnd(sk) == sk.una + sk.wnd

\* Joins buffer i with its successors while they fit in one segment and in
\* the window.  The first buffer only takes its share of the space.  After most
\* of them one is still cloned below, marked as the end of a record or of
\* another kind; with the sysctl off there are none.
RetransTryCollapse(sk, i, space, most) ==
    LET Join(acc, n) ==
          LET next == acc.sk.rtx[i + 1]
              left == acc.space - Size(next)
          IN IF /\ acc.go /\ n <= most
                /\ i < Len(acc.sk.rtx)
                /\ CanCollapse(next)
                /\ left >= 0
                /\ next.end <= WndEnd(acc.sk)
             THEN [acc EXCEPT !.sk = CollapseRetrans(@, i), !.space = left]
             ELSE [acc EXCEPT !.go = FALSE]
    IN IF sk.rtx[i].syn \/ ~CanCollapse(sk.rtx[i]) THEN sk
       ELSE Iterate(Join, [sk |-> sk, space |-> space - Size(sk.rtx[i]), go |-> TRUE],
                    Len(sk.rtx)).sk

-----------------------------------------------------------------------------
(* Timers.  One timer serves retransmission, loss and window probes and    *)
(* reordering: sk.pending says which, "none" when it is not armed.         *)

RearmRto(sk) ==
    [sk EXCEPT !.pending = IF sk.packets_out = 0 THEN "none" ELSE "retrans"]

CheckProbeTimer(sk) ==
    IF sk.packets_out = 0 /\ sk.pending = "none"
    THEN [sk EXCEPT !.pending = "probe0"] ELSE sk

CanProbeLoss(sk) == sk.packets_out > 0 /\ sk.ca = "Open"

ScheduleLossProbe(sk) ==
    IF CanProbeLoss(sk) THEN [sk EXCEPT !.pending = "loss_probe"] ELSE sk

\* The buffer at the head of the write queue has been handed to IP
EventNewDataSent(sk) ==
    LET skb   == Head(sk.wq)
        moved == [sk EXCEPT !.nxt = skb.end, !.wq = Tail(@),
                            !.rtx = Append(@, skb), !.packets_out = @ + skb.pc]
    IN IF sk.packets_out = 0 \/ sk.pending = "loss_probe"
       THEN RearmRto(moved) ELSE moved

\* tcp_transmit_skb, when IP accepts the segment: tx is what this call of the
\* stack has put on the wire
Transmit(sk, skb) ==
    [Assert_(sk, skb.pc > 0) EXCEPT
        !.tx = @ \cup {[seq |-> skb.seq, end |-> skb.end, fin |-> skb.fin]}]
=============================================================================
