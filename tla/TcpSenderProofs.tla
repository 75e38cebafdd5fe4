-------------------------- MODULE TcpSenderProofs --------------------------
(***************************************************************************)
(* The invariants of TcpSender, for every choice of the constants in which *)
(* trimming does not fail for memory, and the refinement of SendStream by  *)
(* TcpConnection.  SenderInv is the inductive invariant of the sender:     *)
(* its socket is Good, a timer is armed (Armed), the handshake comes first *)
(* (Phase), and what is written is within the data there is (WithinData).  *)
(* NewIn says that what a call sent for the first time fits the window.    *)
(* ConnInv adds what is on the network and what the peer has.              *)
(***************************************************************************)
EXTENDS TcpConnection, TcpOutputProofs

-----------------------------------------------------------------------------
(* The timer *)

Timers == {"retrans", "loss_probe", "reo"}

\* The timer runs when something is in flight, and not for a loss when
\* nothing is.
PreArmed(s) ==
    /\ s.rtx # <<>> => s.pending \in Timers
    /\ s.rtx = <<>> => s.pending \in {"none", "probe0"}

\* It probes the window, too, when only unsent data is left.
Armed(s) == PreArmed(s) /\ (s.rtx = <<>> /\ s.wq # <<>> => s.pending = "probe0")

\* t is s with another timer.
TimerSet(s, t, p, f) ==
    /\ Good(t, f) /\ Frame(s, t) /\ SameCounts(s, t)
    /\ t.rtx = s.rtx /\ t.wq = s.wq /\ t.nxt = s.nxt /\ t.hint = s.hint /\ t.tx = s.tx
    /\ t.ca = s.ca /\ t.tlp = s.tlp /\ t.cwnd = s.cwnd /\ t.pending = p

\* Setting the timer.
LEMMA TimerSetIs ==
  ASSUME NEW s, NEW f, Good(s, f), NEW p \in Pendings
  PROVE  TimerSet(s, [s EXCEPT !.pending = p], p, f)
<1> DEFINE t == [s EXCEPT !.pending = p]
<1>1. s \in Sockets
  BY GoodFacts
<1>2. /\ t \in Sockets /\ t.una = s.una /\ t.nxt = s.nxt /\ t.wseq = s.wseq
      /\ t.rtx = s.rtx /\ t.wq = s.wq /\ SameCounts(s, t) /\ t.hint = s.hint
      /\ t.tx = s.tx /\ t.bug = s.bug
      /\ Frame(s, t) /\ t.pending = p /\ t.ca = s.ca /\ t.tlp = s.tlp /\ t.cwnd = s.cwnd
      /\ t.wnd = s.wnd
  BY <1>1 DEF Sockets, SameCounts, Frame
<1> HIDE DEF t
<1>3. Good(t, f)
  BY <1>2, GoodSame
<1>4. TimerSet(s, t, p, f)
  BY <1>2, <1>3 DEF TimerSet
<1> QED BY <1>4 DEF t

\* tcp_rearm_rto: the timer runs if something is in flight.
LEMMA RearmRtoIs ==
  ASSUME NEW s, NEW f, Good(s, f)
  PROVE  /\ TimerSet(s, RearmRto(s), IF s.rtx = <<>> THEN "none" ELSE "retrans", f)
         /\ PreArmed(RearmRto(s))
<1> DEFINE p == IF s.packets_out = 0 THEN "none" ELSE "retrans"
           t == RearmRto(s)
<1>1. p \in Pendings /\ p = IF s.rtx = <<>> THEN "none" ELSE "retrans"
  BY GoodCounts DEF Pendings
<1>2. t = [s EXCEPT !.pending = p]
  BY DEF RearmRto
<1> HIDE DEF p
<1>3. TimerSet(s, t, p, f)
  BY <1>1, <1>2, TimerSetIs
<1> HIDE DEF t
<1>4. PreArmed(t)
  BY <1>1, <1>3 DEF TimerSet, PreArmed, Timers
<1> QED BY <1>1, <1>3, <1>4 DEF t

\* t is s after the write queue was pushed: no data waits without a timer, and
\* none was sent beyond the window.
Pushed(s, t, f) ==
    /\ Good(t, f) /\ Frame(s, t) /\ t.ca = s.ca /\ t.tlp = s.tlp
    /\ NewIn(s.nxt, t)
    /\ PreArmed(s) /\ s.state # "CLOSE" => Armed(t)

\* What is known of the timer after a write.
LEMMA WroteArmed ==
  ASSUME NEW s, NEW t, NEW f, Wrote(s, t, f)
  PROVE  /\ PreArmed(s) => PreArmed(t)
         /\ Armed(s) => Armed(t)
BY DEF Wrote, Armed, PreArmed, Timers

\* __tcp_push_pending_frames.
LEMMA PushIs ==
  ASSUME NEW s, NEW f, Good(s, f), NEW nonagle, NEW env, env.room \in Int
  PROVE  Pushed(s, PushPendingFrames(s, nonagle, env), f)
<1> DEFINE r == WriteXmit(s, s.mss, nonagle, 0, env)
           u == r.sk
           P == PushPendingFrames(s, nonagle, env)
<1>1. s.mss \in Nat \ {0}
  BY GoodFacts
<1>2. WriteDone(s, r, f)
  BY <1>1, WriteXmitIs
<1>3. P = IF s.state = "CLOSE" THEN s ELSE IF r.stuck THEN CheckProbeTimer(u) ELSE u
  BY DEF PushPendingFrames
<1> HIDE DEF r, P
<1>4. Wrote(s, u, f) /\ (u.rtx = <<>> /\ u.wq # <<>> => r.stuck)
  BY <1>2 DEF WriteDone
<1> HIDE DEF u
<1>5. Good(u, f) /\ Frame(s, u) /\ u.ca = s.ca /\ u.tlp = s.tlp
  BY <1>4 DEF Wrote
<1>6. PreArmed(s) => PreArmed(u)
  BY <1>4, WroteArmed
<1>7. NewIn(s.nxt, u)
  BY <1>4, WroteNew
<1>8. CASE s.state = "CLOSE"
  <2>1. P = s
    BY <1>3, <1>8
  <2>2. Pushed(s, P, f)
    BY <1>8, <2>1 DEF Pushed, Frame, NewIn
  <2> QED BY <2>2 DEF P
<1>9. CASE s.state # "CLOSE" /\ r.stuck /\ u.packets_out = 0 /\ u.pending = "none"
  <2> DEFINE t == [u EXCEPT !.pending = "probe0"]
  <2>1. P = t
    BY <1>3, <1>9 DEF CheckProbeTimer
  <2>2. TimerSet(u, t, "probe0", f)
    <3>1. "probe0" \in Pendings
      BY DEF Pendings
    <3> QED BY <1>5, <3>1, TimerSetIs
  <2>3. u.rtx = <<>>
    BY <1>5, <1>9, GoodCounts
  <2> HIDE DEF t
  <2>4. Armed(t)
    BY <2>2, <2>3 DEF TimerSet, Armed, PreArmed
  <2>5. Frame(s, t)
    BY <1>5, <2>2, FrameStep DEF TimerSet
  <2>6. NewIn(s.nxt, t)
    BY <1>7, <2>2, NewInSame DEF TimerSet, Frame
  <2>7. Pushed(s, P, f)
    BY <1>5, <2>1, <2>2, <2>4, <2>5, <2>6 DEF Pushed, TimerSet
  <2> QED BY <2>7 DEF P
<1>10. CASE s.state # "CLOSE" /\ ~(r.stuck /\ u.packets_out = 0 /\ u.pending = "none")
  <2>1. P = u
    BY <1>3, <1>10 DEF CheckProbeTimer
  <2>2. PreArmed(s) => Armed(u)
    <3> SUFFICES ASSUME PreArmed(s), u.rtx = <<>>, u.wq # <<>> PROVE u.pending = "probe0"
      BY <1>6 DEF Armed
    <3>1. r.stuck /\ u.packets_out = 0
      BY <1>4, <1>5, NothingOut
    <3>2. u.pending \in {"none", "probe0"}
      BY <1>6 DEF PreArmed
    <3> QED BY <1>10, <3>1, <3>2
  <2>3. Pushed(s, P, f)
    BY <1>5, <1>7, <2>1, <2>2 DEF Pushed
  <2> QED BY <2>3 DEF P
<1> QED BY <1>8, <1>9, <1>10

\* tcp_data_snd_check.
LEMMA DataSndCheckIs ==
  ASSUME NEW s, NEW f, Good(s, f), NEW env \in EnvSet
  PROVE  Pushed(s, DataSndCheck(s, env), f)
<1> DEFINE c == Cardinality(s.tx)
           m == Max({env.room - c, 0})
           rest == [env EXCEPT !.room = m]
<1>1. s.tx \in TxSets
  BY GoodFacts, SocketFields
<1>2. c \in Nat
  BY <1>1, FS_CardinalityType DEF TxSets
<1>3. env.room - c \in Int /\ 0 \in Int
  BY <1>2 DEF EnvSet
<1>4. m \in Int
  <2> DEFINE a == env.room - c
             z == 0
  <2>1. a \in Int /\ z \in Int
    BY <1>3
  <2> HIDE DEF a, z
  <2>2. Max({a, z}) = IF a >= z THEN a ELSE z
    BY ONLY <2>1, MinPair
  <2>3. Max({a, z}) \in Int
    BY <2>1, <2>2
  <2> QED BY <2>3 DEF a, z
<1>5. DataSndCheck(s, env) = IF s.wq = <<>> THEN s ELSE PushPendingFrames(s, s.nonagle, rest)
  BY DEF DataSndCheck
<1> HIDE DEF m
<1>6. rest.room \in Int
  BY <1>4 DEF EnvSet
<1> HIDE DEF rest
<1>7. CASE s.wq = <<>>
  <2>1. Pushed(s, s, f)
    BY <1>7 DEF Pushed, Frame, Armed, NewIn
  <2> QED BY <1>5, <1>7, <2>1
<1>8. CASE s.wq # <<>>
  BY <1>5, <1>6, <1>8, PushIs
<1> QED BY <1>7, <1>8

\* tcp_xmit_recovery and tcp_data_snd_check.
LEMMA AfterAckIs ==
  ASSUME NEW s, NEW f, Good(s, f), NEW env \in EnvSet
  PROVE  LET t == AfterAck(s, env)
         IN /\ Good(t, f) /\ Frame(s, t) /\ NewIn(s.nxt, t)
            /\ PreArmed(s) /\ s.state # "CLOSE" => Armed(t)
<1> DEFINE x == XmitRetransmitQueue(s, env)
           u == IF Recovering(s) THEN x ELSE s
           t == DataSndCheck(u, env)
<1>1. AfterAck(s, env) = t
  BY DEF AfterAck
<1>2. Rescued(s, x, f)
  <2>1. env.room \in Int
    BY DEF EnvSet
  <2> QED BY <2>1, XmitRetransmitIs
<1>3. Rescued(s, s, f)
  BY DEF Rescued, Frame
<1>4. Rescued(s, u, f)
  BY <1>2, <1>3
<1> HIDE DEF u
<1>5. Good(u, f) /\ Frame(s, u) /\ u.nxt = s.nxt
  BY <1>4 DEF Rescued
<1>6. PreArmed(s) => PreArmed(u)
  BY <1>4 DEF Rescued, PreArmed, Timers
<1>7. Pushed(u, t, f)
  BY <1>5, DataSndCheckIs
<1> HIDE DEF t
<1>8. Good(t, f) /\ Frame(u, t) /\ (PreArmed(u) /\ u.state # "CLOSE" => Armed(t))
      /\ NewIn(s.nxt, t)
  BY <1>5, <1>7 DEF Pushed
<1>9. Frame(s, t) /\ u.state = s.state
  BY <1>5, <1>8, FrameStep DEF Frame
<1> QED BY <1>1, <1>6, <1>8, <1>9

-----------------------------------------------------------------------------
(* The scoreboard *)

SameBytes(a, b) == a.seq = b.seq /\ a.end = b.end /\ a.fin = b.fin /\ a.pc = b.pc

\* t is s with other marks, x, on the i-th buffer of the retransmit queue.
Marked(s, t, i, x, f) ==
    /\ Good(t, f) /\ Frame(s, t) /\ SameTimers(s, t)
    /\ t.wq = s.wq /\ t.nxt = s.nxt /\ t.tx = s.tx
    /\ Len(t.rtx) = Len(s.rtx)
    /\ \A k \in 1..Len(s.rtx) : t.rtx[k] = IF k = i THEN x ELSE s.rtx[k]

\* The hint h skips nothing once x is the i-th buffer.
HintFor(s, i, x, h) ==
    /\ h \in Nat /\ h <= Len(s.rtx)
    /\ \A k \in 1..h - 1 : ~Waits(IF k = i THEN x ELSE s.rtx[k])

\* The counters follow the marks of a buffer.
LEMMA Remark ==
  ASSUME NEW s, NEW f, Good(s, f), NEW i \in 1..Len(s.rtx), NEW x \in Skb,
         SameBytes(x, s.rtx[i]), NEW h, HintFor(s, i, x, h),
         NEW l, l = s.lost_out - Weight(s.rtx[i], "lost") + Weight(x, "lost"),
         NEW r, r = s.retrans_out - Weight(s.rtx[i], "retrans") + Weight(x, "retrans"),
         NEW a, a = s.sacked_out - Weight(s.rtx[i], "sacked") + Weight(x, "sacked")
  PROVE  Marked(s, [s EXCEPT !.rtx = Spliced(s.rtx, i, <<x>>), !.hint = h, !.lost_out = l,
                             !.retrans_out = r, !.sacked_out = a], i, x, f)
<1> DEFINE b == s.rtx[i]
           q == Spliced(s.rtx, i, <<x>>)
           t == [s EXCEPT !.rtx = q, !.hint = h, !.lost_out = l, !.retrans_out = r,
                          !.sacked_out = a]
<1>1. s \in Sockets /\ s.bug = FALSE /\ Len(s.rtx) \in Nat /\ s.rtx \in Seq(Skb)
      /\ s.lost_out \in Int /\ s.retrans_out \in Int /\ s.sacked_out \in Int
      /\ s.packets_out \in Int
  BY GoodFacts
<1>2. b \in Skb /\ b.pc \in Nat /\ RtxOK(b, s.una)
  BY GoodBuf
<1>3. i \in 1..Len(s.rtx) /\ b = s.rtx[i]
  OBVIOUS
<1> HIDE DEF b
<1>4. \A c : Weight(b, c) \in Int /\ Weight(x, c) \in Int
  BY <1>2, WeightNat
<1>5. l \in Int /\ r \in Int /\ a \in Int /\ h \in Nat
  <2>1. /\ Weight(b, "lost") \in Int /\ Weight(x, "lost") \in Int
        /\ Weight(b, "retrans") \in Int /\ Weight(x, "retrans") \in Int
        /\ Weight(b, "sacked") \in Int /\ Weight(x, "sacked") \in Int
    BY <1>4
  <2>2. l \in Int
    BY <1>1, <1>3, <2>1
  <2>3. r \in Int
    BY <1>1, <1>3, <2>1
  <2>4. a \in Int
    BY <1>1, <1>3, <2>1
  <2> QED BY <2>2, <2>3, <2>4 DEF HintFor
<1>6. q \in Seq(Skb) /\ q = Spliced(s.rtx, i, <<x>>)
  BY <1>1, <1>3, SplicedOne
<1> HIDE DEF q
<1>7. /\ t \in Sockets /\ Frame(s, t) /\ SameTimers(s, t) /\ t.rtx = q /\ t.wq = s.wq
      /\ t.nxt = s.nxt /\ t.hint = h /\ t.tx = s.tx /\ t.bug = s.bug
      /\ t.packets_out = s.packets_out /\ t.lost_out = l
      /\ t.retrans_out = r /\ t.sacked_out = a
  BY <1>1, <1>5, <1>6 DEF Sockets, Frame, SameTimers
<1> HIDE DEF t
<1>8. Weight(b, "out") = Weight(x, "out")
  BY <1>3 DEF Weight, Has, SameBytes
<1>9. ASSUME NEW c \in Marks
      PROVE  Counter(t, c) = Counter(s, c) - Weight(b, c) + Weight(x, c)
  <2>1. CASE c = "out"
    <3>1. Counter(t, c) = s.packets_out /\ Counter(s, c) = s.packets_out
      BY <1>7, <2>1 DEF Counter
    <3> QED BY <1>1, <1>4, <1>8, <2>1, <3>1
  <2>2. CASE c = "lost"
    BY <1>3, <1>7, <2>2 DEF Counter
  <2>3. CASE c = "retrans"
    BY <1>3, <1>7, <2>3 DEF Counter
  <2>4. CASE c = "sacked"
    BY <1>3, <1>7, <2>4 DEF Counter
  <2> QED BY <2>1, <2>2, <2>3, <2>4 DEF Marks
<1>10. RtxOK(x, s.una) /\ x.seq = b.seq /\ x.end = b.end /\ x.fin = b.fin
  BY <1>2, <1>3 DEF RtxOK, SameBytes
<1>11. t.hint <= Len(s.rtx) /\ \A k \in 1..t.hint - 1 : ~Waits(IF k = i THEN x ELSE s.rtx[k])
  BY <1>7 DEF HintFor
<1>12. ReplacedAt(s, t, i, x)
  BY <1>1, <1>3, <1>6, <1>7, <1>9, <1>10, <1>11 DEF ReplacedAt
<1>13. /\ Good(t, f) /\ Len(t.rtx) = Len(s.rtx)
       /\ \A k \in 1..Len(s.rtx) : t.rtx[k] = IF k = i THEN x ELSE s.rtx[k]
  BY <1>12, GoodReplace
<1>14. Marked(s, t, i, x, f)
  BY <1>7, <1>13 DEF Marked
<1> QED BY <1>14 DEF t, q

\* Other marks on a buffer.
LEMMA MarkedSkb ==
  ASSUME NEW b \in Skb, NEW ac \in BOOLEAN, NEW lo \in BOOLEAN, NEW re \in BOOLEAN,
         re => lo, ac => ~lo
  PROVE  LET x == [b EXCEPT !.acked = ac, !.lost = lo, !.retrans = re]
         IN /\ x \in Skb /\ SameBytes(x, b) /\ x.acked = ac /\ x.lost = lo /\ x.retrans = re
            /\ x.seq = b.seq
<1> DEFINE x == [b EXCEPT !.acked = ac, !.lost = lo, !.retrans = re]
<1>1. b \in SkbRec
  BY DEF Skb
<1>2. x \in SkbRec /\ x.seq = b.seq /\ x.end = b.end /\ x.syn = b.syn /\ x.fin = b.fin
      /\ x.acked = ac /\ x.lost = lo /\ x.retrans = re /\ x.pc = b.pc /\ x.gso = b.gso
  BY <1>1 DEF SkbRec
<1> HIDE DEF x
<1>3. Size(x) = Size(b)
  BY <1>2 DEF Size
<1>4. x \in Skb
  <2>1. /\ b.seq <= b.end /\ Size(b) >= 0
        /\ b.syn => b.seq = 0 /\ b.end = 1 /\ ~b.fin
        /\ b.pc > 1 => b.gso > 0 /\ Size(b) > b.gso
    BY DEF Skb
  <2> QED BY <1>2, <1>3, <2>1 DEF Skb
<1> QED BY <1>2, <1>4 DEF x, SameBytes

\* t is s with the i-th buffer of the retransmit queue marked lost, unless it
\* was SACKed.
LostAt(s, t, i, f) ==
    /\ Good(t, f) /\ Frame(s, t) /\ SameTimers(s, t)
    /\ t.wq = s.wq /\ t.nxt = s.nxt /\ t.tx = s.tx
    /\ Len(t.rtx) = Len(s.rtx)
    /\ \A k \in 1..Len(s.rtx) : k # i => t.rtx[k] = s.rtx[k]
    /\ t.rtx[i].acked = s.rtx[i].acked
    /\ ~s.rtx[i].acked => t.rtx[i].lost /\ ~t.rtx[i].retrans

\* A mark that makes a buffer lost.
LEMMA MarkedLost ==
  ASSUME NEW s, NEW f, Good(s, f), NEW i \in 1..Len(s.rtx), NEW t, NEW x,
         Marked(s, t, i, x, f), x.acked = s.rtx[i].acked, x.lost, ~x.retrans
  PROVE  LostAt(s, t, i, f)
<1>1. t.rtx[i] = x /\ \A k \in 1..Len(s.rtx) : k # i => t.rtx[k] = s.rtx[k]
  BY DEF Marked
<1> QED BY <1>1 DEF Marked, LostAt

\* tcp_mark_skb_lost.
LEMMA MarkLostIs ==
  ASSUME NEW s, NEW f, Good(s, f), NEW i \in 1..Len(s.rtx)
  PROVE  LostAt(s, MarkLost(s, i), i, f)
<1> DEFINE b == s.rtx[i]
           h == IF (s.hint = 0 /\ s.retrans_out >= s.lost_out) \/ s.hint > i THEN i ELSE s.hint
           t == MarkLost(s, i)
<1>1. s \in Sockets /\ s.bug = FALSE /\ Len(s.rtx) \in Nat /\ s.rtx \in Seq(Skb)
      /\ s.lost_out \in Int /\ s.retrans_out \in Int /\ s.sacked_out \in Int
      /\ s.hint \in Nat /\ HintOK(s)
  BY GoodFacts
<1>2. b \in Skb /\ b.pc \in Nat /\ b \in SkbRec
  BY GoodBuf DEF Skb
<1>3. i \in 1..Len(s.rtx) /\ b = s.rtx[i]
  OBVIOUS
<1>4. t = IF b.acked THEN s
          ELSE IF ~b.lost
          THEN [[s EXCEPT !.rtx = Spliced(@, i, <<[b EXCEPT !.lost = TRUE]>>), !.hint = h]
                  EXCEPT !.lost_out = @ + b.pc]
          ELSE IF b.retrans
          THEN [[s EXCEPT !.rtx = Spliced(@, i, <<[b EXCEPT !.retrans = FALSE]>>), !.hint = h]
                  EXCEPT !.retrans_out = @ - b.pc]
          ELSE [s EXCEPT !.rtx = Spliced(@, i, <<b>>), !.hint = h]
  BY DEF MarkLost
<1>5. h \in Nat /\ h <= Len(s.rtx) /\ \A k \in 1..h - 1 : k # i /\ ~Waits(s.rtx[k])
  <2>1. s.hint <= Len(s.rtx) /\ \A k \in 1..s.hint - 1 : ~Waits(s.rtx[k])
    BY <1>1 DEF HintOK, Settled
  <2>2. CASE s.hint = 0 /\ s.retrans_out >= s.lost_out
    <3>1. h = i
      BY <2>2
    <3>2. \A k \in 1..Len(s.rtx) : ~Waits(s.rtx[k])
      BY <2>2, GoodCounts
    <3>3. \A k \in 1..i - 1 : k \in 1..Len(s.rtx) /\ k # i
      BY <1>1, <1>3
    <3>4. i \in Nat /\ i <= Len(s.rtx)
      BY <1>1, <1>3
    <3> QED BY <3>1, <3>2, <3>3, <3>4
  <2>3. CASE s.hint > i
    <3>1. h = i
      BY <2>3
    <3>2. \A k \in 1..i - 1 : k \in 1..s.hint - 1 /\ k # i
      BY <1>1, <1>3, <2>3
    <3>3. i \in Nat /\ i <= Len(s.rtx)
      BY <1>1, <1>3
    <3> QED BY <2>1, <3>1, <3>2, <3>3
  <2>4. CASE ~((s.hint = 0 /\ s.retrans_out >= s.lost_out) \/ s.hint > i)
    <3>1. h = s.hint
      BY <2>4
    <3>2. \A k \in 1..s.hint - 1 : k # i
      BY <1>1, <1>3, <2>4
    <3> QED BY <1>1, <2>1, <3>1, <3>2
  <2> QED BY <2>2, <2>3, <2>4
<1>6. \A x : HintFor(s, i, x, h)
  BY <1>5 DEF HintFor
<1>7. b.acked \in BOOLEAN /\ b.lost \in BOOLEAN /\ b.retrans \in BOOLEAN
      /\ (b.retrans => b.lost) /\ (b.acked => ~b.lost)
  BY <1>2, SkbFields DEF Skb
<1>8. /\ Weight(b, "lost") = IF b.lost THEN b.pc ELSE 0
      /\ Weight(b, "retrans") = IF b.retrans THEN b.pc ELSE 0
      /\ Weight(b, "sacked") = IF b.acked THEN b.pc ELSE 0
  BY <1>2, Weights
<1> HIDE DEF h, b, t
<1> DEFINE x == [b EXCEPT !.acked = FALSE, !.lost = TRUE, !.retrans = FALSE]
<1>9. x \in Skb /\ SameBytes(x, b) /\ x.acked = FALSE /\ x.lost = TRUE /\ x.retrans = FALSE
  BY <1>2, MarkedSkb
<1>10. /\ Weight(x, "lost") = b.pc
       /\ Weight(x, "retrans") = 0
       /\ Weight(x, "sacked") = 0
  <2> HIDE DEF x
  <2> QED BY <1>9, Weights DEF SameBytes
<1>11. /\ ~b.acked /\ ~b.lost => [b EXCEPT !.lost = TRUE] = x
       /\ ~b.acked /\ b.lost /\ b.retrans => [b EXCEPT !.retrans = FALSE] = x
       /\ ~b.acked /\ b.lost /\ ~b.retrans => b = x
  BY <1>2, <1>7 DEF SkbRec
<1> HIDE DEF x
<1> DEFINE l == s.lost_out - Weight(b, "lost") + Weight(x, "lost")
           r == s.retrans_out - Weight(b, "retrans") + Weight(x, "retrans")
           a == s.sacked_out - Weight(b, "sacked") + Weight(x, "sacked")
           u == [s EXCEPT !.rtx = Spliced(s.rtx, i, <<x>>), !.hint = h, !.lost_out = l,
                          !.retrans_out = r, !.sacked_out = a]
<1>12. Marked(s, u, i, x, f)
  BY <1>3, <1>6, <1>9, Remark
<1>13. ~b.acked => l = (IF b.lost THEN s.lost_out ELSE s.lost_out + b.pc)
                   /\ r = (IF b.retrans THEN s.retrans_out - b.pc ELSE s.retrans_out)
                   /\ a = s.sacked_out
  BY <1>1, <1>2, <1>10, <1>8
<1> HIDE DEF l, r, a
<1>14. ~b.acked => t = u
  <2>1. CASE ~b.acked /\ ~b.lost
    <3>1. t = [[s EXCEPT !.rtx = Spliced(@, i, <<x>>), !.hint = h]
                  EXCEPT !.lost_out = @ + b.pc]
      BY <1>4, <1>11, <2>1
    <3>2. l = s.lost_out + b.pc /\ r = s.retrans_out /\ a = s.sacked_out
      BY <1>7, <1>13, <2>1
    <3> QED BY <1>1, <3>1, <3>2 DEF Sockets
  <2>2. CASE ~b.acked /\ b.lost /\ b.retrans
    <3>1. t = [[s EXCEPT !.rtx = Spliced(@, i, <<x>>), !.hint = h]
                  EXCEPT !.retrans_out = @ - b.pc]
      BY <1>4, <1>11, <2>2
    <3>2. l = s.lost_out /\ r = s.retrans_out - b.pc /\ a = s.sacked_out
      BY <1>7, <1>13, <2>2
    <3> QED BY <1>1, <3>1, <3>2 DEF Sockets
  <2>3. CASE ~b.acked /\ b.lost /\ ~b.retrans
    <3>1. t = [s EXCEPT !.rtx = Spliced(@, i, <<x>>), !.hint = h]
      BY <1>4, <1>11, <2>3
    <3>2. l = s.lost_out /\ r = s.retrans_out /\ a = s.sacked_out
      BY <1>7, <1>13, <2>3
    <3> QED BY <1>1, <3>1, <3>2 DEF Sockets
  <2> QED BY <2>1, <2>2, <2>3
<1> HIDE DEF u
<1>15. CASE ~b.acked
  <2>1. x.acked = s.rtx[i].acked
    BY <1>3, <1>7, <1>9, <1>15
  <2>2. LostAt(s, t, i, f)
    BY <1>3, <1>9, <1>12, <1>14, <1>15, <2>1, MarkedLost
  <2> QED BY <2>2 DEF t
<1>16. CASE b.acked
  <2>1. t = s
    BY <1>4, <1>16
  <2>2. LostAt(s, s, i, f)
    BY <1>3, <1>16 DEF LostAt, Frame, SameTimers
  <2> QED BY <2>1, <2>2 DEF t
<1> QED BY <1>15, <1>16

\* t is s with other marks.
Remarked(s, t, f) ==
    /\ Good(t, f) /\ Frame(s, t) /\ SameTimers(s, t)
    /\ t.wq = s.wq /\ t.nxt = s.nxt /\ t.tx = s.tx
    /\ Len(t.rtx) = Len(s.rtx)

\* The first buffer is lost and was not sent again.
HeadLost(t) == t.rtx[1].lost /\ ~t.rtx[1].retrans

\* Marks the buffers of I.
MarkStep(t, i, I) == IF i \in I THEN MarkLost(t, i) ELSE t

\* t is s after some of its buffers were marked lost.
LostSome(s, t, f) ==
    /\ Remarked(s, t, f)
    /\ \A k \in 1..Len(s.rtx) : t.rtx[k].acked = s.rtx[k].acked

\* One more buffer is marked as lost.
LEMMA LostSomeStep ==
  ASSUME NEW s, NEW f, NEW t, LostSome(s, t, f), NEW i \in 1..Len(s.rtx), NEW I
  PROVE  /\ LostSome(s, MarkStep(t, i, I), f)
         /\ i = 1 /\ 1 \in I /\ ~s.rtx[1].acked => HeadLost(MarkStep(t, i, I))
         /\ HeadLost(t) /\ ~s.rtx[1].acked => HeadLost(MarkStep(t, i, I))
<1> DEFINE u == MarkLost(t, i)
<1>1. Good(t, f) /\ Len(t.rtx) = Len(s.rtx) /\ i \in 1..Len(t.rtx)
      /\ \A k \in 1..Len(s.rtx) : t.rtx[k].acked = s.rtx[k].acked
  BY DEF LostSome, Remarked
<1>2. LostAt(t, u, i, f)
  BY <1>1, MarkLostIs
<1> HIDE DEF u
<1>3. LostSome(s, u, f)
  <2>1. Good(u, f) /\ Frame(t, u) /\ SameTimers(t, u) /\ u.wq = t.wq /\ u.nxt = t.nxt
        /\ u.tx = t.tx /\ Len(u.rtx) = Len(t.rtx)
    BY <1>2 DEF LostAt
  <2>2. Remarked(s, u, f)
    BY <2>1 DEF LostSome, Remarked, Frame, SameTimers
  <2>3. \A k \in 1..Len(t.rtx) : u.rtx[k].acked = t.rtx[k].acked
    BY <1>2 DEF LostAt
  <2> QED BY <1>1, <2>2, <2>3 DEF LostSome
<1>4. MarkStep(t, i, I) = IF i \in I THEN u ELSE t
  BY DEF MarkStep, u
<1>5. LostSome(s, MarkStep(t, i, I), f)
  BY <1>3, <1>4
<1>6. ASSUME i = 1, ~s.rtx[1].acked PROVE HeadLost(u)
  BY <1>1, <1>2, <1>6 DEF LostAt, HeadLost
<1>7. ASSUME HeadLost(t), ~s.rtx[1].acked PROVE HeadLost(u)
  <2>1. CASE i = 1
    BY <1>6, <1>7, <2>1
  <2>2. CASE i # 1
    <3>1. 1 \in 1..Len(t.rtx)
      <4>1. Len(t.rtx) \in Nat
        BY <1>1, GoodFacts
      <4> QED BY <1>1, <4>1
    <3>2. u.rtx[1] = t.rtx[1]
      BY <1>2, <2>2, <3>1 DEF LostAt
    <3> QED BY <1>7, <3>2 DEF HeadLost
  <2> QED BY <2>1, <2>2
<1>8. i = 1 /\ 1 \in I /\ ~s.rtx[1].acked => HeadLost(MarkStep(t, i, I))
  BY <1>4, <1>6
<1>9. HeadLost(t) /\ ~s.rtx[1].acked => HeadLost(MarkStep(t, i, I))
  BY <1>4, <1>7
<1> QED BY <1>5, <1>8, <1>9

\* Marking several buffers lost.
LEMMA MarkAllIs ==
  ASSUME NEW s, NEW f, Good(s, f), NEW I
  PROVE  LET t == MarkAll(s, I)
         IN /\ Remarked(s, t, f)
            /\ 1 \in I /\ s.rtx # <<>> /\ ~s.rtx[1].acked => HeadLost(t)
<1> DEFINE Op(t, i) == IF i \in I THEN MarkLost(t, i) ELSE t
           n == Len(s.rtx)
           base == s
           S == {t \in Sockets : LostSome(s, t, f)}
           F == [p \in S \X (1..n) |-> Op(p[1], p[2])]
           Is(g) == g = [k \in 0..n |-> IF k = 0 THEN base ELSE Op(g[k - 1], k)]
<1> QED
  <2>1. n \in Nat /\ s \in Sockets
    BY GoodFacts
  <2>2. LostSome(s, s, f)
    BY DEF LostSome, Remarked, Frame, SameTimers
  <2>3. base \in S
    BY <2>1, <2>2
  <2>4. ASSUME NEW a \in S, NEW k \in 1..n PROVE Op(a, k) \in S
    <3> DEFINE u == Op(a, k)
    <3>1. LostSome(s, a, f)
      OBVIOUS
    <3>2. u = MarkStep(a, k, I)
      BY DEF MarkStep
    <3>3. LostSome(s, u, f)
      BY <3>1, <3>2, LostSomeStep
    <3> HIDE DEF u
    <3>4. u \in Sockets
      BY <3>3, GoodFacts DEF LostSome, Remarked
    <3>5. u \in S
      BY <3>3, <3>4
    <3> QED BY <3>5 DEF u
  <2> HIDE DEF Op, n, base, S
  <2>5. F \in [S \X (1..n) -> S]
    BY <2>4
  <2>6. \A a \in S, k \in 1..n : F[<<a, k>>] = Op(a, k)
    OBVIOUS
  <2> HIDE DEF F
  <2>7. PICK g : /\ g = [k \in 0..n |-> IF k = 0 THEN base ELSE F[<<g[k - 1], k>>]]
                /\ \A k \in 0..n : g[k] \in S
    <3>1. LoopBody(n, S, base, F)
      BY <2>1, <2>3, <2>5 DEF LoopBody
    <3>2. PICK g : LoopOf(g, n, S, base, F)
      BY <3>1, LoopExists
    <3> QED BY <3>2 DEF LoopOf
  <2>8. \A k \in 0..n : k # 0 => F[<<g[k - 1], k>>] = Op(g[k - 1], k)
    BY <2>1, <2>6, <2>7
  <2>9. Is(g)
    BY <2>7, <2>8
  <2> DEFINE h == CHOOSE o : Is(o)
  <2>10. Is(h)
    BY <2>9
  <2>11. Iterate(Op, base, n) = h[n]
    BY DEF Iterate
  <2> HIDE DEF h
  <2>12. h[0] = base /\ \A k \in 1..n : h[k] = Op(h[k - 1], k)
    BY <2>1, <2>10
  <2>13. h[n] \in S
    <3>1. n \in Nat /\ h[0] \in S /\ \A k \in 1..n : h[k - 1] \in S => h[k] \in S
      BY <2>1, <2>3, <2>4, <2>12
    <3> QED BY ONLY <3>1, Upward
  <2>14. \A k \in 0..n : h[k] \in S
    <3>1. n \in Nat /\ h[0] \in S /\ \A k \in 1..n : h[k - 1] \in S => h[k] \in S
      BY <2>1, <2>3, <2>4, <2>12
    <3> QED BY ONLY <3>1, Upward
  <2>15. ASSUME 1 \in I, s.rtx # <<>>, ~s.rtx[1].acked PROVE HeadLost(h[n])
    <3> DEFINE Q == {k \in 0..n : k # 0 => HeadLost(h[k])}
    <3>1. n >= 1
      <4>1. s.rtx \in Seq(Skb)
        BY GoodFacts
      <4>2. n # 0
        BY <2>15, <4>1, SeqFacts DEF n
      <4> QED BY <2>1, <4>2
    <3>2. 0 \in Q
      BY <2>1
    <3>3. ASSUME NEW k \in 1..n, k - 1 \in Q PROVE k \in Q
      <4> DEFINE a == h[k - 1]
      <4>1. k - 1 \in 0..n /\ k \in 0..n
        BY <2>1
      <4>2. a \in S
        BY <2>14, <4>1
      <4>3. LostSome(s, a, f)
        BY <4>2 DEF S
      <4>4. h[k] = MarkStep(a, k, I)
        BY <2>12 DEF Op, MarkStep
      <4>5. k # 1 => HeadLost(a)
        BY <3>3, <4>1
      <4>6. k \in 1..Len(s.rtx)
        BY DEF n
      <4> HIDE DEF a
      <4>7. HeadLost(h[k])
        BY <2>15, <4>3, <4>4, <4>5, <4>6, LostSomeStep
      <4> QED BY <4>1, <4>7
    <3>4. n \in Q
      <4> HIDE DEF Q
      <4> QED BY <2>1, <3>2, <3>3, Induct
    <3> QED BY <3>1, <3>4
  <2>16. MarkAll(s, I) = h[n]
    BY <2>11 DEF MarkAll, Op, base, n
  <2>17. Remarked(s, h[n], f)
    BY <2>13 DEF S, LostSome
  <2> QED BY <2>15, <2>16, <2>17

\* tcp_sacktag_one.
LEMMA SackOneIs ==
  ASSUME NEW s, NEW f, Good(s, f), NEW i \in 1..Len(s.rtx), ~s.rtx[i].acked
  PROVE  Remarked(s, SackOne(s, i), f)
<1> DEFINE b == s.rtx[i]
           x == [b EXCEPT !.acked = TRUE, !.lost = FALSE, !.retrans = FALSE]
           t == SackOne(s, i)
<1>1. s \in Sockets /\ s.bug = FALSE /\ Len(s.rtx) \in Nat /\ s.rtx \in Seq(Skb)
      /\ s.lost_out \in Int /\ s.retrans_out \in Int /\ s.sacked_out \in Int
      /\ s.hint \in Nat /\ HintOK(s)
  BY GoodFacts
<1>2. b \in Skb /\ b.pc \in Nat /\ b \in SkbRec
  BY GoodBuf DEF Skb
<1>3. i \in 1..Len(s.rtx) /\ b = s.rtx[i] /\ ~b.acked
  OBVIOUS
<1> DEFINE l == s.lost_out - b.pc * Bit(b.lost)
           r == s.retrans_out - b.pc * Bit(b.retrans)
           a == s.sacked_out + b.pc
<1>4. t = [s EXCEPT !.rtx = Spliced(s.rtx, i, <<x>>), !.hint = s.hint, !.lost_out = l,
                    !.retrans_out = r, !.sacked_out = a]
  BY <1>1 DEF SackOne, Sockets
<1> HIDE DEF b, t
<1>5. x \in Skb /\ SameBytes(x, b) /\ x.acked = TRUE /\ x.lost = FALSE /\ x.retrans = FALSE
  BY <1>2, MarkedSkb
<1> HIDE DEF x
<1>6. /\ Weight(b, "lost") = IF b.lost THEN b.pc ELSE 0
      /\ Weight(b, "retrans") = IF b.retrans THEN b.pc ELSE 0
      /\ Weight(b, "sacked") = 0
      /\ Weight(x, "lost") = 0 /\ Weight(x, "retrans") = 0 /\ Weight(x, "sacked") = b.pc
  BY <1>2, <1>3, <1>5, Weights DEF SameBytes
<1>7. HintFor(s, i, x, s.hint)
  <2>1. s.hint <= Len(s.rtx) /\ \A k \in 1..s.hint - 1 : ~Waits(s.rtx[k])
    BY <1>1 DEF HintOK, Settled
  <2>2. ~Waits(x)
    BY <1>5 DEF Waits
  <2> QED BY <1>1, <2>1, <2>2 DEF HintFor
<1>8. l = s.lost_out - Weight(s.rtx[i], "lost") + Weight(x, "lost")
  <2>1. b.pc * Bit(b.lost) = Weight(b, "lost")
    BY <1>2, <1>6 DEF Bit
  <2>2. Weight(b, "lost") \in Int
    BY <1>2, WeightNat
  <2> QED BY <1>1, <1>3, <1>6, <2>1, <2>2
<1>9. r = s.retrans_out - Weight(s.rtx[i], "retrans") + Weight(x, "retrans")
  <2>1. b.pc * Bit(b.retrans) = Weight(b, "retrans")
    BY <1>2, <1>6 DEF Bit
  <2>2. Weight(b, "retrans") \in Int
    BY <1>2, WeightNat
  <2> QED BY <1>1, <1>3, <1>6, <2>1, <2>2
<1>10. a = s.sacked_out - Weight(s.rtx[i], "sacked") + Weight(x, "sacked")
  BY <1>1, <1>2, <1>3, <1>6
<1> HIDE DEF l, r, a
<1>11. Marked(s, t, i, x, f)
  BY <1>3, <1>4, <1>5, <1>7, <1>8, <1>9, <1>10, Remark
<1>12. Remarked(s, t, f)
  BY <1>11 DEF Marked, Remarked
<1> QED BY <1>12 DEF t

-----------------------------------------------------------------------------
(* Acknowledgements *)

\* The first buffer of the retransmit queue is acknowledged.
LEMMA SentPopped ==
  ASSUME NEW q, NEW una, NEW nxt, NEW f, SentPart(q, una, nxt, f), q # <<>>
  PROVE  /\ SentPart(Tail(q), q[1].end, nxt, f)
         /\ q[1].end \in Nat /\ una <= q[1].end /\ q[1] \in Skb
<1> DEFINE n == Len(q)
           r == Tail(q)
           m == Len(r)
           u == q[1].end
<1>1. q \in Seq(Skb) /\ una \in Nat /\ nxt \in Nat /\ una <= nxt
  BY DEF SentPart
<1>2. n \in Nat \ {0} /\ r \in Seq(Skb) /\ m = n - 1 /\ \A i \in 1..n - 1 : r[i] = q[i + 1]
  BY <1>1, SeqEnds
<1>3. Linked(q) /\ q[n].end = nxt /\ FinLast(q, f) /\ \A i \in 1..n : RtxOK(q[i], una)
  BY <1>2 DEF SentPart
<1>4. \A i \in 1..n : q[i] \in Skb /\ q[i].end <= nxt
  BY SentOrder
<1>5. \A i \in 1..n : q[i].seq \in Nat /\ q[i].end \in Nat /\ q[i].seq <= q[i].end
  BY <1>4, SkbRange
<1>6. 1 \in 1..n /\ q[1] \in Skb /\ u \in Nat /\ u <= nxt /\ RtxOK(q[1], una)
      /\ q[1].seq \in Nat /\ q[1].seq <= u
  BY <1>2, <1>3, <1>4, <1>5
<1>7. una <= u
  BY <1>1, <1>6 DEF RtxOK
<1>8. ASSUME NEW i \in 1..m PROVE i + 1 \in 1..n /\ r[i] = q[i + 1] /\ r[i].seq >= u
  <2> DEFINE j == i + 1
  <2>1. j \in 1..n /\ 1 < j /\ r[i] = q[j]
    BY <1>2
  <2> HIDE DEF j
  <2>2. q[1].end <= q[j].seq
    BY <1>1, <1>3, <1>6, <2>1, LinkedOrder
  <2>3. q[j].seq \in Nat
    BY <1>5, <2>1
  <2>4. r[i].seq >= u
    BY <1>6, <2>1, <2>2, <2>3
  <2> QED BY <2>1, <2>4 DEF j
<1>9. Linked(r)
  <2> SUFFICES ASSUME NEW i \in 1..m - 1 PROVE r[i].end = r[i + 1].seq
    BY DEF Linked
  <2> DEFINE j == i + 1
  <2>1. i \in 1..m /\ j \in 1..m /\ j \in 1..n - 1
    BY <1>2
  <2>2. r[i] = q[j] /\ r[j] = q[j + 1]
    BY <1>8, <2>1
  <2> HIDE DEF j
  <2>3. q[j].end = q[j + 1].seq
    BY <1>3, <2>1 DEF Linked
  <2>4. r[i].end = r[j].seq
    BY <2>2, <2>3
  <2> QED BY <2>4 DEF j
<1>10. m = 0 => u = nxt
  <2>1. m = 0 => n = 1
    <3>1. n \in Nat /\ m = n - 1
      BY <1>2
    <3> HIDE DEF m, n
    <3> QED BY <3>1
  <2> QED BY <1>3, <2>1
<1>11. m > 0 => r[1].seq <= u /\ r[m].end = nxt
  <2> SUFFICES ASSUME m > 0 PROVE r[1].seq <= u /\ r[m].end = nxt
    OBVIOUS
  <2>1. 1 \in 1..m /\ m \in 1..m /\ 1 \in 1..n - 1 /\ m + 1 = n
    BY <1>2
  <2>2. r[m] = q[n]
    BY <1>8, <2>1
  <2>3. r[1] = q[2] /\ q[1].end = q[2].seq
    <3>1. r[1] = q[1 + 1] /\ q[1].end = q[1 + 1].seq
      BY <1>3, <1>8, <2>1 DEF Linked
    <3> QED BY <3>1
  <2> QED BY <1>3, <1>6, <2>2, <2>3
<1>12. ASSUME NEW i \in 1..m PROVE RtxOK(r[i], u)
  <2>1. r[i].seq >= u /\ r[i] = q[i + 1] /\ RtxOK(q[i + 1], una)
    BY <1>3, <1>8
  <2> QED BY <2>1 DEF RtxOK
<1>13. FinLast(r, f)
  <2> SUFFICES ASSUME NEW i \in 1..m, r[i].fin PROVE i = m /\ f
    BY DEF FinLast
  <2>1. i + 1 \in 1..n /\ r[i] = q[i + 1]
    BY <1>8
  <2>2. i + 1 = n /\ f
    BY <1>3, <2>1 DEF FinLast
  <2>3. i = m
    <3>1. n - 1 = i
      BY <2>2
    <3> QED BY <1>2, <3>1
  <2> QED BY <2>2, <2>3
<1> HIDE DEF r, m
<1>14. SentPart(r, u, nxt, f)
  BY <1>1, <1>2, <1>6, <1>9, <1>10, <1>11, <1>12, <1>13 DEF SentPart, m
<1> QED BY <1>6, <1>7, <1>14 DEF r

\* The acknowledgement ends inside the first buffer, of which x is left.
LEMMA SentAdvanced ==
  ASSUME NEW q, NEW una, NEW nxt, NEW f, SentPart(q, una, nxt, f), q # <<>>,
         NEW ack \in Nat, una <= ack, ack < q[1].end, NEW x \in Skb,
         x.pc >= 1, x.end = q[1].end, x.fin = q[1].fin, x.seq <= ack,
         x.pc > 1 => x.seq >= ack,
         NEW r \in Seq(Skb), Len(r) = Len(q),
         \A k \in 1..Len(q) : r[k] = IF k = 1 THEN x ELSE q[k]
  PROVE  SentPart(r, ack, nxt, f)
<1> DEFINE n == Len(q)
<1>1. q \in Seq(Skb) /\ una \in Nat /\ nxt \in Nat /\ una <= nxt
  BY DEF SentPart
<1>2. n \in Nat \ {0}
  BY <1>1, SeqEnds
<1>3. Linked(q) /\ q[n].end = nxt /\ FinLast(q, f) /\ \A i \in 1..n : RtxOK(q[i], una)
  BY <1>2 DEF SentPart
<1>4. \A i \in 1..n : q[i] \in Skb /\ q[i].end <= nxt
  BY SentOrder
<1>5. \A i \in 1..n : q[i].seq \in Nat /\ q[i].end \in Nat /\ q[i].seq <= q[i].end
  BY <1>4, SkbRange
<1>6. 1 \in 1..n /\ n \in 1..n /\ q[1].end \in Nat /\ q[1].end <= nxt /\ r[1] = x
      /\ x.seq \in Nat /\ x.end \in Nat
  BY <1>2, <1>4, <1>5, SkbRange
<1>7. ack <= nxt
  BY <1>1, <1>6
<1>8. \A k \in 2..n : k \in 1..n /\ k # 1 /\ r[k] = q[k]
  BY <1>2
<1>9. \A k \in 1..n : r[k].end = q[k].end /\ r[k].fin = q[k].fin
  BY <1>6
<1>10. Linked(r)
  <2> SUFFICES ASSUME NEW i \in 1..n - 1 PROVE r[i].end = r[i + 1].seq
    BY DEF Linked
  <2>1. i + 1 \in 2..n /\ i \in 1..n
    BY <1>2
  <2>2. q[i].end = q[i + 1].seq
    BY <1>3 DEF Linked
  <2> QED BY <1>8, <1>9, <2>1, <2>2
<1>11. FinLast(r, f)
  <2> SUFFICES ASSUME NEW i \in 1..n, r[i].fin PROVE i = n /\ f
    BY DEF FinLast
  <2>1. q[i].fin
    BY <1>9
  <2> QED BY <1>3, <2>1 DEF FinLast
<1>12. ASSUME NEW i \in 1..n PROVE RtxOK(r[i], ack)
  <2>1. CASE i = 1
    BY <1>6, <2>1 DEF RtxOK
  <2>2. CASE i # 1
    <3>1. 1 < i /\ r[i] = q[i] /\ RtxOK(q[i], una) /\ q[i].seq \in Nat
      BY <1>2, <1>3, <1>5, <2>2
    <3>2. q[1].end <= q[i].seq
      BY <1>1, <1>3, <1>6, <3>1, LinkedOrder
    <3>3. q[i].seq >= ack
      BY <1>6, <3>1, <3>2
    <3> QED BY <3>1, <3>3 DEF RtxOK
  <2> QED BY <2>1, <2>2
<1>13. r[n].end = nxt /\ r[1].seq <= ack
  BY <1>3, <1>6, <1>9
<1>14. Len(r) = n /\ n # 0 /\ n > 0
  BY <1>2
<1> HIDE DEF n
<1> QED BY <1>1, <1>7, <1>10, <1>11, <1>12, <1>13, <1>14 DEF SentPart

\* t is s with some of the acknowledged buffers gone.
Leaving(s, t, u, f) ==
    /\ GoodAt(t, u, f) /\ Frame(s, t) /\ SameTimers(s, t)
    /\ t.wq = s.wq /\ t.nxt = s.nxt /\ t.tx = s.tx

\* An acknowledged buffer leaves the queue.
LEMMA PopIs ==
  ASSUME NEW s, NEW u, NEW f, GoodAt(s, u, f), s.rtx # <<>>
  PROVE  LET t == [AdjustPcount(s, Head(s.rtx), Head(s.rtx).pc)
                     EXCEPT !.rtx = Tail(@), !.hint = Max({@ - 1, 0})]
         IN /\ Leaving(s, t, s.rtx[1].end, f) /\ Len(t.rtx) = Len(s.rtx) - 1
            /\ s.rtx[1].end \in Nat /\ u <= s.rtx[1].end
<1> DEFINE b == s.rtx[1]
           m == AdjustPcount(s, b, b.pc)
           w == Tail(s.rtx)
           h == IF s.hint - 1 >= 0 THEN s.hint - 1 ELSE 0
           t == [m EXCEPT !.rtx = w, !.hint = h]
           e == b.end
<1>1. s \in Sockets /\ SentPart(s.rtx, u, s.nxt, f /\ s.wq = <<>>)
      /\ UnsentPart(s.wq, s.nxt, s.wseq, f) /\ Counted(s) /\ HintOK(s) /\ TxIn(s)
      /\ s.bug = FALSE
  BY DEF GoodAt
<1>2. s.rtx \in Seq(Skb) /\ s.hint \in Nat
  BY <1>1, SocketFields
<1>3. /\ Head(s.rtx) = b /\ Len(s.rtx) \in Nat \ {0} /\ w \in Seq(Skb)
      /\ Len(w) = Len(s.rtx) - 1
      /\ \A i \in 1..Len(s.rtx) - 1 : w[i] = s.rtx[i + 1]
  BY <1>2, SeqEnds
<1>4. /\ SentPart(w, e, s.nxt, f /\ s.wq = <<>>)
      /\ e \in Nat /\ u <= e /\ b \in Skb
  BY <1>1, SentPopped
<1>5. b.pc \in Nat /\ b.pc \in Int
  BY <1>4, SkbRange
<1>6. Max({s.hint - 1, 0}) = h
  <2> DEFINE p == s.hint - 1
             z == 0
  <2>1. p \in Int /\ z \in Int
    BY <1>2
  <2> HIDE DEF p, z
  <2>2. Max({p, z}) = IF p >= z THEN p ELSE z
    BY ONLY <2>1, MinPair
  <2> QED BY <2>2 DEF p, z
<1>7. Recounted(s, m, b, b.pc)
  BY <1>1, <1>4, <1>5, Recount
<1>8. h \in Nat /\ h <= Len(w) /\ \A k \in 1..h - 1 : ~Waits(w[k])
  <2>1. s.hint <= Len(s.rtx) /\ \A k \in 1..s.hint - 1 : ~Waits(s.rtx[k])
    BY <1>1 DEF HintOK, Settled
  <2>2. h \in Nat /\ h <= Len(w)
    BY <1>2, <1>3, <2>1
  <2>3. ASSUME NEW k \in 1..h - 1 PROVE ~Waits(w[k])
    <3> DEFINE j == k + 1
    <3>1. k \in 1..Len(s.rtx) - 1 /\ j \in 1..s.hint - 1
      BY <1>2, <1>3, <2>1
    <3>2. w[k] = s.rtx[j]
      BY <1>3, <3>1
    <3> HIDE DEF j
    <3> QED BY <2>1, <3>1, <3>2
  <2> QED BY <2>2, <2>3
<1>9. w = Tail(s.rtx)
  OBVIOUS
<1>10. e = s.rtx[1].end /\ b = s.rtx[1]
  OBVIOUS
<1>11. [AdjustPcount(s, Head(s.rtx), Head(s.rtx).pc)
          EXCEPT !.rtx = Tail(@), !.hint = Max({@ - 1, 0})] = t
  <2>1. m.rtx = s.rtx /\ m.hint = s.hint
    BY <1>7 DEF Recounted
  <2>2. AdjustPcount(s, Head(s.rtx), Head(s.rtx).pc) = m
    BY <1>3
  <2> HIDE DEF m, b, h
  <2> QED BY <1>6, <2>1, <2>2
<1> HIDE DEF m, w, h, e, b
<1>12. /\ m \in Sockets /\ Frame(s, m) /\ SameTimers(s, m)
       /\ m.rtx = s.rtx /\ m.wq = s.wq /\ m.nxt = s.nxt /\ m.hint = s.hint
       /\ m.tx = s.tx /\ m.bug = s.bug
       /\ \A c \in Marks : Counter(m, c) = Counter(s, c) - (IF Has(b, c) THEN b.pc ELSE 0)
  BY <1>7 DEF Recounted
<1>13. /\ t \in Sockets /\ Frame(m, t) /\ SameTimers(m, t) /\ SameCounts(m, t)
       /\ t.rtx = w /\ t.wq = m.wq /\ t.nxt = m.nxt /\ t.hint = h
       /\ t.tx = m.tx /\ t.bug = m.bug
  BY <1>3, <1>8, <1>12 DEF Sockets, Frame, SameTimers, SameCounts
<1> HIDE DEF t
<1>14. Frame(s, t) /\ SameTimers(s, t)
  BY <1>12, <1>13 DEF Frame, SameTimers
<1>15. Counted(t)
  <2> SUFFICES ASSUME NEW c \in Marks PROVE Sums(w, c, Counter(t, c))
    BY <1>13 DEF Counted
  <2>1. Sums(s.rtx, c, Counter(s, c))
    BY <1>1 DEF Counted
  <2>2. Sums(w, c, Counter(s, c) - Weight(b, c))
    BY <1>2, <1>9, <1>10, <2>1, SumsPop
  <2>3. Counter(t, c) = Counter(s, c) - Weight(b, c)
    BY <1>12, <1>13 DEF Counter, SameCounts, Weight
  <2> QED BY <2>2, <2>3
<1>16. HintOK(t)
  BY <1>8, <1>13 DEF HintOK, Settled
<1>17. GoodAt(t, e, f)
  BY <1>1, <1>4, <1>12, <1>13, <1>14, <1>15, <1>16 DEF GoodAt, TxIn, Frame
<1>18. Leaving(s, t, e, f)
  BY <1>12, <1>13, <1>14, <1>17 DEF Leaving
<1>19. Len(t.rtx) = Len(s.rtx) - 1
  BY <1>3, <1>13
<1> QED BY <1>4, <1>10, <1>11, <1>18, <1>19

\* t is s with the bytes below ack acknowledged.
Cleaned(s, t, ack, f) ==
    /\ Good(t, f) /\ t.una = ack
    /\ t.state = s.state /\ t.wseq = s.wseq /\ t.wnd = s.wnd /\ t.mss = s.mss
    /\ t.nonagle = s.nonagle /\ SameTimers(s, t)
    /\ t.wq = s.wq /\ t.nxt = s.nxt /\ t.tx = s.tx

\* snd_una moves to where the queue begins, while nothing is on the wire.
LEMMA UnaSet ==
  ASSUME NEW s, NEW t, NEW ack \in Nat, NEW f, Leaving(s, t, ack, f), s.tx = {}
  PROVE  Cleaned(s, [t EXCEPT !.una = ack], ack, f)
<1> DEFINE x == [t EXCEPT !.una = ack]
<1>1. GoodAt(t, ack, f) /\ Frame(s, t) /\ SameTimers(s, t) /\ t.wq = s.wq /\ t.nxt = s.nxt
      /\ t.tx = s.tx
  BY DEF Leaving
<1>2. t \in Sockets
  BY <1>1 DEF GoodAt
<1>3. /\ x \in Sockets /\ x.una = ack /\ x.state = t.state /\ x.wseq = t.wseq /\ x.wnd = t.wnd
      /\ x.mss = t.mss /\ x.nonagle = t.nonagle /\ SameTimers(t, x) /\ SameCounts(t, x)
      /\ x.wq = t.wq /\ x.nxt = t.nxt /\ x.tx = t.tx /\ x.rtx = t.rtx /\ x.hint = t.hint
      /\ x.bug = t.bug
  BY <1>2 DEF Sockets, SameTimers, SameCounts
<1> HIDE DEF x
<1>4. Counted(x)
  <2>1. Counted(t)
    BY <1>1 DEF GoodAt
  <2> QED BY <1>3, <2>1 DEF Counted, Counter, SameCounts
<1>5. Good(x, f)
  <2>1. TxIn(x)
    BY <1>1, <1>3 DEF TxIn
  <2> QED BY <1>1, <1>3, <1>4, <2>1 DEF Good, GoodAt, HintOK
<1>6. Cleaned(s, x, ack, f)
  BY <1>1, <1>3, <1>5 DEF Cleaned, Frame, SameTimers
<1> QED BY <1>6 DEF x

\* The first buffer is not acknowledged in full.
Inside(t, u, ack) == t.rtx # <<>> /\ u <= ack /\ ack < t.rtx[1].end

\* It is left as it is when it is a single segment.
LEMMA KeepFirst ==
  ASSUME NEW s, NEW t, NEW u, NEW ack \in Nat, NEW f, Leaving(s, t, u, f), Inside(t, u, ack),
         t.rtx[1].pc > 1 => t.rtx[1].seq >= ack
  PROVE  Leaving(s, t, ack, f)
<1> DEFINE q == t.rtx
           x == q[1]
           g == f /\ t.wq = <<>>
           e == t.nxt
<1>1. GoodAt(t, u, f) /\ q # <<>> /\ u <= ack /\ ack < x.end
  BY DEF Leaving, Inside
<1>2. SentPart(q, u, e, g) /\ q \in Seq(Skb)
  BY <1>1 DEF GoodAt, SentPart
<1>3. Len(q) \in Nat \ {0}
  BY <1>1, <1>2, SeqEnds
<1>4. 1 \in 1..Len(q) /\ Len(q) > 0
  BY <1>3
<1>5. x \in Skb /\ RtxOK(x, u) /\ q[1].seq <= u /\ u \in Nat
  BY <1>2, <1>4, SentOrder DEF SentPart
<1>6. x.pc >= 1 /\ x.seq <= ack /\ x.seq \in Nat
  <2>1. x.seq \in Nat
    BY <1>5, SkbRange
  <2> QED BY <1>1, <1>5, <2>1 DEF RtxOK
<1>7. x.pc > 1 => x.seq >= ack
  OBVIOUS
<1>8. x = q[1]
  OBVIOUS
<1>9. \A k \in 1..Len(q) : q[k] = IF k = 1 THEN x ELSE q[k]
  OBVIOUS
<1> HIDE DEF q, x, g, e
<1>10. SentPart(q, ack, e, g)
  BY <1>1, <1>2, <1>5, <1>6, <1>7, <1>8, <1>9, SentAdvanced
<1>11. GoodAt(t, ack, f)
  BY <1>1, <1>10 DEF GoodAt, q, e, g
<1> QED BY <1>11 DEF Leaving

\* The acknowledged part of a TSO buffer is trimmed.
LEMMA TrimFirst ==
  ASSUME NEW s, NEW t, NEW u, NEW ack \in Nat, NEW f, Leaving(s, t, u, f), Inside(t, u, ack),
         t.rtx[1].seq < ack
  PROVE  LET b == t.rtx[1]
             x == TrimHead(b, ack)
         IN Leaving(s, [AdjustPcount(t, b, b.pc - x.pc) EXCEPT !.rtx = Spliced(@, 1, <<x>>)],
                    ack, f)
<1> DEFINE b == t.rtx[1]
           x == TrimHead(b, ack)
           d == b.pc - x.pc
           m == AdjustPcount(t, b, d)
           w == Spliced(t.rtx, 1, <<x>>)
           y == [m EXCEPT !.rtx = w]
<1>1. GoodAt(t, u, f) /\ t.rtx # <<>> /\ u <= ack /\ ack < b.end /\ b.seq < ack /\ Frame(s, t)
      /\ SameTimers(s, t) /\ t.wq = s.wq /\ t.nxt = s.nxt /\ t.tx = s.tx
  BY DEF Leaving, Inside
<1>2. t \in Sockets /\ SentPart(t.rtx, u, t.nxt, f /\ t.wq = <<>>) /\ t.rtx \in Seq(Skb)
      /\ UnsentPart(t.wq, t.nxt, t.wseq, f) /\ Counted(t) /\ HintOK(t) /\ TxIn(t)
      /\ t.bug = FALSE
  BY <1>1 DEF GoodAt, SentPart
<1>3. Len(t.rtx) \in Nat \ {0}
  BY <1>1, <1>2, SeqEnds
<1>4. 1 \in 1..Len(t.rtx) /\ Len(t.rtx) > 0
  BY <1>3
<1>5. b \in Skb /\ RtxOK(b, u) /\ u \in Nat
  BY <1>2, <1>4, SentOrder DEF SentPart
<1>6. b.pc >= 1 /\ b.pc \in Nat
  BY <1>5, SkbRange DEF RtxOK
<1>7. b = t.rtx[1]
  OBVIOUS
<1> HIDE DEF b
<1>8. /\ x \in Skb /\ x.seq = ack /\ x.end = b.end /\ x.fin = b.fin /\ x.acked = b.acked
      /\ x.retrans = b.retrans /\ x.lost = b.lost /\ x.pc >= 1
  BY <1>1, <1>5, <1>6, TrimHeadIs
<1> HIDE DEF x
<1>9. x.pc \in Nat /\ d \in Int /\ d = b.pc - x.pc
  BY <1>6, <1>8, SkbRange
<1>10. Recounted(t, m, b, d)
  <2> HIDE DEF d
  <2> QED BY <1>2, <1>5, <1>9, Recount
<1>11. /\ w \in Seq(Skb) /\ Len(w) = Len(t.rtx)
       /\ \A k \in 1..Len(t.rtx) : w[k] = IF k = 1 THEN x ELSE t.rtx[k]
  <2> DEFINE q == t.rtx
             i == 1
  <2>1. q \in Seq(Skb) /\ i \in 1..Len(q) /\ x \in Skb
    BY <1>2, <1>4, <1>8
  <2> HIDE DEF q, i
  <2>2. /\ Spliced(q, i, <<x>>) \in Seq(Skb) /\ Len(Spliced(q, i, <<x>>)) = Len(q)
        /\ \A k \in 1..Len(q) : Spliced(q, i, <<x>>)[k] = IF k = i THEN x ELSE q[k]
    BY ONLY <2>1, SplicedOne
  <2> QED BY <2>2 DEF q, i
<1>12. w = Spliced(t.rtx, 1, <<x>>)
  OBVIOUS
<1> HIDE DEF d, m, w
<1>13. /\ m \in Sockets /\ Frame(t, m) /\ SameTimers(t, m)
       /\ m.rtx = t.rtx /\ m.wq = t.wq /\ m.nxt = t.nxt /\ m.hint = t.hint
       /\ m.tx = t.tx /\ m.bug = t.bug
       /\ \A c \in Marks : Counter(m, c) = Counter(t, c) - (IF Has(b, c) THEN d ELSE 0)
  BY <1>10 DEF Recounted
<1>14. /\ y \in Sockets /\ Frame(m, y) /\ SameTimers(m, y) /\ SameCounts(m, y)
       /\ y.rtx = w /\ y.wq = m.wq /\ y.nxt = m.nxt /\ y.hint = m.hint
       /\ y.tx = m.tx /\ y.bug = m.bug
  BY <1>11, <1>13 DEF Sockets, Frame, SameTimers, SameCounts
<1>15. [AdjustPcount(t, b, b.pc - x.pc) EXCEPT !.rtx = Spliced(@, 1, <<x>>)] = y
  BY <1>12, <1>13 DEF m, d
<1> HIDE DEF y
<1>16. SentPart(w, ack, t.nxt, f /\ t.wq = <<>>)
  <2> DEFINE q == t.rtx
             g == f /\ t.wq = <<>>
             e == t.nxt
  <2>1. SentPart(q, u, e, g) /\ q # <<>> /\ b = q[1] /\ w \in Seq(Skb) /\ Len(w) = Len(q)
        /\ \A k \in 1..Len(q) : w[k] = IF k = 1 THEN x ELSE q[k]
    BY <1>1, <1>2, <1>7, <1>11
  <2>2. x.pc >= 1 /\ x.end = q[1].end /\ x.fin = q[1].fin /\ x.seq <= ack
        /\ (x.pc > 1 => x.seq >= ack) /\ ack < q[1].end
    BY <1>1, <1>8, <2>1
  <2> HIDE DEF q, g, e
  <2>3. SentPart(w, ack, e, g)
    BY <1>1, <1>8, <2>1, <2>2, SentAdvanced
  <2> QED BY <2>3 DEF e, g
<1>17. SameMarks(x, b)
  BY <1>8 DEF SameMarks
<1>18. Counted(y)
  <2> SUFFICES ASSUME NEW c \in Marks PROVE Sums(w, c, Counter(y, c))
    BY <1>14 DEF Counted
  <2>1. Sums(t.rtx, c, Counter(t, c))
    BY <1>2 DEF Counted
  <2>2. Sums(w, c, Counter(t, c) - Weight(b, c) + Weight(x, c))
    BY <1>2, <1>4, <1>7, <1>8, <1>11, <2>1, SumsReplace
  <2>3. Counter(y, c) = Counter(t, c) - (IF Has(b, c) THEN d ELSE 0)
    BY <1>13, <1>14 DEF Counter, SameCounts
  <2>4. Weight(x, c) = IF Has(b, c) THEN x.pc ELSE 0
    BY <1>17, MarksIs
  <2>5. Weight(b, c) = IF Has(b, c) THEN b.pc ELSE 0
    BY DEF Weight
  <2>6. Counter(t, c) \in Int
    BY <1>2, CounterInt
  <2>7. Counter(y, c) = Counter(t, c) - Weight(b, c) + Weight(x, c)
    <3>1. CASE Has(b, c)
      BY <1>6, <1>9, <2>3, <2>4, <2>5, <2>6, <3>1
    <3>2. CASE ~Has(b, c)
      BY <1>6, <1>9, <2>3, <2>4, <2>5, <2>6, <3>2
    <3> QED BY <3>1, <3>2
  <2> QED BY <2>2, <2>7
<1>19. HintOK(y)
  <2>1. t.hint <= Len(t.rtx) /\ \A k \in 1..t.hint - 1 : ~Waits(t.rtx[k])
    BY <1>2 DEF HintOK, Settled
  <2>2. t.hint \in Nat
    BY <1>2, SocketFields
  <2>3. \A k \in 1..t.hint - 1 : k \in 1..Len(t.rtx)
    BY <1>3, <2>1, <2>2
  <2>4. Waits(x) <=> Waits(b)
    BY <1>17, MarksIs
  <2>5. \A k \in 1..t.hint - 1 : ~Waits(w[k])
    BY <1>7, <1>11, <2>1, <2>3, <2>4
  <2> QED BY <1>11, <1>13, <1>14, <2>1, <2>5 DEF HintOK, Settled
<1>20. Frame(t, y) /\ SameTimers(t, y) /\ y.wq = t.wq /\ y.nxt = t.nxt /\ y.tx = t.tx
       /\ y.bug = t.bug
  BY <1>13, <1>14 DEF Frame, SameTimers
<1>21. GoodAt(y, ack, f)
  BY <1>2, <1>14, <1>16, <1>18, <1>19, <1>20 DEF GoodAt, TxIn, Frame
<1>22. Leaving(s, y, ack, f)
  BY <1>1, <1>20, <1>21 DEF Leaving, Frame, SameTimers
<1> QED BY <1>15, <1>22 DEF b, x

\* What one turn of tcp_clean_rtx_queue's loop does.
LeaveOne(t, ack) ==
    IF t.rtx = <<>> \/ Head(t.rtx).end > ack THEN t
    ELSE [AdjustPcount(t, Head(t.rtx), Head(t.rtx).pc)
            EXCEPT !.rtx = Tail(@), !.hint = Max({@ - 1, 0})]

\* The loop has nothing more to do.
CleanStops(t, ack) == t.rtx = <<>> \/ t.rtx[1].end > ack

\* t is s with some of the buffers below ack gone.
Leaves(s, t, ack, f) == \E u \in s.una..ack : Leaving(s, t, u, f)

\* One turn of the loop of tcp_clean_rtx_queue.
LEMMA LeaveOneIs ==
  ASSUME NEW s, NEW t, NEW ack \in Nat, NEW f, s.una \in Nat, Leaves(s, t, ack, f)
  PROVE  /\ Leaves(s, LeaveOne(t, ack), ack, f)
         /\ CleanStops(t, ack) => LeaveOne(t, ack) = t
         /\ ~CleanStops(t, ack) => Len(LeaveOne(t, ack).rtx) = Len(t.rtx) - 1
<1> DEFINE y == [AdjustPcount(t, Head(t.rtx), Head(t.rtx).pc)
                   EXCEPT !.rtx = Tail(@), !.hint = Max({@ - 1, 0})]
<1>1. PICK u \in s.una..ack : Leaving(s, t, u, f)
  BY DEF Leaves
<1>2. GoodAt(t, u, f) /\ Frame(s, t) /\ SameTimers(s, t) /\ t.wq = s.wq /\ t.nxt = s.nxt
      /\ t.tx = s.tx
  BY <1>1 DEF Leaving
<1>3. t.rtx \in Seq(Skb)
  BY <1>2 DEF GoodAt, SentPart
<1>4. t.rtx # <<>> => Head(t.rtx) = t.rtx[1]
  BY <1>3, SeqEnds
<1>5. CASE CleanStops(t, ack)
  <2>1. LeaveOne(t, ack) = t
    BY <1>4, <1>5 DEF CleanStops, LeaveOne
  <2> QED BY <1>5, <2>1
<1>6. CASE ~CleanStops(t, ack)
  <2>1. t.rtx # <<>> /\ ~(t.rtx[1].end > ack)
    BY <1>6 DEF CleanStops
  <2>2. LeaveOne(t, ack) = y
    BY <1>4, <2>1 DEF LeaveOne
  <2>3. /\ Leaving(t, y, t.rtx[1].end, f) /\ Len(y.rtx) = Len(t.rtx) - 1
        /\ t.rtx[1].end \in Nat /\ u <= t.rtx[1].end
    BY <1>2, <2>1, PopIs
  <2> HIDE DEF y
  <2>4. t.rtx[1].end \in s.una..ack
    BY <1>1, <2>1, <2>3
  <2>5. Leaving(s, y, t.rtx[1].end, f)
    BY <1>2, <2>3 DEF Leaving, Frame, SameTimers
  <2>6. Leaves(s, y, ack, f)
    BY <2>4, <2>5 DEF Leaves
  <2> QED BY <1>6, <2>2, <2>3, <2>6
<1> QED BY <1>5, <1>6

\* The loop takes every buffer below ack off the queue.
LEMMA CleanLoop ==
  ASSUME NEW s, NEW f, Good(s, f), NEW ack \in s.una..s.nxt
  PROVE  LET t == Iterate(LAMBDA a, k : LeaveOne(a, ack), s, Len(s.rtx))
         IN Leaves(s, t, ack, f) /\ CleanStops(t, ack)
<1> DEFINE Op(a, k) == LeaveOne(a, ack)
           n == Len(s.rtx)
           base == s
           S == {t \in Sockets : Leaves(s, t, ack, f)}
           F == [p \in S \X (1..n) |-> Op(p[1], p[2])]
           Is(g) == g = [k \in 0..n |-> IF k = 0 THEN base ELSE Op(g[k - 1], k)]
<1> QED
  <2>1. n \in Nat /\ s \in Sockets /\ s.una \in Nat /\ s.nxt \in Nat /\ ack \in Nat /\ s.una <= ack
    <3>1. n \in Nat /\ s \in Sockets /\ s.una \in Nat /\ s.nxt \in Nat
      BY GoodFacts
    <3>2. ack \in Nat /\ s.una <= ack
      BY <3>1
    <3> QED BY <3>1, <3>2
  <2>2. Leaves(s, s, ack, f)
    <3>1. Leaving(s, s, s.una, f) /\ s.una \in s.una..ack
      BY <2>1 DEF Leaving, Good, Frame, SameTimers
    <3> QED BY <3>1 DEF Leaves
  <2>3. base \in S
    BY <2>1, <2>2
  <2>4. ASSUME NEW a \in S, NEW k PROVE Op(a, k) \in S
    <3> DEFINE u == LeaveOne(a, ack)
    <3>1. Leaves(s, a, ack, f)
      OBVIOUS
    <3>2. Leaves(s, u, ack, f)
      BY <2>1, <3>1, LeaveOneIs
    <3> HIDE DEF u
    <3>3. u \in Sockets
      BY <3>2 DEF Leaves, Leaving, GoodAt
    <3>4. u \in S
      BY <3>2, <3>3
    <3> QED BY <3>4 DEF u
  <2> HIDE DEF Op, n, base, S
  <2>5. F \in [S \X (1..n) -> S]
    BY <2>4
  <2>6. \A a \in S, k \in 1..n : F[<<a, k>>] = Op(a, k)
    OBVIOUS
  <2> HIDE DEF F
  <2>7. PICK g : /\ g = [k \in 0..n |-> IF k = 0 THEN base ELSE F[<<g[k - 1], k>>]]
                /\ \A k \in 0..n : g[k] \in S
    <3>1. LoopBody(n, S, base, F)
      BY <2>1, <2>3, <2>5 DEF LoopBody
    <3>2. PICK g : LoopOf(g, n, S, base, F)
      BY <3>1, LoopExists
    <3> QED BY <3>2 DEF LoopOf
  <2>8. \A k \in 0..n : k # 0 => F[<<g[k - 1], k>>] = Op(g[k - 1], k)
    BY <2>1, <2>6, <2>7
  <2>9. Is(g)
    BY <2>7, <2>8
  <2> DEFINE h == CHOOSE o : Is(o)
  <2>10. Is(h)
    BY <2>9
  <2>11. Iterate(Op, base, n) = h[n]
    BY DEF Iterate
  <2> HIDE DEF h
  <2>12. h[0] = base /\ \A k \in 1..n : h[k] = Op(h[k - 1], k)
    BY <2>1, <2>10
  <2>13. h[n] \in S
    <3>1. n \in Nat /\ h[0] \in S /\ \A k \in 1..n : h[k - 1] \in S => h[k] \in S
      BY <2>1, <2>3, <2>4, <2>12
    <3> QED BY ONLY <3>1, Upward
  <2>14. \A k \in 0..n : h[k] \in S
    <3>1. n \in Nat /\ h[0] \in S /\ \A k \in 1..n : h[k - 1] \in S => h[k] \in S
      BY <2>1, <2>3, <2>4, <2>12
    <3> QED BY ONLY <3>1, Upward
  <2>15. CleanStops(h[n], ack)
    <3> DEFINE Q == {k \in 0..n : CleanStops(h[k], ack) \/ Len(h[k].rtx) = n - k}
    <3>1. 0 \in Q
      <4>1. h[0] = s
        BY <2>12 DEF base
      <4>2. Len(h[0].rtx) = n - 0
        BY <2>1, <4>1 DEF n
      <4> QED BY <2>1, <4>2
    <3>2. ASSUME NEW k \in 1..n, k - 1 \in Q PROVE k \in Q
      <4> DEFINE a == h[k - 1]
      <4>1. k - 1 \in 0..n /\ k \in 0..n
        BY <2>1
      <4>2. a \in S
        BY <2>14, <4>1
      <4>3. Leaves(s, a, ack, f)
        BY <4>2 DEF S
      <4>4. h[k] = LeaveOne(a, ack)
        BY <2>12 DEF Op
      <4>5. CleanStops(a, ack) \/ Len(a.rtx) = n - (k - 1)
        BY <3>2
      <4> HIDE DEF a
      <4>6. CleanStops(a, ack) => CleanStops(h[k], ack)
        BY <2>1, <4>3, <4>4, LeaveOneIs
      <4>7. ~CleanStops(a, ack) => Len(h[k].rtx) = n - k
        <5>1. ~CleanStops(a, ack) => Len(h[k].rtx) = Len(a.rtx) - 1
          BY <2>1, <4>3, <4>4, LeaveOneIs
        <5>2. n - (k - 1) - 1 = n - k
          BY <2>1, <4>1
        <5> QED BY <4>5, <5>1, <5>2
      <4> QED BY <4>1, <4>6, <4>7
    <3>3. n \in Q
      <4> HIDE DEF Q
      <4> QED BY <2>1, <3>1, <3>2, Induct
    <3>4. CleanStops(h[n], ack) \/ Len(h[n].rtx) = 0
      BY <2>1, <3>3
    <3>5. h[n].rtx \in Seq(Skb)
      BY <2>13 DEF S, Leaves, Leaving, GoodAt, SentPart
    <3> QED BY <3>4, <3>5, SeqFacts DEF CleanStops
  <2>16. Iterate(LAMBDA a, k : LeaveOne(a, ack), s, Len(s.rtx)) = h[n]
    BY <2>11 DEF Op, base, n
  <2>17. Leaves(s, h[n], ack, f)
    BY <2>13 DEF S
  <2> QED BY <2>15, <2>16, <2>17

\* tcp_clean_rtx_queue, when trimming does not fail.
LEMMA CleanIs ==
  ASSUME NEW s, NEW f, Good(s, f), NEW ack \in s.una..s.nxt, s.tx = {}
  PROVE  Cleaned(s, CleanRtxQueue(s, ack, TRUE), ack, f)
<1> DEFINE t == Iterate(LAMBDA a, k : LeaveOne(a, ack), s, Len(s.rtx))
           b == t.rtx[1]
           x == TrimHead(b, ack)
           y == [AdjustPcount(t, b, b.pc - x.pc) EXCEPT !.rtx = Spliced(@, 1, <<x>>)]
           c == CleanRtxQueue(s, ack, TRUE)
<1>1. ack \in Nat /\ s.una \in Nat /\ s.nxt \in Nat /\ s.una <= ack /\ ack <= s.nxt
  <2>1. s.una \in Nat /\ s.nxt \in Nat
    BY GoodFacts
  <2>2. ack \in Nat /\ s.una <= ack /\ ack <= s.nxt
    BY <2>1
  <2> QED BY <2>1, <2>2
<1>2. Leaves(s, t, ack, f) /\ CleanStops(t, ack)
  BY CleanLoop
<1>3. c = [IF t.rtx # <<>> /\ Head(t.rtx).pc > 1 /\ Head(t.rtx).seq < ack
           THEN [AdjustPcount(t, Head(t.rtx), Head(t.rtx).pc - TrimHead(Head(t.rtx), ack).pc)
                   EXCEPT !.rtx = Spliced(@, 1, <<TrimHead(Head(t.rtx), ack)>>)]
           ELSE t EXCEPT !.una = ack]
  BY DEF CleanRtxQueue, LeaveOne
<1> HIDE DEF t, c
<1>4. PICK u \in s.una..ack : Leaving(s, t, u, f)
  BY <1>2 DEF Leaves
<1>5. GoodAt(t, u, f) /\ t.nxt = s.nxt
  BY <1>4 DEF Leaving
<1>6. t.rtx \in Seq(Skb) /\ SentPart(t.rtx, u, t.nxt, f /\ t.wq = <<>>) /\ t \in Sockets
  BY <1>5 DEF GoodAt, SentPart
<1>7. t.rtx # <<>> => Head(t.rtx) = b
  BY <1>6, SeqEnds
<1>8. u \in Nat /\ u <= ack
  BY <1>1, <1>4
<1>9. CASE t.rtx = <<>>
  <2>1. c = [t EXCEPT !.una = ack]
    BY <1>3, <1>9
  <2>2. u = t.nxt
    <3>1. Len(t.rtx) = 0
      BY <1>6, <1>9, SeqFacts
    <3> QED BY <1>6, <3>1 DEF SentPart
  <2>3. u = ack
    BY <1>1, <1>5, <1>8, <2>2
  <2>4. Leaving(s, t, ack, f)
    BY <1>4, <2>3
  <2>5. Cleaned(s, c, ack, f)
    BY <1>1, <2>1, <2>4, UnaSet
  <2> QED BY <2>5 DEF c
<1>10. CASE t.rtx # <<>>
  <2>1. Inside(t, u, ack)
    <3>1. t.rtx[1].end > ack
      BY <1>2, <1>10 DEF CleanStops
    <3>2. t.rtx[1].end \in Nat
      BY <1>6, <1>10, SeqEnds, SkbRange
    <3> QED BY <1>1, <1>8, <1>10, <3>1, <3>2 DEF Inside
  <2>2. b.pc \in Nat /\ b.seq \in Nat
    BY <1>6, <1>10, SeqEnds, SkbRange
  <2>3. CASE b.pc > 1 /\ b.seq < ack
    <3>1. c = [y EXCEPT !.una = ack]
      BY <1>3, <1>7, <1>10, <2>3
    <3>2. Leaving(s, y, ack, f)
      BY <1>1, <1>4, <2>1, <2>3, TrimFirst
    <3> HIDE DEF y
    <3>3. Cleaned(s, c, ack, f)
      BY <1>1, <3>1, <3>2, UnaSet
    <3> QED BY <3>3 DEF c
  <2>4. CASE ~(b.pc > 1 /\ b.seq < ack)
    <3>1. c = [t EXCEPT !.una = ack]
      BY <1>3, <1>7, <1>10, <2>4
    <3>2. b.pc > 1 => b.seq >= ack
      BY <1>1, <2>2, <2>4
    <3>3. Leaving(s, t, ack, f)
      BY <1>1, <1>4, <2>1, <3>2, KeepFirst
    <3>4. Cleaned(s, c, ack, f)
      BY <1>1, <3>1, <3>3, UnaSet
    <3> QED BY <3>4 DEF c
  <2> QED BY <2>3, <2>4
<1> QED BY <1>9, <1>10

-----------------------------------------------------------------------------
(* Changes of single fields, loss probes and window probes *)

\* t is s but for the fields no queue depends on, and tx.
Alike(s, t) ==
    /\ t.una = s.una /\ t.nxt = s.nxt /\ t.wseq = s.wseq /\ t.rtx = s.rtx /\ t.wq = s.wq
    /\ SameCounts(s, t) /\ t.hint = s.hint /\ t.bug = s.bug
    /\ (t.tx = s.tx /\ t.wnd = s.wnd) \/ t.tx = {}

\* Such a change preserves what is known of the queues.
LEMMA GoodAlike ==
  ASSUME NEW s, NEW f, Good(s, f), NEW t \in Sockets, Alike(s, t)
  PROVE  Good(t, f)
<1>1. Counted(t)
  <2>1. Counted(s)
    BY DEF Good, GoodAt
  <2> QED BY <2>1 DEF Counted, Counter, SameCounts, Alike
<1>2. TxIn(t)
  <2>1. TxIn(s)
    BY DEF Good, GoodAt
  <2> QED BY <2>1 DEF TxIn, Alike
<1>3. HintOK(t)
  BY DEF Good, GoodAt, HintOK, Alike
<1>4. s.bug = FALSE /\ SentPart(s.rtx, s.una, s.nxt, f /\ s.wq = <<>>)
      /\ UnsentPart(s.wq, s.nxt, s.wseq, f)
  BY DEF Good, GoodAt
<1>5. t.una = s.una /\ t.nxt = s.nxt /\ t.wseq = s.wseq /\ t.rtx = s.rtx /\ t.wq = s.wq
      /\ t.bug = s.bug
  BY DEF Alike
<1> QED BY <1>1, <1>2, <1>3, <1>4, <1>5 DEF Good, GoodAt

\* A call of the stack begins with nothing on the wire.
FreshAs(s, t) ==
    /\ Alike(s, t) /\ Frame(s, t) /\ SameTimers(s, t) /\ t.tx = {} /\ t \in Sockets

\* A call begins with nothing sent.
LEMMA FreshIs ==
  ASSUME NEW s, NEW f, Good(s, f)
  PROVE  Good(Fresh(s), f) /\ FreshAs(s, Fresh(s))
<1> DEFINE t == [s EXCEPT !.tx = {}]
<1>1. s \in Sockets
  BY GoodFacts
<1>2. {} \in TxSets
  BY FS_EmptySet DEF TxSets
<1>3. t \in Sockets /\ Frame(s, t) /\ SameTimers(s, t) /\ t.tx = {}
      /\ t.una = s.una /\ t.nxt = s.nxt /\ t.wseq = s.wseq /\ t.rtx = s.rtx /\ t.wq = s.wq
      /\ SameCounts(s, t) /\ t.hint = s.hint /\ t.bug = s.bug
  BY <1>1, <1>2 DEF Sockets, Frame, SameTimers, SameCounts
<1>4. Fresh(s) = t
  BY DEF Fresh
<1> HIDE DEF t
<1>5. Alike(s, t)
  BY <1>3 DEF Alike
<1>6. Good(t, f)
  BY <1>3, <1>5, GoodAlike
<1> QED BY <1>3, <1>4, <1>5, <1>6 DEF FreshAs

\* t is s with the retransmission timer armed for what is in flight.
Rearmed(s, t, f) ==
    Good(t, f) /\ Frame(s, t) /\ t.rtx # <<>> /\ t.pending = "retrans" /\ NewIn(s.nxt, t)

\* tcp_rearm_rto, with something in flight.
LEMMA RearmedIs ==
  ASSUME NEW s, NEW u, NEW f, Good(u, f), Frame(s, u), u.rtx # <<>>,
         NewIn(s.nxt, u)
  PROVE  Rearmed(s, RearmRto(u), f)
<1> DEFINE t == RearmRto(u)
<1>1. TimerSet(u, t, "retrans", f)
  <2>1. TimerSet(u, t, IF u.rtx = <<>> THEN "none" ELSE "retrans", f)
    BY RearmRtoIs
  <2> QED BY <2>1
<1> HIDE DEF t
<1>2. Good(t, f) /\ Frame(u, t) /\ t.rtx = u.rtx /\ t.pending = "retrans"
      /\ t.nxt = u.nxt
  BY <1>1 DEF TimerSet
<1>3. NewIn(s.nxt, t)
  BY <1>2, NewInSame DEF Frame
<1>4. Rearmed(s, t, f)
  BY <1>2, <1>3, FrameStep DEF Rearmed
<1> QED BY <1>4 DEF t

\* The probe was sent.
LEMMA TlpSent ==
  ASSUME NEW s, NEW x, NEW f, Good(x, f), Frame(s, x), x.rtx # <<>>,
         NewIn(s.nxt, x)
  PROVE  Rearmed(s, RearmRto([x EXCEPT !.tlp = x.nxt, !.pending = "none"]), f)
<1> DEFINE v == x.nxt
           u == [x EXCEPT !.tlp = v, !.pending = "none"]
<1>1. x \in Sockets /\ v \in Int /\ "none" \in Pendings
  <2>1. x \in Sockets /\ x.nxt \in Nat
    BY GoodFacts
  <2> QED BY <2>1 DEF Pendings
<1> HIDE DEF v
<1>2. /\ u \in Sockets /\ Frame(x, u) /\ u.una = x.una /\ u.nxt = x.nxt /\ u.wseq = x.wseq
      /\ u.rtx = x.rtx /\ u.wq = x.wq
      /\ SameCounts(x, u) /\ u.hint = x.hint /\ u.bug = x.bug /\ u.tx = x.tx
  BY <1>1 DEF Sockets, Frame, SameCounts
<1>3. u = [x EXCEPT !.tlp = x.nxt, !.pending = "none"]
  BY DEF v
<1> HIDE DEF u
<1>4. Good(u, f)
  BY <1>2, GoodSame DEF Frame
<1>5. Frame(s, u) /\ u.rtx # <<>> /\ NewIn(s.nxt, u)
  BY <1>2, FrameStep, NewInSame DEF Frame
<1>6. Rearmed(s, RearmRto(u), f)
  BY <1>4, <1>5, RearmedIs
<1> QED BY <1>3, <1>6

\* tcp_send_loss_probe.
LEMMA LossProbeIs ==
  ASSUME NEW s, NEW f, Good(s, f), s.rtx # <<>>, NEW env, env.room \in Int
  PROVE  Rearmed(s, SendLossProbe(s, env), f)
<1> DEFINE n == Len(s.rtx)
           last == s.rtx[n]
           len == (last.pc - 1) * s.mss
           cuts == last.pc > 1 /\ Size(last) > len
           tail == IF cuts THEN Fragment(s, "rtx", n, len, s.mss) ELSE s
           w == WriteXmit(s, s.mss, {"off"}, 2, env)
           r == RetransmitOne(tail, Len(tail.rtx), 1, env)
           P == SendLossProbe(s, env)
           Probing(x) == RearmRto([x EXCEPT !.tlp = x.nxt, !.pending = "none"])
<1>1. P = IF s.tlp # 0 THEN RearmRto(s)
          ELSE IF s.wq # <<>> /\ SndWndTest(s, Head(s.wq), s.mss)
          THEN IF w.sk.packets_out > s.packets_out THEN Probing(w.sk) ELSE RearmRto(w.sk)
          ELSE IF n = 0 THEN Assert_([s EXCEPT !.pending = "none"], s.packets_out = 0)
          ELSE IF env.room = 0 /\ env.how = "early" THEN RearmRto(s)
          ELSE IF r.ok THEN Probing(r.sk) ELSE RearmRto(r.sk)
  BY DEF SendLossProbe
<1>2. s.rtx \in Seq(Skb) /\ s.mss \in Nat \ {0} /\ s.una \in Nat
  BY GoodFacts
<1>3. n \in Nat \ {0} /\ n \in 1..n
  BY <1>2, SeqEnds
<1>4. Frame(s, s) /\ NewIn(s.nxt, s)
  BY FrameSame DEF NewIn
<1>5. Rearmed(s, RearmRto(s), f)
  BY <1>4, RearmedIs
<1>6. /\ Rearmed(s, Probing(w.sk), f)
      /\ Rearmed(s, RearmRto(w.sk), f)
  <2>1. WriteDone(s, w, f)
    BY <1>2, WriteXmitIs
  <2> HIDE DEF w
  <2>2. NewIn(s.nxt, w.sk)
    BY <2>1, WroteNew DEF WriteDone
  <2>3. Good(w.sk, f) /\ Frame(s, w.sk) /\ w.sk.rtx # <<>>
    BY <2>1 DEF WriteDone, Wrote
  <2> QED BY <2>3, <2>2, TlpSent, RearmedIs
<1>7. /\ Rearmed(s, Probing(r.sk), f)
      /\ Rearmed(s, RearmRto(r.sk), f)
  <2>1. Good(tail, f) /\ Frame(s, tail) /\ tail.rtx # <<>> /\ tail.nxt = s.nxt
    <3>1. CASE ~cuts
      BY <1>4, <3>1
    <3>2. CASE cuts
      <4>1. last \in Skb /\ last.pc \in Nat /\ RtxOK(last, s.una) /\ Size(last) \in Int
            /\ last.seq \in Nat
        BY <1>3, GoodBuf
      <4>2. last.pc > 1 /\ Size(last) > len /\ last.seq >= s.una
        <5>1. last.pc > 1 /\ Size(last) > len
          BY <3>2
        <5> QED BY <4>1, <5>1 DEF RtxOK
      <4>3. len \in Nat
        <5> DEFINE a == last.pc - 1
                   m == s.mss
        <5>1. a \in Nat /\ m \in Nat
          BY <1>2, <4>1, <4>2
        <5> HIDE DEF a, m
        <5>2. a * m \in Nat
          BY <5>1, Product
        <5> QED BY <5>2 DEF a, m
      <4>4. tail = Fragment(s, "rtx", n, len, s.mss)
        BY <3>2
      <4> HIDE DEF len, cuts
      <4>5. len <= Size(s.rtx[n]) /\ Size(s.rtx[n]) > 0 /\ s.rtx[n].seq >= s.una
        BY <4>1, <4>2, <4>3
      <4> HIDE DEF n, tail
      <4>6. n \in 1..Len(s.rtx)
        BY <1>3 DEF n
      <4>7. RtxStep(s, tail, n, f) /\ Len(tail.rtx) = Len(s.rtx) + 1
        BY <1>2, <4>3, <4>4, <4>5, <4>6, FragmentStep DEF FragmentedAt
      <4>8. Good(tail, f) /\ Frame(s, tail) /\ tail.nxt = s.nxt
        BY <4>7 DEF RtxStep
      <4>9. tail.rtx \in Seq(Skb)
        BY <4>8, GoodFacts
      <4>10. Len(tail.rtx) # 0
        BY <1>3, <4>7 DEF n
      <4> QED BY <4>8, <4>9, <4>10, SeqFacts
    <3> QED BY <3>1, <3>2
  <2> HIDE DEF tail
  <2> DEFINE k == Len(tail.rtx)
  <2>2. tail.rtx \in Seq(Skb)
    BY <2>1, GoodFacts
  <2>3. k \in Nat \ {0} /\ k \in 1..Len(tail.rtx)
    BY <2>1, <2>2, SeqEnds
  <2>4. r = RetransmitOne(tail, k, 1, env)
    OBVIOUS
  <2> HIDE DEF k, r
  <2>5. RtxWork(tail, r.sk, k, f)
    BY <2>1, <2>3, <2>4, RetransmitOneIs
  <2>6. Good(r.sk, f) /\ Frame(tail, r.sk) /\ k <= Len(r.sk.rtx) /\ r.sk.nxt = tail.nxt
    BY <2>5 DEF RtxWork
  <2>7. r.sk.rtx \in Seq(Skb) /\ Len(r.sk.rtx) \in Nat
    BY <2>6, GoodFacts
  <2>8. r.sk.rtx # <<>>
    <3>1. Len(r.sk.rtx) # 0
      BY <2>3, <2>6, <2>7
    <3> QED BY <2>7, <3>1, SeqFacts
  <2>9. Frame(s, r.sk)
    BY <2>1, <2>6, FrameStep
  <2>10. NewIn(s.nxt, r.sk)
    BY <2>1, <2>6 DEF NewIn
  <2> QED BY <2>6, <2>8, <2>9, <2>10, TlpSent, RearmedIs
<1>8. n # 0
  BY <1>3
<1> HIDE DEF P, n, w, r, Probing
<1>9. Rearmed(s, P, f)
  BY <1>1, <1>5, <1>6, <1>7, <1>8
<1> QED BY <1>9 DEF P

\* Cutting a buffer that was not sent leaves the counters alone.
LEMMA WqFragment ==
  ASSUME NEW s, NEW f, Good(s, f), s.wq # <<>>, NEW len \in Nat, NEW mss \in Nat \ {0},
         len <= Size(s.wq[1]), Size(s.wq[1]) > 0
  PROVE  ShortHead(s, Fragment(s, "wq", 1, len, mss), len, f)
<1> DEFINE b == s.wq[1]
           p == Halves(b, len, mss)
           u == [s EXCEPT !.wq = Spliced(@, 1, Halves(@[1], len, mss))]
           t == Fragment(s, "wq", 1, len, mss)
<1>1. s \in Sockets /\ s.bug = FALSE /\ s.nxt \in Nat
  BY GoodFacts
<1>2. /\ b \in Skb /\ b.seq = s.nxt /\ b.end \in Nat /\ b.seq \in Nat
      /\ Size(b) \in Int /\ Size(b) > 0
  BY WqHead
<1>3. ~(s.nxt >= b.end)
  <2>1. b \in SkbRec
    BY <1>2 DEF Skb
  <2> DEFINE y == Bit(b.fin)
             z == Bit(b.syn)
  <2>2. y \in {0, 1} /\ z \in {0, 1} /\ Size(b) = b.end - b.seq - y - z
    BY <2>1, SkbFields
  <2> HIDE DEF y, z, b
  <2> QED BY <1>1, <1>2, <2>2
<1>4. Assert_(s, len <= Size(b)) = s
  BY <1>1, AssertHolds
<1>5. t = u
  <2>1. t = [s EXCEPT !["wq"] = Spliced(@, 1, Halves(b, len, mss)), !.hint = s.hint]
    BY <1>3, <1>4 DEF Fragment
  <2> QED BY <1>1, <2>1 DEF Sockets
<1> HIDE DEF t
<1>6. ShortHead(s, u, len, f)
  BY TsoFragmentIs
<1>7. ShortHead(s, t, len, f)
  BY <1>5, <1>6
<1> QED BY <1>7 DEF t

\* tcp_write_wakeup, with data to send: a segment of it, or a probe.
LEMMA WakeupIs ==
  ASSUME NEW s, NEW f, Good(s, f), s.wq # <<>>, NEW env
  PROVE  Wrote(s, WriteWakeup(s, env), f)
<1> DEFINE b == s.wq[1]
           fit == WndEnd(s) - b.seq
           len == Min({fit, s.mss})
           c == SetTsoSegs(b, s.mss)
           far == fit < b.end - b.seq \/ Size(b) > s.mss
           cut == IF far THEN Fragment(s, "wq", 1, len, s.mss)
                  ELSE IF b.pc = 0 THEN [s EXCEPT !.wq = Spliced(@, 1, <<c>>)] ELSE s
           e == EventNewDataSent(Transmit(cut, Head(cut.wq)))
           o == [NewSkb(s.una - 1, s.una - 1) EXCEPT !.pc = 1]
           W == WriteWakeup(s, env)
<1>1. /\ Head(s.wq) = b /\ b \in Skb /\ b.seq = s.nxt /\ b.end \in Nat
      /\ b.seq \in Nat /\ b.pc \in Nat /\ b.seq <= b.end
      /\ Size(b) \in Int /\ Size(b) >= 0
  BY WqHead
<1>2. W = IF b.seq < WndEnd(s)
          THEN IF env.room > 0 THEN e ELSE IF env.how = "late" THEN cut ELSE s
          ELSE IF env.room > 0 THEN Transmit(s, o) ELSE s
  <2> DEFINE X(h) ==
        LET i == WndEnd(s) - h.seq
            k == IF i < h.end - h.seq \/ Size(h) > s.mss
                 THEN Fragment(s, "wq", 1, Min({i, s.mss}), s.mss)
                 ELSE IF h.pc = 0
                 THEN [s EXCEPT !.wq = Spliced(@, 1, <<SetTsoSegs(h, s.mss)>>)] ELSE s
        IN IF h.seq < WndEnd(s)
           THEN IF env.room > 0 THEN EventNewDataSent(Transmit(k, Head(k.wq)))
                ELSE IF env.how = "late" THEN k ELSE s
           ELSE IF env.room > 0 THEN Transmit(s, o) ELSE s
  <2>1. W = X(Head(s.wq))
    BY DEF WriteWakeup
  <2>2. X(b) = IF b.seq < WndEnd(s)
               THEN IF env.room > 0 THEN e ELSE IF env.how = "late" THEN cut ELSE s
               ELSE IF env.room > 0 THEN Transmit(s, o) ELSE s
    OBVIOUS
  <2> HIDE DEF X
  <2>3. X(Head(s.wq)) = X(b)
    BY <1>1
  <2> QED BY <2>1, <2>2, <2>3
<1>3. s.una \in Nat /\ s.wnd \in Nat /\ s.mss \in Nat \ {0} /\ s.wseq \in Nat /\ s.una <= s.wseq
  <2>1. s.una \in Nat /\ s.wnd \in Nat /\ s.mss \in Nat \ {0} /\ s.wseq \in Nat
        /\ s.nxt \in Nat /\ s.una <= s.nxt /\ s.nxt <= s.wseq
    BY GoodFacts
  <2> QED BY <2>1
<1>4. WndEnd(s) \in Nat
  BY <1>3 DEF WndEnd
<1>5. Wrote(s, s, f)
  BY WroteSame
<1>6. Wrote(s, Transmit(s, o), f)
  <2> DEFINE v == s.una - 1
             t == Transmit(s, o)
  <2>1. o.pc = 1 /\ o.seq = v /\ o.end = v /\ o.fin = FALSE
    BY DEF NewSkb
  <2>2. v \in Int /\ v <= s.wseq
    BY <1>3
  <2> HIDE DEF o, v
  <2>3. o.pc > 0 /\ o.seq \in Int /\ o.end \in Int /\ o.fin \in BOOLEAN /\ o.end <= s.wseq
    <3>1. o.pc > 0
      BY <2>1
    <3>2. o.seq \in Int /\ o.end \in Int /\ o.end <= s.wseq
      BY <2>1, <2>2
    <3>3. o.fin \in BOOLEAN
      BY <2>1
    <3> QED BY <3>1, <3>2, <3>3
  <2>4. SegIn(o, s.wseq, s.una, s.una + s.wnd)
    <3>1. ~(o.seq > s.una)
      BY <1>3, <2>1 DEF v
    <3> QED BY <2>3, <3>1 DEF SegIn
  <2>5. Transmitted(s, t, f)
    BY <2>3, <2>4, TransmitIs
  <2> HIDE DEF t
  <2>6. Wrote(s, t, f)
    BY <2>5 DEF Transmitted, Wrote, SameTimers, SameCounts
  <2> QED BY <2>6 DEF t
<1>7. ASSUME b.seq < WndEnd(s) PROVE ((cut = s /\ b.pc >= 1) \/ CutHead(s, cut, f)) /\ HeadFits(cut)
  <2>1. fit \in Int /\ fit >= 1
    BY <1>1, <1>4, <1>7
  <2>2. CASE far
    <3>1. cut = Fragment(s, "wq", 1, len, s.mss)
      BY <2>2
    <3>2. len \in Nat /\ len <= fit /\ len <= s.mss
      <4> DEFINE m == s.mss
      <4>1. fit \in Int /\ m \in Int /\ m >= 1
        BY <1>3, <2>1
      <4> HIDE DEF fit, m
      <4>2. Min({fit, m}) = IF fit <= m THEN fit ELSE m
        BY ONLY <4>1, MinPair
      <4>3. Min({fit, m}) \in Nat /\ Min({fit, m}) <= fit /\ Min({fit, m}) <= m
        BY <2>1, <4>1, <4>2
      <4> QED BY <4>3 DEF m
    <3>3. len <= Size(b) /\ Size(b) > 0
      <4>1. CASE Size(b) > s.mss
        <5> HIDE DEF len
        <5> QED BY <1>1, <1>3, <3>2, <4>1
      <4>2. CASE fit < b.end - b.seq
        <5>1. b \in SkbRec /\ (b.syn => b.seq = 0 /\ b.end = 1 /\ ~b.fin)
          BY <1>1 DEF Skb
        <5> DEFINE y == Bit(b.fin)
                   z == Bit(b.syn)
        <5>2. y \in {0, 1} /\ z \in {0, 1} /\ Size(b) = b.end - b.seq - y - z
          BY <5>1, SkbFields
        <5>3. z = 0
          <6>1. CASE b.syn
            BY <1>1, <2>1, <4>2, <5>1, <6>1
          <6>2. CASE ~b.syn
            BY <6>2 DEF Bit
          <6> QED BY <6>1, <6>2
        <5> HIDE DEF y, z, len, fit
        <5> QED BY <1>1, <2>1, <3>2, <4>2, <5>2, <5>3
      <4> QED BY <2>2, <4>1, <4>2
    <3> HIDE DEF len
    <3>4. ShortHead(s, cut, len, f)
      BY <1>3, <3>1, <3>2, <3>3, WqFragment
    <3>5. CutHead(s, cut, f) /\ cut.wq[1].end = b.seq + len /\ cut.wq[1].fin = FALSE
          /\ cut.una = s.una /\ cut.wnd = s.wnd
      BY <3>4 DEF ShortHead, CutHead, WqStep, Frame
    <3>6. len \in Nat /\ b.seq + len <= s.una + s.wnd
      BY <1>1, <1>3, <3>2 DEF WndEnd
    <3>7. HeadFits(cut)
      <4> DEFINE h == cut.wq[1]
                 v == b.seq
                 z == s.una + s.wnd
                 lim == cut.una + cut.wnd
      <4>1. Bit(h.fin) = 0
        BY <3>5 DEF Bit
      <4>2. h.end = v + len /\ v \in Nat /\ len \in Nat /\ v + len <= z /\ lim = z
        BY <1>1, <3>5, <3>6
      <4> HIDE DEF h, v, z, lim
      <4>3. h.end - Bit(h.fin) <= lim
        BY <4>1, <4>2
      <4> QED BY <4>3 DEF HeadFits, h, lim
    <3> QED BY <3>5, <3>7
  <2>3. ~far => HeadFits(s)
    <3> HAVE ~far
    <3>1. b.end <= s.una + s.wnd
      BY <1>1, <1>3, <1>4 DEF WndEnd
    <3>2. Bit(b.fin) \in {0, 1}
      BY <1>1, SkbFields DEF Skb
    <3> HIDE DEF b
    <3>3. b.end - Bit(b.fin) <= s.una + s.wnd
      BY <1>1, <1>3, <3>1, <3>2
    <3> QED BY <3>3 DEF HeadFits, b
  <2>4. CASE ~far /\ b.pc = 0
    <3>1. cut = [s EXCEPT !.wq = Spliced(@, 1, <<c>>)]
      BY <2>4
    <3>2. c \in Skb /\ SameRange(c, b) /\ c.pc >= 1
      <4>1. b \in SkbRec /\ b.seq <= b.end /\ Size(b) >= 0
            /\ (b.syn => b.seq = 0 /\ b.end = 1 /\ ~b.fin)
            /\ (b.retrans => b.lost) /\ (b.acked => ~b.lost)
        BY <1>1 DEF Skb
      <4> HIDE DEF b
      <4> QED BY <1>3, <4>1, SetTsoSegsIs
    <3> HIDE DEF c, cut
    <3>3. WqStep(s, cut, f) /\ cut.wq[1] = c
      BY <3>1, <3>2, WqCounted
    <3>4. CutHead(s, cut, f)
      BY <3>2, <3>3 DEF CutHead
    <3>5. cut.una = s.una /\ cut.wnd = s.wnd
      BY <3>3 DEF WqStep, Frame
    <3>6. HeadFits(cut)
      BY <2>4, <2>3, <3>2, <3>3, <3>5 DEF HeadFits, SameRange
    <3> QED BY <3>4, <3>6 DEF cut
  <2>5. CASE ~far /\ b.pc # 0
    BY <1>1, <2>5, <2>3
  <2> QED BY <2>2, <2>4, <2>5
<1>8. ASSUME b.seq < WndEnd(s) PROVE Wrote(s, cut, f) /\ Wrote(s, e, f)
  <2>1. ((cut = s /\ b.pc >= 1) \/ CutHead(s, cut, f)) /\ HeadFits(cut)
    BY <1>7, <1>8
  <2>2. b = s.wq[1]
    OBVIOUS
  <2> HIDE DEF cut, b
  <2>3. Wrote(s, cut, f) /\ cut.wq # <<>> /\ cut.wq[1].pc >= 1
    BY <1>5, <2>1, <2>2, WroteStep DEF CutHead, WqStep
  <2>4. Good(cut, f)
    BY <2>3 DEF Wrote
  <2>5. Wrote(cut, e, f)
    BY <2>1, <2>3, <2>4, SendHead
  <2>6. Wrote(s, e, f)
    BY <2>3, <2>5, WroteTwice
  <2> QED BY <2>3, <2>6 DEF cut, b
<1> HIDE DEF W, cut, e, o, b
<1>9. Wrote(s, W, f)
  BY <1>2, <1>5, <1>6, <1>8
<1> QED BY <1>9 DEF W

\* tcp_send_probe0, with nothing in flight: the timer is armed again.
LEMMA Probe0Is ==
  ASSUME NEW s, NEW f, Good(s, f), s.wq # <<>>, s.rtx = <<>>, NEW env
  PROVE  LET t == SendProbe0(s, env)
         IN /\ Good(t, f) /\ Frame(s, t) /\ NewIn(s.nxt, t)
            /\ s.pending = "none" => Armed(t)
<1> DEFINE a == WriteWakeup(s, env)
           u == [a EXCEPT !.pending = "probe0"]
           t == SendProbe0(s, env)
<1>1. Wrote(s, a, f)
  BY WakeupIs
<1>2. t = IF a.packets_out > 0 \/ a.wq = <<>> THEN a ELSE u
  BY DEF SendProbe0
<1> HIDE DEF a, t
<1>3. Good(a, f) /\ Frame(s, a) /\ NewIn(s.nxt, a)
  BY <1>1, WroteNew DEF Wrote
<1>4. a.packets_out \in Nat /\ (a.packets_out = 0 <=> a.rtx = <<>>)
  BY <1>3, GoodCounts
<1>5. CASE a.packets_out > 0 \/ a.wq = <<>>
  <2>1. t = a
    BY <1>2, <1>5
  <2>2. a.rtx # <<>>
    BY <1>1, <1>4, <1>5 DEF Wrote
  <2>3. Armed(a)
    BY <1>1, <2>2 DEF Wrote, Armed, PreArmed, Timers
  <2> QED BY <1>3, <2>1, <2>3 DEF t
<1>6. CASE ~(a.packets_out > 0 \/ a.wq = <<>>)
  <2>1. t = u
    BY <1>2, <1>6
  <2>2. TimerSet(a, u, "probe0", f)
    <3>1. "probe0" \in Pendings
      BY DEF Pendings
    <3> QED BY <1>3, <3>1, TimerSetIs
  <2>3. a.rtx = <<>>
    BY <1>4, <1>6
  <2> HIDE DEF u
  <2>4. Good(u, f) /\ Frame(a, u) /\ Armed(u)
    BY <2>2, <2>3 DEF TimerSet, Armed, PreArmed
  <2>5. Frame(s, u)
    BY <1>3, <2>4, FrameStep
  <2>6. NewIn(s.nxt, u)
    BY <1>3, <2>2, NewInSame DEF TimerSet, Frame
  <2> QED BY <2>1, <2>4, <2>5, <2>6 DEF t
<1> QED BY <1>5, <1>6

-----------------------------------------------------------------------------
(* The invariant, and the calls of the stack that preserve it *)

\* The bytes that may be written in a state: those of the application, the
\* SYN, and in FIN_WAIT1 the FIN.
WithinData(s) ==
    /\ s.wseq <= MaxData + 2
    /\ s.state # "FIN_WAIT1" => s.wseq <= MaxData + 1

\* Before the connection there is nothing, and the SYN is acknowledged when the
\* handshake is over and not before.
Phase(s) ==
    /\ s.state = "CLOSE" => s.rtx = <<>> /\ s.wq = <<>> /\ s.pending = "none"
    /\ s.state \in {"ESTABLISHED", "FIN_WAIT1"} => s.una >= 1
    /\ s.state = "SYN_SENT" => s.una = 0

SenderInv(s) ==
    /\ Good(s, s.state = "FIN_WAIT1")
    /\ Armed(s)
    /\ Phase(s)
    /\ WithinData(s)

\* The invariant holds in t, which is acknowledged up to u and written up to e;
\* what was sent beyond n is inside the window.
Moved(n, t, u, e) == SenderInv(t) /\ t.una = u /\ t.wseq = e /\ NewIn(n, t)

\* A step that leaves the state, the acknowledged and the written bytes alone.
LEMMA InvStays ==
  ASSUME NEW s, NEW u, NEW t, SenderInv(s), s.state # "CLOSE",
         u.state = s.state, u.wseq = s.wseq, u.una = s.una, Frame(u, t),
         Good(t, s.state = "FIN_WAIT1"), Armed(t), NewIn(s.nxt, t)
  PROVE  Moved(s.nxt, t, s.una, s.wseq)
BY DEF Moved, SenderInv, Phase, WithinData, Frame

\* An environment of a call.
LEMMA EnvIs ==
  ASSUME NEW env \in Env
  PROVE  env \in EnvSet /\ env.room \in Int
BY SenderAssumption DEF EnvSet

\* What a call starts from.
Started(s, t, f) ==
    /\ Good(t, f) /\ t \in Sockets /\ Frame(s, t) /\ SameTimers(s, t) /\ SameCounts(s, t)
    /\ t.rtx = s.rtx /\ t.wq = s.wq /\ t.nxt = s.nxt /\ t.hint = s.hint
    /\ t.state = s.state /\ t.wseq = s.wseq /\ t.una = s.una
    /\ t.pending = s.pending /\ t.tx = {}
    /\ Armed(t)

\* A call begins in a state that satisfies the invariant.
LEMMA StartIs ==
  ASSUME NEW s, SenderInv(s)
  PROVE  Started(s, Fresh(s), s.state = "FIN_WAIT1")
<1> DEFINE f == s.state = "FIN_WAIT1"
           t == Fresh(s)
<1>1. Good(s, f) /\ Armed(s)
  BY DEF SenderInv
<1> HIDE DEF f
<1>2. Good(t, f) /\ FreshAs(s, t)
  BY <1>1, FreshIs
<1> HIDE DEF t
<1>3. Armed(t)
  BY <1>1, <1>2 DEF FreshAs, Alike, SameTimers, Armed, PreArmed
<1>4. Started(s, t, f)
  BY <1>2, <1>3 DEF FreshAs, Alike, Started, SameTimers, Frame
<1> QED BY <1>4 DEF t, f

\* Congestion states.
CaAs(s, t, f) ==
    /\ Good(t, f) /\ Frame(s, t) /\ SameCounts(s, t)
    /\ t.rtx = s.rtx /\ t.wq = s.wq /\ t.nxt = s.nxt /\ t.hint = s.hint
    /\ t.pending = s.pending /\ t.cwnd = s.cwnd

\* Another congestion state.
LEMMA CaSet ==
  ASSUME NEW s, NEW f, Good(s, f), NEW c \in CaStates
  PROVE  CaAs(s, [s EXCEPT !.ca = c], f)
<1> DEFINE t == [s EXCEPT !.ca = c]
<1>1. s \in Sockets
  BY GoodFacts
<1>2. /\ t \in Sockets /\ t.una = s.una /\ t.nxt = s.nxt /\ t.wseq = s.wseq
      /\ t.rtx = s.rtx /\ t.wq = s.wq /\ SameCounts(s, t) /\ t.hint = s.hint
      /\ t.tx = s.tx /\ t.bug = s.bug
      /\ Frame(s, t) /\ t.pending = s.pending /\ t.cwnd = s.cwnd
  BY <1>1 DEF Sockets, SameCounts, Frame
<1> HIDE DEF t
<1>3. Good(t, f)
  BY <1>2, GoodSame DEF Frame
<1>4. CaAs(s, t, f)
  BY <1>2, <1>3 DEF CaAs
<1> QED BY <1>4 DEF t

\* tcp_send_loss_probe, from its timer.
LEMMA LossProbeStep ==
  ASSUME SenderInv(sk), NEW env \in Env, LossProbeFires(env)
  PROVE  Moved(sk.nxt, sk', sk.una, sk.wseq)
<1> DEFINE f == sk.state = "FIN_WAIT1"
           s == Fresh(sk)
           t == SendLossProbe(s, env)
<1>1. Started(sk, s, f)
  BY StartIs
<1>2. sk' = t /\ sk.pending = "loss_probe"
  BY DEF LossProbeFires
<1>3. sk.state # "CLOSE"
  BY <1>2 DEF SenderInv, Phase
<1> HIDE DEF f, s
<1>4. Good(s, f) /\ s.rtx # <<>> /\ s.state = sk.state /\ s.wseq = sk.wseq /\ s.una = sk.una
      /\ s.nxt = sk.nxt
  BY <1>1, <1>2 DEF Started, Armed, PreArmed
<1>5. Rearmed(s, t, f)
  BY <1>4, EnvIs, LossProbeIs
<1> HIDE DEF t
<1>6. Good(t, f) /\ Frame(s, t) /\ Armed(t) /\ NewIn(sk.nxt, t)
  BY <1>4, <1>5 DEF Rearmed, Armed, PreArmed, Timers
<1>7. Moved(sk.nxt, t, sk.una, sk.wseq)
  BY <1>3, <1>4, <1>6, InvStays DEF f
<1> QED BY <1>2, <1>7

\* tcp_probe_timer.
LEMMA Probe0Step ==
  ASSUME SenderInv(sk), NEW env \in Env, Probe0Fires(env)
  PROVE  Moved(sk.nxt, sk', sk.una, sk.wseq)
<1> DEFINE f == sk.state = "FIN_WAIT1"
           u == Fresh(sk)
           s == [u EXCEPT !.pending = "none"]
           t == IF s.packets_out > 0 \/ s.wq = <<>> THEN s ELSE SendProbe0(s, env)
<1>1. Started(sk, u, f)
  BY StartIs
<1>2. sk' = t /\ sk.pending = "probe0"
  BY DEF Probe0Fires
<1>3. sk.state # "CLOSE"
  BY <1>2 DEF SenderInv, Phase
<1> HIDE DEF f, u
<1>4. Good(u, f) /\ u.rtx = <<>> /\ u.state = sk.state /\ u.wseq = sk.wseq /\ u.una = sk.una
      /\ u.nxt = sk.nxt
  BY <1>1, <1>2 DEF Started, Armed, PreArmed, Timers
<1>5. TimerSet(u, s, "none", f)
  <2>1. "none" \in Pendings
    BY DEF Pendings
  <2> QED BY <1>4, <2>1, TimerSetIs
<1> HIDE DEF s
<1>6. Good(s, f) /\ s.rtx = <<>> /\ s.pending = "none" /\ Frame(u, s) /\ s.nxt = sk.nxt
  BY <1>4, <1>5 DEF TimerSet
<1>7. s.packets_out = 0
  BY <1>6, NothingOut
<1>8. Good(t, f) /\ Frame(u, t) /\ Armed(t) /\ NewIn(sk.nxt, t)
  <2>1. CASE s.wq = <<>>
    <3>1. t = s
      BY <2>1
    <3> QED BY <1>6, <2>1, <3>1 DEF Armed, PreArmed, NewIn
  <2>2. CASE s.wq # <<>>
    <3>1. t = SendProbe0(s, env)
      BY <1>7, <2>2
    <3>2. Good(t, f) /\ Frame(s, t) /\ Armed(t) /\ NewIn(s.nxt, t)
      BY <1>6, <2>2, <3>1, Probe0Is
    <3> QED BY <1>6, <3>2, FrameStep
  <2> QED BY <2>1, <2>2
<1> HIDE DEF t
<1>9. Moved(sk.nxt, t, sk.una, sk.wseq)
  BY <1>3, <1>4, <1>8, InvStays DEF f
<1> QED BY <1>2, <1>9

\* The scan keeps the timer armed.
LEMMA RescuedArmed ==
  ASSUME NEW s, NEW t, NEW f, Rescued(s, t, f)
  PROVE  /\ PreArmed(s) => PreArmed(t)
         /\ Armed(s) => Armed(t)
BY DEF Rescued, PreArmed, Armed, Timers

\* tcp_tsq_write.
LEMMA TsqStep ==
  ASSUME SenderInv(sk), NEW env \in Env, TsqWrite(env)
  PROVE  Moved(sk.nxt, sk', sk.una, sk.wseq)
<1> DEFINE f == sk.state = "FIN_WAIT1"
           u == Fresh(sk)
           x == XmitRetransmitQueue(u, env)
           s == IF sk.lost_out > sk.retrans_out /\ sk.cwnd > InFlight(sk) THEN x ELSE u
           r == WriteXmit(s, s.mss, s.nonagle, 0, env)
<1>1. Started(sk, u, f)
  BY StartIs
<1>2. sk' = r.sk /\ sk.state \in {"ESTABLISHED", "FIN_WAIT1"}
  BY DEF TsqWrite
<1> HIDE DEF f, u
<1>3. Good(u, f) /\ u.state = sk.state /\ u.wseq = sk.wseq /\ u.una = sk.una /\ Armed(u)
      /\ u.nxt = sk.nxt
  BY <1>1 DEF Started
<1>4. Rescued(u, x, f)
  BY <1>3, EnvIs, XmitRetransmitIs
<1>5. Rescued(u, u, f)
  BY <1>3 DEF Rescued, Frame
<1>6. Rescued(u, s, f)
  BY <1>4, <1>5
<1> HIDE DEF s
<1>7. Good(s, f) /\ Frame(u, s) /\ Armed(s) /\ s.mss \in Nat \ {0} /\ s.nxt = sk.nxt
  <2>1. Good(s, f) /\ Frame(u, s) /\ s.nxt = sk.nxt
    BY <1>3, <1>6 DEF Rescued
  <2>2. Armed(s)
    BY <1>3, <1>6, RescuedArmed
  <2>3. s.mss \in Nat \ {0}
    BY <2>1, GoodFacts
  <2> QED BY <2>1, <2>2, <2>3
<1>8. WriteDone(s, r, f)
  BY <1>7, EnvIs, WriteXmitIs
<1> HIDE DEF r
<1>9. Wrote(s, r.sk, f)
  BY <1>8 DEF WriteDone
<1>10. Good(r.sk, f) /\ Frame(u, r.sk) /\ Armed(r.sk) /\ NewIn(sk.nxt, r.sk)
  <2>1. Good(r.sk, f) /\ Frame(s, r.sk)
    BY <1>9 DEF Wrote
  <2>2. NewIn(sk.nxt, r.sk)
    BY <1>7, <1>9, WroteNew
  <2> QED BY <1>7, <1>9, <2>1, <2>2, WroteArmed, FrameStep
<1>11. Moved(sk.nxt, r.sk, sk.una, sk.wseq)
  <2>1. sk.state # "CLOSE"
    BY <1>2
  <2> QED BY <1>3, <1>10, <2>1, InvStays DEF f
<1> QED BY <1>2, <1>11

\* Clearing TCP_CORK.
LEMMA UncorkStep ==
  ASSUME SenderInv(sk), NEW env \in Env, Uncork(env)
  PROVE  Moved(sk.nxt, sk', sk.una, sk.wseq)
<1> DEFINE f == sk.state = "FIN_WAIT1"
           u == Fresh(sk)
           s == [u EXCEPT !.nonagle = {}]
           t == IF s.wq = <<>> \/ s.state = "SYN_SENT" THEN s
                ELSE PushPendingFrames(s, {"off"}, env)
<1>1. Started(sk, u, f)
  BY StartIs
<1>2. sk' = t /\ sk.state # "CLOSE"
  BY DEF Uncork
<1> HIDE DEF f, u
<1>3. Good(u, f) /\ u \in Sockets /\ Armed(u) /\ u.state = sk.state /\ u.wseq = sk.wseq
      /\ u.una = sk.una /\ u.nxt = sk.nxt
  BY <1>1 DEF Started
<1>4. {} \in Corks
  BY DEF Corks
<1>5. /\ s \in Sockets /\ s.una = u.una /\ s.nxt = u.nxt /\ s.wseq = u.wseq
      /\ s.rtx = u.rtx /\ s.wq = u.wq /\ SameCounts(u, s) /\ s.hint = u.hint
      /\ s.tx = u.tx /\ s.bug = u.bug /\ s.pending = u.pending /\ s.state = u.state
      /\ s.wnd = u.wnd
  BY <1>3, <1>4 DEF Sockets, SameCounts
<1> HIDE DEF s
<1>6. Good(s, f) /\ Armed(s) /\ s.state = sk.state /\ s.wseq = sk.wseq /\ s.una = sk.una
      /\ s.nxt = sk.nxt
  <2>1. Good(s, f)
    BY <1>3, <1>5, GoodSame
  <2> QED BY <1>3, <1>5, <2>1 DEF Armed, PreArmed
<1>7. Good(t, f) /\ Frame(s, t) /\ Armed(t) /\ NewIn(sk.nxt, t)
  <2>1. CASE s.wq = <<>> \/ s.state = "SYN_SENT"
    BY <1>6, <2>1, FrameSame DEF NewIn
  <2>2. CASE ~(s.wq = <<>> \/ s.state = "SYN_SENT")
    <3>1. Pushed(s, t, f)
      BY <1>6, <2>2, EnvIs, PushIs
    <3> QED BY <1>2, <1>6, <3>1 DEF Pushed, Armed
  <2> QED BY <2>1, <2>2
<1> HIDE DEF t
<1>8. Moved(sk.nxt, t, sk.una, sk.wseq)
  BY <1>2, <1>6, <1>7, InvStays DEF f
<1> QED BY <1>2, <1>8

\* Marks change neither what is in flight nor the timer.
LEMMA RemarkedArmed ==
  ASSUME NEW s, NEW f, Good(s, f), NEW t, Remarked(s, t, f)
  PROVE  /\ t.rtx = <<>> <=> s.rtx = <<>>
         /\ t.pending = s.pending
         /\ PreArmed(s) => PreArmed(t)
         /\ Armed(s) => Armed(t)
<1>1. Good(t, f) /\ Len(t.rtx) = Len(s.rtx) /\ t.pending = s.pending /\ t.wq = s.wq
  BY DEF Remarked, SameTimers
<1>2. s.rtx \in Seq(Skb) /\ t.rtx \in Seq(Skb)
  BY <1>1, GoodFacts
<1>3. t.rtx = <<>> <=> s.rtx = <<>>
  <2>1. s.rtx = <<>> <=> Len(s.rtx) = 0
    BY <1>2, SeqFacts
  <2>2. t.rtx = <<>> <=> Len(t.rtx) = 0
    BY <1>2, SeqFacts
  <2> QED BY <1>1, <2>1, <2>2
<1> QED BY <1>1, <1>3 DEF PreArmed, Armed

\* A socket that has found a loss is in recovery.
LEMMA CaRaised ==
  ASSUME NEW s, NEW f, Good(s, f)
  PROVE  CaAs(s, [s EXCEPT !.ca = IF @ = "Open" THEN "Recovery" ELSE @], f)
<1> DEFINE c == IF s.ca = "Open" THEN "Recovery" ELSE s.ca
<1>1. s \in Sockets
  BY GoodFacts
<1>2. c \in CaStates
  <2>1. s.ca \in CaStates
    BY <1>1, SocketFields
  <2> QED BY <2>1 DEF CaStates
<1>3. [s EXCEPT !.ca = IF @ = "Open" THEN "Recovery" ELSE @] = [s EXCEPT !.ca = c]
  BY <1>1 DEF Sockets
<1> HIDE DEF c
<1>4. CaAs(s, [s EXCEPT !.ca = c], f)
  BY <1>2, CaSet
<1> QED BY <1>3, <1>4

\* The same for the timer.
LEMMA CaArmed ==
  ASSUME NEW s, NEW f, NEW t, CaAs(s, t, f)
  PROVE  /\ Good(t, f) /\ Frame(s, t)
         /\ PreArmed(s) => PreArmed(t)
         /\ Armed(s) => Armed(t)
BY DEF CaAs, PreArmed, Armed

\* A buffer is found lost.
LEMMA LostRaised ==
  ASSUME NEW s, NEW f, Good(s, f), NEW l \in 1..Len(s.rtx)
  PROVE  LET t == [MarkLost(s, l) EXCEPT !.ca = IF @ = "Open" THEN "Recovery" ELSE @]
         IN /\ Good(t, f) /\ Frame(s, t) /\ t.rtx # <<>> /\ t.pending = s.pending
            /\ t.nxt = s.nxt
            /\ PreArmed(s) => PreArmed(t)
<1> DEFINE m == MarkLost(s, l)
           t == [m EXCEPT !.ca = IF @ = "Open" THEN "Recovery" ELSE @]
<1>1. LostAt(s, m, l, f)
  BY MarkLostIs
<1> HIDE DEF m
<1>2. Remarked(s, m, f)
  BY <1>1 DEF LostAt, Remarked
<1>3. Good(m, f) /\ Frame(s, m) /\ m.nxt = s.nxt
  BY <1>2 DEF Remarked
<1>4. (m.rtx = <<>> <=> s.rtx = <<>>) /\ m.pending = s.pending /\ (PreArmed(s) => PreArmed(m))
  BY <1>2, RemarkedArmed
<1>5. CaAs(m, t, f)
  BY <1>3, CaRaised
<1> HIDE DEF t
<1>6. Good(t, f) /\ Frame(m, t) /\ (PreArmed(m) => PreArmed(t)) /\ t.rtx = m.rtx
      /\ t.pending = m.pending /\ t.nxt = m.nxt
  BY <1>5, CaArmed DEF CaAs
<1>7. s.rtx # <<>>
  <2>1. s.rtx \in Seq(Skb) /\ Len(s.rtx) \in Nat
    BY GoodFacts
  <2>2. Len(s.rtx) # 0
    BY <2>1
  <2> QED BY <2>1, <2>2, SeqFacts
<1>8. Good(t, f) /\ Frame(s, t) /\ t.rtx # <<>> /\ t.pending = s.pending
      /\ t.nxt = s.nxt /\ (PreArmed(s) => PreArmed(t))
  BY <1>3, <1>4, <1>6, <1>7, FrameStep
<1> QED BY <1>8 DEF t, m

\* The end of an ACK, in a state of the connection.
LEMMA AfterAckStep ==
  ASSUME SenderInv(sk), sk.state # "CLOSE", NEW u, NEW t, NEW env \in Env,
         u.state = sk.state, u.wseq = sk.wseq, u.una = sk.una,
         Good(t, sk.state = "FIN_WAIT1"), Frame(u, t), PreArmed(t), t.nxt = sk.nxt
  PROVE  Moved(sk.nxt, AfterAck(t, env), sk.una, sk.wseq)
<1> DEFINE f == sk.state = "FIN_WAIT1"
           a == AfterAck(t, env)
<1>1. Good(t, f) /\ env \in EnvSet
  BY EnvIs
<1> HIDE DEF f
<1>2. Good(a, f) /\ Frame(t, a) /\ (PreArmed(t) /\ t.state # "CLOSE" => Armed(a))
      /\ NewIn(t.nxt, a)
  BY <1>1, AfterAckIs
<1> HIDE DEF a
<1>3. t.state # "CLOSE"
  BY DEF Frame
<1>4. Frame(u, a) /\ Armed(a)
  BY <1>2, <1>3, FrameStep
<1>5. Moved(sk.nxt, a, sk.una, sk.wseq)
  BY <1>2, <1>4, InvStays DEF f
<1> QED BY <1>5 DEF a

\* A SACK.
LEMMA SackStep ==
  ASSUME SenderInv(sk), NEW env \in Env, NEW i \in DOMAIN sk.rtx,
         NEW l \in {0} \cup DOMAIN sk.rtx, NEW reo \in BOOLEAN, RecvSack(i, l, reo, env)
  PROVE  Moved(sk.nxt, sk', sk.una, sk.wseq)
<1> DEFINE f == sk.state = "FIN_WAIT1"
           u == Fresh(sk)
           s == SackOne(u, i)
           p == [s EXCEPT !.pending = "reo"]
           x == [MarkLost(s, l) EXCEPT !.ca = IF @ = "Open" THEN "Recovery" ELSE @]
           m == IF l = 0 THEN (IF reo THEN p ELSE s) ELSE x
<1>1. Started(sk, u, f)
  BY StartIs
<1>2. sk' = AfterAck(m, env) /\ sk.state # "CLOSE" /\ ~sk.rtx[i].acked
  BY DEF RecvSack
<1>3. Good(sk, f)
  BY DEF SenderInv
<1> HIDE DEF f, u
<1>4. Good(u, f) /\ u.state = sk.state /\ u.wseq = sk.wseq /\ u.una = sk.una /\ u.rtx = sk.rtx
      /\ Armed(u) /\ u.nxt = sk.nxt
  BY <1>1 DEF Started
<1>5. DOMAIN sk.rtx = 1..Len(sk.rtx)
  BY <1>3, GoodFacts
<1>6. i \in 1..Len(u.rtx) /\ ~u.rtx[i].acked
  BY <1>2, <1>4, <1>5
<1>7. Remarked(u, s, f)
  BY <1>4, <1>6, SackOneIs
<1> HIDE DEF s
<1>8. Good(s, f) /\ Frame(u, s) /\ Len(s.rtx) = Len(u.rtx) /\ s.nxt = sk.nxt
  BY <1>4, <1>7 DEF Remarked
<1>9. PreArmed(s) /\ s.rtx # <<>>
  <2>1. u.rtx # <<>>
    <3>1. u.rtx \in Seq(Skb)
      BY <1>4, GoodFacts
    <3>2. Len(u.rtx) # 0
      BY <1>6
    <3> QED BY <3>1, <3>2, SeqFacts
  <2>2. PreArmed(u)
    BY <1>4 DEF Armed
  <2> QED BY <1>4, <1>7, <2>1, <2>2, RemarkedArmed
<1>10. Good(p, f) /\ Frame(u, p) /\ PreArmed(p) /\ p.nxt = sk.nxt
  <2>1. TimerSet(s, p, "reo", f)
    <3>1. "reo" \in Pendings
      BY DEF Pendings
    <3> QED BY <1>8, <3>1, TimerSetIs
  <2> HIDE DEF p
  <2>2. Good(p, f) /\ Frame(s, p) /\ p.rtx # <<>> /\ p.pending = "reo" /\ p.nxt = sk.nxt
    BY <1>8, <1>9, <2>1 DEF TimerSet
  <2> QED BY <1>8, <2>2, FrameStep DEF PreArmed, Timers
<1>11. l # 0 => Good(x, f) /\ Frame(u, x) /\ PreArmed(x) /\ x.nxt = sk.nxt
  <2> HAVE l # 0
  <2>1. l \in 1..Len(s.rtx)
    BY <1>4, <1>5, <1>8
  <2>2. Good(x, f) /\ Frame(s, x) /\ (PreArmed(s) => PreArmed(x)) /\ x.nxt = s.nxt
    BY <1>8, <2>1, LostRaised
  <2> HIDE DEF x
  <2> QED BY <1>8, <1>9, <2>2, FrameStep
<1> HIDE DEF p, x
<1>12. Good(m, f) /\ Frame(u, m) /\ PreArmed(m) /\ m.nxt = sk.nxt
  BY <1>8, <1>9, <1>10, <1>11
<1> HIDE DEF m
<1>13. Moved(sk.nxt, AfterAck(m, env), sk.una, sk.wseq)
  BY <1>2, <1>4, <1>12, AfterAckStep DEF f
<1> QED BY <1>2, <1>13

\* The reordering timer.
LEMMA ReoStep ==
  ASSUME SenderInv(sk), NEW env \in Env, NEW l \in DOMAIN sk.rtx, ReoFires(l, env)
  PROVE  Moved(sk.nxt, sk', sk.una, sk.wseq)
<1> DEFINE f == sk.state = "FIN_WAIT1"
           u == Fresh(sk)
           m == [MarkLost(u, l) EXCEPT !.ca = IF @ = "Open" THEN "Recovery" ELSE @]
           s == XmitRetransmitQueue(m, env)
           t == IF s.pending # "retrans" THEN RearmRto(s) ELSE s
<1>1. Started(sk, u, f)
  BY StartIs
<1>2. sk' = t /\ sk.pending = "reo"
  BY DEF ReoFires
<1>3. sk.state # "CLOSE" /\ Good(sk, f)
  BY <1>2 DEF SenderInv, Phase
<1> HIDE DEF f, u
<1>4. Good(u, f) /\ u.state = sk.state /\ u.wseq = sk.wseq /\ u.una = sk.una /\ u.rtx = sk.rtx
      /\ u.nxt = sk.nxt
  BY <1>1 DEF Started
<1>5. l \in 1..Len(u.rtx)
  <2>1. DOMAIN sk.rtx = 1..Len(sk.rtx)
    BY <1>3, GoodFacts
  <2> QED BY <1>4, <2>1
<1>6. Good(m, f) /\ Frame(u, m) /\ m.rtx # <<>> /\ m.nxt = sk.nxt
  BY <1>4, <1>5, LostRaised
<1> HIDE DEF m
<1>7. Rescued(m, s, f)
  BY <1>6, EnvIs, XmitRetransmitIs
<1> HIDE DEF s
<1>8. Good(s, f) /\ Frame(m, s) /\ s.rtx # <<>> /\ NewIn(m.nxt, s)
  BY <1>6, <1>7 DEF Rescued, NewIn
<1>9. Rearmed(m, t, f)
  <2>1. CASE s.pending # "retrans"
    BY <1>8, <2>1, RearmedIs
  <2>2. CASE s.pending = "retrans"
    BY <1>8, <2>2 DEF Rearmed
  <2> QED BY <2>1, <2>2
<1> HIDE DEF t
<1>10. Good(t, f) /\ Frame(u, t) /\ Armed(t) /\ NewIn(sk.nxt, t)
  <2>1. Good(t, f) /\ Frame(m, t) /\ Armed(t) /\ NewIn(sk.nxt, t)
    BY <1>6, <1>9 DEF Rearmed, Armed, PreArmed, Timers
  <2> QED BY <1>6, <2>1, FrameStep
<1>11. Moved(sk.nxt, t, sk.una, sk.wseq)
  BY <1>3, <1>4, <1>10, InvStays DEF f
<1> QED BY <1>2, <1>11

\* The path has a smaller segment size.
LEMMA MtuReducedStep ==
  ASSUME SenderInv(sk), NEW env \in Env, NEW mss \in Msses, MtuReduced(mss, env)
  PROVE  Moved(sk.nxt, sk', sk.una, sk.wseq)
<1> DEFINE f == sk.state = "FIN_WAIT1"
           u == Fresh(sk)
           s == [u EXCEPT !.mss = mss]
           big == {i \in DOMAIN s.rtx : s.rtx[i].pc > 0
                     /\ (IF s.rtx[i].pc = 1 THEN Size(s.rtx[i]) ELSE s.rtx[i].gso) > mss}
           lost == MarkAll(s, big)
           c == [lost EXCEPT !.ca = "Loss"]
           x == XmitRetransmitQueue(c, env)
           t == IF lost.lost_out = s.lost_out THEN lost ELSE x
<1>1. Started(sk, u, f)
  BY StartIs
<1>2. sk' = t /\ sk.state # "CLOSE"
  BY DEF MtuReduced
<1> HIDE DEF f, u
<1>3. Good(u, f) /\ u \in Sockets /\ Armed(u) /\ u.state = sk.state /\ u.wseq = sk.wseq
      /\ u.una = sk.una /\ u.nxt = sk.nxt
  BY <1>1 DEF Started
<1>4. /\ s \in Sockets /\ s.una = u.una /\ s.nxt = u.nxt /\ s.wseq = u.wseq
      /\ s.rtx = u.rtx /\ s.wq = u.wq /\ SameCounts(u, s) /\ s.hint = u.hint
      /\ s.tx = u.tx /\ s.bug = u.bug /\ s.pending = u.pending /\ s.state = u.state
      /\ s.wnd = u.wnd
  BY <1>3 DEF Sockets, SameCounts
<1> HIDE DEF s
<1>5. Good(s, f) /\ Armed(s) /\ s.state = sk.state /\ s.wseq = sk.wseq /\ s.una = sk.una
      /\ s.nxt = sk.nxt
  <2>1. Good(s, f)
    BY <1>3, <1>4, GoodSame
  <2> QED BY <1>3, <1>4, <2>1 DEF Armed, PreArmed
<1> HIDE DEF big
<1>6. Remarked(s, lost, f)
  BY <1>5, MarkAllIs
<1> HIDE DEF lost
<1>7. Good(lost, f) /\ Frame(s, lost) /\ Armed(lost) /\ lost.nxt = sk.nxt
  <2>1. Good(lost, f) /\ Frame(s, lost) /\ lost.nxt = sk.nxt
    BY <1>5, <1>6 DEF Remarked
  <2> QED BY <1>5, <1>6, <2>1, RemarkedArmed
<1>8. CaAs(lost, c, f)
  <2>1. "Loss" \in CaStates
    BY DEF CaStates
  <2> QED BY <1>7, <2>1, CaSet
<1> HIDE DEF c
<1>9. Good(c, f) /\ Frame(lost, c) /\ Armed(c) /\ c.nxt = sk.nxt
  BY <1>7, <1>8, CaArmed DEF CaAs
<1>10. Rescued(c, x, f)
  BY <1>9, EnvIs, XmitRetransmitIs
<1> HIDE DEF x
<1>11. Good(x, f) /\ Frame(s, x) /\ Armed(x) /\ x.nxt = sk.nxt
  <2>1. Good(x, f) /\ Frame(c, x) /\ x.nxt = sk.nxt
    BY <1>9, <1>10 DEF Rescued
  <2>2. Armed(x)
    BY <1>9, <1>10, RescuedArmed
  <2> QED BY <1>7, <1>9, <2>1, <2>2, FrameStep
<1>12. Good(t, f) /\ Frame(s, t) /\ Armed(t) /\ NewIn(sk.nxt, t)
  BY <1>7, <1>11 DEF NewIn
<1> HIDE DEF t
<1>13. Moved(sk.nxt, t, sk.una, sk.wseq)
  BY <1>2, <1>5, <1>12, InvStays DEF f
<1> QED BY <1>2, <1>13

\* A retransmit queue of other buffers over the same ranges.
LEMMA SentSameBytes ==
  ASSUME NEW q, NEW una, NEW nxt, NEW f, SentPart(q, una, nxt, f),
         NEW r \in Seq(Skb), Len(r) = Len(q), \A k \in 1..Len(q) : SameBytes(r[k], q[k])
  PROVE  SentPart(r, una, nxt, f)
<1> DEFINE n == Len(q)
<1>1. /\ q \in Seq(Skb) /\ una \in Nat /\ nxt \in Nat /\ una <= nxt /\ Linked(q)
      /\ n = 0 => una = nxt
      /\ n > 0 => q[1].seq <= una /\ q[n].end = nxt
      /\ \A i \in 1..n : RtxOK(q[i], una)
      /\ FinLast(q, f)
  BY DEF SentPart
<1>2. n \in Nat
  BY <1>1
<1>3. Linked(r)
  <2> SUFFICES ASSUME NEW i \in 1..n - 1 PROVE r[i].end = r[i + 1].seq
    BY DEF Linked
  <2>1. i \in 1..n /\ i + 1 \in 1..n
    BY <1>2
  <2> HIDE DEF n
  <2>2. q[i].end = q[i + 1].seq
    BY <1>1 DEF Linked, n
  <2>3. SameBytes(r[i], q[i]) /\ SameBytes(r[i + 1], q[i + 1])
    BY <2>1 DEF n
  <2> QED BY <2>2, <2>3 DEF SameBytes
<1>4. n > 0 => r[1].seq <= una /\ r[n].end = nxt
  <2> HAVE n > 0
  <2>1. 1 \in 1..n /\ n \in 1..n
    BY <1>2
  <2>2. SameBytes(r[1], q[1]) /\ SameBytes(r[n], q[n])
    BY <2>1
  <2> QED BY <1>1, <2>2 DEF SameBytes
<1>5. \A i \in 1..n : RtxOK(r[i], una)
  BY <1>1 DEF RtxOK, SameBytes
<1>6. FinLast(r, f)
  BY <1>1 DEF FinLast, SameBytes
<1> QED BY <1>1, <1>3, <1>4, <1>5, <1>6 DEF SentPart

\* A buffer that is no longer SACKed.
LEMMA ClearedSkb ==
  ASSUME NEW b \in Skb
  PROVE  LET x == [b EXCEPT !.acked = FALSE]
         IN x \in Skb /\ SameBytes(x, b) /\ ~x.acked /\ x.lost = b.lost /\ x.retrans = b.retrans
<1> DEFINE x == [b EXCEPT !.acked = FALSE]
<1>1. b \in SkbRec
  BY DEF Skb
<1>2. x \in SkbRec /\ x.seq = b.seq /\ x.end = b.end /\ x.syn = b.syn /\ x.fin = b.fin
      /\ x.acked = FALSE /\ x.lost = b.lost /\ x.retrans = b.retrans /\ x.pc = b.pc
      /\ x.gso = b.gso
  BY <1>1 DEF SkbRec
<1> HIDE DEF x
<1>3. Size(x) = Size(b)
  BY <1>2 DEF Size
<1>4. x \in Skb
  <2>1. /\ b.seq <= b.end /\ Size(b) >= 0
        /\ b.syn => b.seq = 0 /\ b.end = 1 /\ ~b.fin
        /\ b.pc > 1 => b.gso > 0 /\ Size(b) > b.gso
        /\ b.retrans => b.lost
    BY DEF Skb
  <2> QED BY <1>2, <1>3, <2>1 DEF Skb
<1> QED BY <1>2, <1>4 DEF x, SameBytes

\* The peer has reneged: no buffer is SACKed any more.
LEMMA RenegIs ==
  ASSUME NEW s, NEW f, Good(s, f)
  PROVE  LET t == [s EXCEPT !.sacked_out = 0,
                            !.rtx = [i \in DOMAIN @ |-> [@[i] EXCEPT !.acked = FALSE]]]
         IN /\ Good(t, f) /\ Frame(s, t) /\ SameTimers(s, t) /\ Len(t.rtx) = Len(s.rtx)
            /\ t.nxt = s.nxt
            /\ s.rtx # <<>> => ~t.rtx[1].acked
<1> DEFINE r == [i \in DOMAIN s.rtx |-> [s.rtx[i] EXCEPT !.acked = FALSE]]
           n == Len(s.rtx)
           t == [s EXCEPT !.sacked_out = 0, !.rtx = r]
<1>1. s \in Sockets /\ s.rtx \in Seq(Skb) /\ n \in Nat /\ DOMAIN s.rtx = 1..n /\ s.una \in Nat
      /\ SentPart(s.rtx, s.una, s.nxt, f /\ s.wq = <<>>) /\ Counted(s) /\ HintOK(s)
      /\ s.bug = FALSE /\ s.hint \in Nat
  BY GoodFacts
<1>2. \A k \in 1..n : /\ r[k] \in Skb /\ SameBytes(r[k], s.rtx[k]) /\ ~r[k].acked
                      /\ r[k].lost = s.rtx[k].lost /\ r[k].retrans = s.rtx[k].retrans
  <2> SUFFICES ASSUME NEW k \in 1..n
               PROVE  /\ r[k] \in Skb /\ SameBytes(r[k], s.rtx[k]) /\ ~r[k].acked
                      /\ r[k].lost = s.rtx[k].lost /\ r[k].retrans = s.rtx[k].retrans
    OBVIOUS
  <2> DEFINE b == s.rtx[k]
             x == [b EXCEPT !.acked = FALSE]
  <2>1. r[k] = x
    BY <1>1
  <2>2. b \in Skb
    BY GoodBuf
  <2> HIDE DEF b, r
  <2>3. x \in Skb /\ SameBytes(x, b) /\ ~x.acked /\ x.lost = b.lost /\ x.retrans = b.retrans
    BY <2>2, ClearedSkb
  <2> HIDE DEF x
  <2> QED BY <2>1, <2>3 DEF b
<1>3. r \in Seq(Skb) /\ Len(r) = n
  <2>1. r = [i \in 1..n |-> r[i]]
    BY <1>1
  <2> HIDE DEF r, n
  <2>2. r \in [1..n -> Skb]
    BY <1>2, <2>1
  <2> QED BY <1>1, <2>2, SeqDef, LenProperties
<1>4. t = [s EXCEPT !.sacked_out = 0,
                    !.rtx = [i \in DOMAIN @ |-> [@[i] EXCEPT !.acked = FALSE]]]
  BY <1>1 DEF Sockets
<1> HIDE DEF r
<1>5. /\ t \in Sockets /\ Frame(s, t) /\ SameTimers(s, t) /\ t.rtx = r
      /\ t.packets_out = s.packets_out /\ t.lost_out = s.lost_out
      /\ t.retrans_out = s.retrans_out /\ t.sacked_out = 0 /\ t.hint = s.hint
      /\ t.wq = s.wq /\ t.nxt = s.nxt /\ t.tx = s.tx /\ t.bug = s.bug
  <2> DEFINE v == 0
             w == [s EXCEPT !.sacked_out = v, !.rtx = r]
  <2>1. v \in Int
    OBVIOUS
  <2> HIDE DEF v
  <2>2. /\ w \in Sockets /\ Frame(s, w) /\ SameTimers(s, w) /\ w.rtx = r
        /\ w.packets_out = s.packets_out /\ w.lost_out = s.lost_out
        /\ w.retrans_out = s.retrans_out /\ w.sacked_out = v /\ w.hint = s.hint
        /\ w.wq = s.wq /\ w.nxt = s.nxt /\ w.tx = s.tx /\ w.bug = s.bug
    BY <1>1, <1>3, <2>1 DEF Sockets, Frame, SameTimers
  <2> QED BY <2>2 DEF v
<1> HIDE DEF t
<1>6. SentPart(r, s.una, s.nxt, f /\ s.wq = <<>>)
  <2> DEFINE g == f /\ s.wq = <<>>
             q == s.rtx
  <2>1. SentPart(q, s.una, s.nxt, g) /\ Len(r) = Len(q)
        /\ \A k \in 1..Len(q) : SameBytes(r[k], q[k])
    BY <1>1, <1>2, <1>3
  <2> HIDE DEF g, q
  <2>2. SentPart(r, s.una, s.nxt, g)
    BY <1>3, <2>1, SentSameBytes
  <2> QED BY <2>2 DEF g
<1>7. Counted(t)
  <2>1. \A c \in {"out", "lost", "retrans"} : Sums(r, c, Counter(s, c))
    <3> SUFFICES ASSUME NEW c \in {"out", "lost", "retrans"} PROVE Sums(r, c, Counter(s, c))
      OBVIOUS
    <3>1. \A k \in 1..n : Weight(r[k], c) = Weight(s.rtx[k], c)
      BY <1>2 DEF Weight, Has, SameBytes
    <3>2. Sums(s.rtx, c, Counter(s, c))
      BY <1>1 DEF Counted, Marks
    <3> DEFINE v == Counter(s, c)
               q == s.rtx
    <3>3. Sums(q, c, v) /\ Len(r) = Len(q) /\ \A k \in 1..Len(q) : Weight(r[k], c) = Weight(q[k], c)
      BY <1>3, <3>1, <3>2
    <3> HIDE DEF v, q
    <3>4. Sums(r, c, v)
      BY <3>3, SumsSame
    <3> QED BY <3>4 DEF v
  <2>2. Sums(r, "sacked", 0)
    <3>1. \A k \in 1..Len(r) : Weight(r[k], "sacked") = 0
      BY <1>2, <1>3 DEF Weight, Has
    <3> QED BY <1>3, <3>1, SumsNone
  <2> SUFFICES ASSUME NEW c \in Marks PROVE Sums(t.rtx, c, Counter(t, c))
    BY DEF Counted
  <2>3. CASE c = "sacked"
    <3>1. Counter(t, c) = 0
      BY <1>5, <2>3 DEF Counter
    <3> QED BY <1>5, <2>2, <2>3, <3>1
  <2>4. CASE c # "sacked"
    <3>1. c \in {"out", "lost", "retrans"}
      BY <2>4 DEF Marks
    <3>2. Counter(t, c) = Counter(s, c)
      BY <1>5, <3>1 DEF Counter
    <3> QED BY <1>5, <2>1, <3>1, <3>2
  <2> QED BY <2>3, <2>4
<1>8. HintOK(t)
  <2>1. s.hint <= n /\ \A i \in 1..s.hint - 1 : ~Waits(s.rtx[i])
    BY <1>1 DEF HintOK, Settled
  <2>2. \A i \in 1..s.hint - 1 : ~Waits(r[i])
    <3> SUFFICES ASSUME NEW i \in 1..s.hint - 1 PROVE ~Waits(r[i])
      OBVIOUS
    <3>1. i \in 1..n
      BY <1>1, <2>1
    <3>2. s.rtx[i] \in Skb
      BY <3>1, GoodBuf
    <3>3. s.rtx[i].acked => ~s.rtx[i].lost
      BY <3>2 DEF Skb
    <3> QED BY <1>2, <2>1, <3>1, <3>3 DEF Waits
  <2> QED BY <1>3, <1>5, <2>1, <2>2 DEF HintOK, Settled
<1>9. Good(t, f)
  BY <1>1, <1>5, <1>6, <1>7, <1>8, GoodRtx
<1>10. s.rtx # <<>> => ~t.rtx[1].acked
  <2> HAVE s.rtx # <<>>
  <2>1. n # 0
    BY <1>1, SeqFacts
  <2> QED BY <1>1, <1>2, <1>5, <2>1
<1>11. Good(t, f) /\ Frame(s, t) /\ SameTimers(s, t) /\ Len(t.rtx) = Len(s.rtx)
       /\ t.nxt = s.nxt /\ (s.rtx # <<>> => ~t.rtx[1].acked)
  BY <1>3, <1>5, <1>9, <1>10
<1> QED BY <1>4, <1>11

\* The state that tcp_enter_loss leaves.
LEMMA EnterLossIs ==
  ASSUME NEW s, NEW f, Good(s, f)
  PROVE  LET t == [s EXCEPT !.hint = 0, !.ca = "Loss", !.cwnd = InFlight(s) + 1]
         IN Good(t, f) /\ Frame(s, t) /\ t.rtx = s.rtx /\ t.nxt = s.nxt
<1> DEFINE h == 0
           c == "Loss"
           w == InFlight(s) + 1
           t == [s EXCEPT !.hint = h, !.ca = c, !.cwnd = w]
<1>1. s \in Sockets /\ SentPart(s.rtx, s.una, s.nxt, f /\ s.wq = <<>>) /\ Counted(s)
      /\ s.bug = FALSE /\ Len(s.rtx) \in Nat
  BY GoodFacts
<1>2. h \in Nat /\ c \in CaStates /\ w \in Nat \ {0} /\ h = 0
  <2>1. InFlight(s) \in Nat
    BY GoodCounts
  <2> QED BY <2>1 DEF CaStates
<1>3. t = [s EXCEPT !.hint = 0, !.ca = "Loss", !.cwnd = InFlight(s) + 1]
  OBVIOUS
<1> HIDE DEF h, c, w
<1>4. /\ t \in Sockets /\ Frame(s, t) /\ SameCounts(s, t) /\ t.rtx = s.rtx /\ t.hint = h
      /\ t.wq = s.wq /\ t.nxt = s.nxt /\ t.tx = s.tx /\ t.bug = s.bug
  BY <1>1, <1>2 DEF Sockets, Frame, SameCounts
<1> HIDE DEF t
<1>5. HintOK(t)
  BY <1>1, <1>2, <1>4 DEF HintOK, Settled
<1>6. Counted(t)
  BY <1>1, <1>4 DEF Counted, Counter, SameCounts
<1>7. Good(t, f)
  BY <1>1, <1>4, <1>5, <1>6, GoodRtx
<1> QED BY <1>3, <1>4, <1>7

\* The retransmission timer.
LEMMA RtoStep ==
  ASSUME SenderInv(sk), NEW env \in Env, NEW all \in BOOLEAN, RtoFires(all, env)
  PROVE  Moved(sk.nxt, sk', sk.una, sk.wseq)
<1> DEFINE f == sk.state = "FIN_WAIT1"
           u == Fresh(sk)
           s == [u EXCEPT !.pending = "none", !.tlp = 0]
           reneg == s.rtx # <<>> /\ Head(s.rtx).acked
           cl == [s EXCEPT !.sacked_out = 0,
                           !.rtx = [i \in DOMAIN @ |-> [@[i] EXCEPT !.acked = FALSE]]]
           clean == IF reneg THEN cl ELSE s
           I == IF all \/ reneg THEN DOMAIN s.rtx ELSE {1}
           lost == MarkAll(clean, I)
           loss == [lost EXCEPT !.hint = 0, !.ca = "Loss", !.cwnd = InFlight(lost) + 1]
           r == RetransmitSkb(loss, 1, 1, env)
           t == [r.sk EXCEPT !.pending = "retrans"]
<1>1. Started(sk, u, f)
  BY StartIs
<1>2. /\ sk.pending = "retrans"
      /\ sk' = IF s.packets_out = 0 THEN s ELSE IF s.rtx = <<>> THEN Assert_(s, FALSE) ELSE t
  BY DEF RtoFires
<1>3. sk.state # "CLOSE"
  BY <1>2 DEF SenderInv, Phase
<1> HIDE DEF f, u
<1>4. Good(u, f) /\ u \in Sockets /\ u.state = sk.state /\ u.wseq = sk.wseq /\ u.una = sk.una
      /\ u.rtx # <<>> /\ u.nxt = sk.nxt
  BY <1>1, <1>2 DEF Started, Armed, PreArmed
<1>5. /\ s \in Sockets /\ s.una = u.una /\ s.nxt = u.nxt /\ s.wseq = u.wseq
      /\ s.rtx = u.rtx /\ s.wq = u.wq /\ SameCounts(u, s) /\ s.hint = u.hint
      /\ s.tx = u.tx /\ s.bug = u.bug /\ s.state = u.state /\ Frame(u, s)
  <2> DEFINE p == "none"
             z == 0
             w == [u EXCEPT !.pending = p, !.tlp = z]
  <2>1. p \in Pendings /\ z \in Int /\ s = w
    BY DEF Pendings
  <2> HIDE DEF p, z, s
  <2>2. /\ w \in Sockets /\ w.una = u.una /\ w.nxt = u.nxt /\ w.wseq = u.wseq
        /\ w.rtx = u.rtx /\ w.wq = u.wq /\ SameCounts(u, w) /\ w.hint = u.hint
        /\ w.tx = u.tx /\ w.bug = u.bug /\ w.state = u.state /\ Frame(u, w)
    BY <1>4, <2>1 DEF Sockets, SameCounts, Frame
  <2> QED BY <2>1, <2>2
<1> HIDE DEF s
<1>6. Good(s, f) /\ s.rtx # <<>> /\ s.nxt = sk.nxt
  BY <1>4, <1>5, GoodSame DEF Frame
<1>7. s.packets_out # 0 /\ s.rtx \in Seq(Skb) /\ DOMAIN s.rtx = 1..Len(s.rtx)
      /\ Len(s.rtx) \in Nat \ {0} /\ Head(s.rtx) = s.rtx[1]
  <2>1. s.rtx \in Seq(Skb)
    BY <1>6, GoodFacts
  <2> QED BY <1>6, <2>1, GoodCounts, SeqEnds
<1>8. sk' = t
  BY <1>2, <1>6, <1>7
<1>9. Good(clean, f) /\ Frame(s, clean) /\ Len(clean.rtx) = Len(s.rtx) /\ ~clean.rtx[1].acked
      /\ clean.nxt = s.nxt
  <2>1. CASE reneg
    <3>1. Good(cl, f) /\ Frame(s, cl) /\ Len(cl.rtx) = Len(s.rtx) /\ ~cl.rtx[1].acked
          /\ cl.nxt = s.nxt
      BY <1>6, RenegIs
    <3> HIDE DEF cl
    <3> QED BY <2>1, <3>1
  <2>2. CASE ~reneg
    <3>1. clean = s
      BY <2>2
    <3>2. ~s.rtx[1].acked
      BY <1>6, <1>7, <2>2
    <3> QED BY <1>6, <3>1, <3>2, FrameSame
  <2> QED BY <2>1, <2>2
<1>10. 1 \in I
  BY <1>7
<1> HIDE DEF clean, I
<1>11. clean.rtx \in Seq(Skb) /\ clean.rtx # <<>>
  <2>1. clean.rtx \in Seq(Skb)
    BY <1>9, GoodFacts
  <2>2. Len(clean.rtx) # 0
    BY <1>7, <1>9
  <2> QED BY <2>1, <2>2, SeqFacts
<1>12. Remarked(clean, lost, f) /\ HeadLost(lost)
  BY <1>9, <1>10, <1>11, MarkAllIs
<1> HIDE DEF lost
<1>13. Good(lost, f) /\ Frame(clean, lost) /\ lost.rtx # <<>> /\ lost.nxt = clean.nxt
  <2>1. Good(lost, f) /\ Frame(clean, lost) /\ lost.nxt = clean.nxt
    BY <1>12 DEF Remarked
  <2> QED BY <1>9, <1>11, <1>12, <2>1, RemarkedArmed
<1>14. Good(loss, f) /\ Frame(lost, loss) /\ loss.rtx = lost.rtx /\ loss.nxt = lost.nxt
  BY <1>13, EnterLossIs
<1> HIDE DEF loss
<1>15. loss.rtx[1].lost /\ ~loss.rtx[1].retrans /\ 1 \in 1..Len(loss.rtx)
  <2>1. loss.rtx \in Seq(Skb) /\ loss.rtx # <<>>
    BY <1>13, <1>14, GoodFacts
  <2>2. Len(loss.rtx) \in Nat \ {0}
    BY <2>1, SeqEnds
  <2> QED BY <1>12, <1>14, <2>2 DEF HeadLost
<1>16. RetransmitResult(loss, r, 1, f)
  BY <1>14, <1>15, RetransmitSkbIs
<1> HIDE DEF r
<1>17. Good(r.sk, f) /\ Frame(loss, r.sk) /\ 1 <= Len(r.sk.rtx) /\ r.sk.nxt = loss.nxt
  BY <1>16 DEF RetransmitResult, Resent, RtxOnly, RtxWork
<1>18. TimerSet(r.sk, t, "retrans", f)
  <2> DEFINE x == r.sk
             y == [x EXCEPT !.pending = "retrans"]
  <2>1. "retrans" \in Pendings
    BY DEF Pendings
  <2>2. Good(x, f) /\ t = y
    BY <1>17
  <2> HIDE DEF x, t
  <2>3. TimerSet(x, y, "retrans", f)
    BY <2>1, <2>2, TimerSetIs
  <2> QED BY <2>2, <2>3 DEF x
<1> HIDE DEF t
<1>19. Good(t, f) /\ Frame(r.sk, t) /\ t.pending = "retrans" /\ t.rtx = r.sk.rtx
      /\ t.nxt = r.sk.nxt
  BY <1>18 DEF TimerSet
<1>20. Armed(t)
  <2>1. t.rtx # <<>>
    <3>1. t.rtx \in Seq(Skb)
      BY <1>19, GoodFacts
    <3>2. Len(t.rtx) # 0
      BY <1>17, <1>19
    <3> QED BY <3>1, <3>2, SeqFacts
  <2> QED BY <1>19, <2>1 DEF Armed, PreArmed, Timers
<1>21. Frame(u, t)
  <2>1. Frame(u, lost)
    BY <1>5, <1>9, <1>13, FrameStep
  <2>2. Frame(lost, t)
    BY <1>14, <1>17, <1>19, FrameStep
  <2> QED BY <2>1, <2>2, FrameStep
<1>22. NewIn(sk.nxt, t)
  BY <1>6, <1>9, <1>13, <1>14, <1>17, <1>19 DEF NewIn
<1>23. Moved(sk.nxt, t, sk.una, sk.wseq)
  BY <1>3, <1>22, <1>4, <1>19, <1>20, <1>21, InvStays DEF f
<1> QED BY <1>8, <1>23

\* Nothing leaves an empty queue.
LEMMA CleanEmpty ==
  ASSUME NEW s, NEW f, Good(s, f), NEW ack \in s.una..s.nxt, s.rtx = <<>>
  PROVE  CleanRtxQueue(s, ack, TRUE).rtx = <<>>
<1> DEFINE Op(a, k) == LeaveOne(a, ack)
           n == Len(s.rtx)
           base == s
           S == {s}
           F == [p \in S \X (1..n) |-> Op(p[1], p[2])]
           Is(g) == g = [k \in 0..n |-> IF k = 0 THEN base ELSE Op(g[k - 1], k)]
<1> QED
  <2>1. n \in Nat /\ s \in Sockets
    BY GoodFacts
  <2>2. base \in S
    OBVIOUS
  <2>3. ASSUME NEW a \in S, NEW k PROVE Op(a, k) \in S
    BY DEF LeaveOne
  <2> HIDE DEF Op, n, base, S
  <2>4. F \in [S \X (1..n) -> S]
    BY <2>3
  <2>5. \A a \in S, k \in 1..n : F[<<a, k>>] = Op(a, k)
    OBVIOUS
  <2> HIDE DEF F
  <2>6. PICK g : /\ g = [k \in 0..n |-> IF k = 0 THEN base ELSE F[<<g[k - 1], k>>]]
                /\ \A k \in 0..n : g[k] \in S
    <3>1. LoopBody(n, S, base, F)
      BY <2>1, <2>2, <2>4 DEF LoopBody
    <3>2. PICK g : LoopOf(g, n, S, base, F)
      BY <3>1, LoopExists
    <3> QED BY <3>2 DEF LoopOf
  <2>7. \A k \in 0..n : k # 0 => F[<<g[k - 1], k>>] = Op(g[k - 1], k)
    BY <2>1, <2>5, <2>6
  <2>8. Is(g)
    BY <2>6, <2>7
  <2> DEFINE h == CHOOSE o : Is(o)
  <2>9. Is(h)
    BY <2>8
  <2>10. Iterate(Op, base, n) = h[n]
    BY DEF Iterate
  <2> HIDE DEF h
  <2>11. h[0] = base /\ \A k \in 1..n : h[k] = Op(h[k - 1], k)
    BY <2>1, <2>9
  <2>12. h[n] \in S
    <3>1. n \in Nat /\ h[0] \in S /\ \A k \in 1..n : h[k - 1] \in S => h[k] \in S
      BY <2>1, <2>2, <2>3, <2>11
    <3> QED BY ONLY <3>1, Upward
  <2>13. Iterate(LAMBDA a, k : LeaveOne(a, ack), s, Len(s.rtx)) = s
    <3>1. h[n] = s
      BY <2>12 DEF S
    <3> QED BY <2>10, <3>1 DEF Op, base, n
  <2> DEFINE t == Iterate(LAMBDA a, k : LeaveOne(a, ack), s, Len(s.rtx))
             c == CleanRtxQueue(s, ack, TRUE)
  <2>14. c = [IF t.rtx # <<>> /\ Head(t.rtx).pc > 1 /\ Head(t.rtx).seq < ack
              THEN [AdjustPcount(t, Head(t.rtx), Head(t.rtx).pc - TrimHead(Head(t.rtx), ack).pc)
                      EXCEPT !.rtx = Spliced(@, 1, <<TrimHead(Head(t.rtx), ack)>>)]
              ELSE t EXCEPT !.una = ack]
    BY DEF CleanRtxQueue, LeaveOne
  <2>15. t = s
    BY <2>13
  <2> HIDE DEF t, c
  <2>16. c = [s EXCEPT !.una = ack]
    BY <2>14, <2>15
  <2>17. c.rtx = <<>>
    BY <2>1, <2>16 DEF Sockets
  <2> QED BY <2>17 DEF c

\* What the end of an ACK makes of a socket of a connection.
LEMMA AfterAckInv ==
  ASSUME NEW t, NEW f, Good(t, f), f <=> t.state = "FIN_WAIT1", f \in BOOLEAN, NEW env \in Env,
         PreArmed(t), t.state \in {"ESTABLISHED", "FIN_WAIT1"}, t.una >= 1, WithinData(t)
  PROVE  Moved(t.nxt, AfterAck(t, env), t.una, t.wseq)
<1> DEFINE a == AfterAck(t, env)
<1>1. env \in EnvSet
  BY EnvIs
<1>2. Good(a, f) /\ Frame(t, a) /\ (PreArmed(t) /\ t.state # "CLOSE" => Armed(a))
      /\ NewIn(t.nxt, a)
  BY <1>1, AfterAckIs
<1> HIDE DEF a
<1>3. Armed(a) /\ Phase(a) /\ WithinData(a)
  BY <1>2 DEF Frame, Phase, WithinData
<1>4. f = (a.state = "FIN_WAIT1")
  BY <1>2 DEF Frame
<1>5. Good(a, a.state = "FIN_WAIT1")
  BY <1>2, <1>4
<1>6. Moved(t.nxt, a, t.una, t.wseq)
  BY <1>2, <1>3, <1>5 DEF Moved, SenderInv, Frame
<1> QED BY <1>6 DEF a

\* The answer to a window probe.
LEMMA AckProbeIs ==
  ASSUME NEW s, NEW f, Good(s, f), s.rtx = <<>>, PreArmed(s)
  PROVE  LET t == AckProbe(s) IN Good(t, f) /\ Frame(s, t) /\ PreArmed(t) /\ t.nxt = s.nxt
<1> DEFINE p == IF Head(s.wq).end <= WndEnd(s) THEN "none" ELSE "probe0"
           t == [s EXCEPT !.pending = p]
<1>1. p \in Pendings /\ p \in {"none", "probe0"}
  BY DEF Pendings
<1>2. AckProbe(s) = IF s.wq = <<>> THEN s ELSE t
  BY DEF AckProbe
<1> HIDE DEF p
<1>3. TimerSet(s, t, p, f)
  BY <1>1, TimerSetIs
<1> HIDE DEF t
<1>4. Good(t, f) /\ Frame(s, t) /\ PreArmed(t) /\ t.nxt = s.nxt
  BY <1>1, <1>3 DEF TimerSet, PreArmed
<1> QED BY <1>2, <1>4, FrameSame

\* The timer after an ACK, whatever it acknowledged.
LEMMA TimedIs ==
  ASSUME NEW s, NEW f, Good(s, f), NEW z, Good(z, f), PreArmed(z), s.pending = z.pending,
         z.rtx = <<>> => s.rtx = <<>>
  PROVE  LET t == IF z.packets_out = 0 THEN AckProbe(s)
                  ELSE IF s.packets_out = z.packets_out THEN s
                  ELSE IF CanProbeLoss(s) THEN ScheduleLossProbe(s) ELSE RearmRto(s)
         IN Good(t, f) /\ Frame(s, t) /\ PreArmed(t) /\ t.nxt = s.nxt
<1> DEFINE x == [s EXCEPT !.pending = "loss_probe"]
<1>1. (z.packets_out = 0 <=> z.rtx = <<>>) /\ (s.packets_out = 0 <=> s.rtx = <<>>)
  BY GoodCounts
<1>2. CASE z.packets_out = 0
  <2>1. s.rtx = <<>> /\ PreArmed(s)
    BY <1>1, <1>2 DEF PreArmed
  <2> QED BY <1>2, <2>1, AckProbeIs
<1>3. CASE z.packets_out # 0 /\ s.packets_out = z.packets_out
  <2>1. PreArmed(s)
    BY <1>1, <1>3 DEF PreArmed
  <2> QED BY <1>3, <2>1, FrameSame
<1>4. CASE z.packets_out # 0 /\ s.packets_out # z.packets_out /\ CanProbeLoss(s)
  <2>1. ScheduleLossProbe(s) = x
    BY <1>4 DEF ScheduleLossProbe
  <2>2. TimerSet(s, x, "loss_probe", f)
    <3>1. "loss_probe" \in Pendings
      BY DEF Pendings
    <3> QED BY <3>1, TimerSetIs
  <2> HIDE DEF x
  <2>3. s.rtx # <<>>
    <3>1. s.packets_out > 0
      BY <1>4 DEF CanProbeLoss
    <3>2. s.packets_out # 0
      BY <3>1
    <3> QED BY <1>1, <3>2
  <2>4. Good(x, f) /\ Frame(s, x) /\ PreArmed(x) /\ x.nxt = s.nxt
    BY <2>2, <2>3 DEF TimerSet, PreArmed, Timers
  <2> QED BY <1>4, <2>1, <2>4
<1>5. CASE z.packets_out # 0 /\ s.packets_out # z.packets_out /\ ~CanProbeLoss(s)
  <2> DEFINE y == RearmRto(s)
  <2>1. TimerSet(s, y, IF s.rtx = <<>> THEN "none" ELSE "retrans", f) /\ PreArmed(y)
    BY RearmRtoIs
  <2> HIDE DEF y
  <2>2. Good(y, f) /\ Frame(s, y) /\ y.nxt = s.nxt
    BY <2>1 DEF TimerSet
  <2>3. Good(y, f) /\ Frame(s, y) /\ PreArmed(y) /\ y.nxt = s.nxt
    BY <2>1, <2>2
  <2> QED BY <1>5, <2>3 DEF y
<1> QED BY <1>2, <1>3, <1>4, <1>5

\* The fields that an ACK sets besides the queue.
AckSet(a, s, f) ==
    /\ Good(s, f) /\ s.state = a.state /\ s.una = a.una /\ s.wseq = a.wseq
    /\ s.rtx = a.rtx /\ s.pending = a.pending /\ s.nxt = a.nxt

\* An ACK sets the window, the congestion window and the marks of the probes.
LEMMA AckSetIs ==
  ASSUME NEW a, NEW f, Good(a, f), a.tx = {}, NEW w \in Nat, NEW c \in Nat \ {0}, NEW l \in Int,
         NEW m \in Int, NEW k \in CaStates
  PROVE  AckSet(a, [a EXCEPT !.wnd = w, !.cwnd = c, !.tlp = l, !.mtup = m, !.ca = k], f)
<1> DEFINE s == [a EXCEPT !.wnd = w, !.cwnd = c, !.tlp = l, !.mtup = m, !.ca = k]
<1>1. a \in Sockets
  BY GoodFacts
<1>2. /\ s \in Sockets /\ s.una = a.una /\ s.nxt = a.nxt /\ s.wseq = a.wseq
      /\ s.rtx = a.rtx /\ s.wq = a.wq /\ SameCounts(a, s) /\ s.hint = a.hint
      /\ s.tx = a.tx /\ s.bug = a.bug /\ s.state = a.state /\ s.pending = a.pending
  BY <1>1 DEF Sockets, SameCounts
<1> HIDE DEF s
<1>3. Good(s, f)
  BY <1>2, GoodAlike DEF Alike
<1>4. AckSet(a, s, f)
  BY <1>2, <1>3 DEF AckSet
<1> QED BY <1>4 DEF s

\* An ACK.
LEMMA AckStep ==
  ASSUME SenderInv(sk), NEW env \in Env, NEW ack \in sk.una..sk.nxt, NEW wnd \in Nat,
         NEW cwnd \in Cwnds, RecvAck(ack, wnd, cwnd, TRUE, env)
  PROVE  Moved(sk.nxt, sk', ack, sk.wseq)
<1> DEFINE f == sk.state = "FIN_WAIT1"
           u == Fresh(sk)
           a == CleanRtxQueue(u, ack, TRUE)
           w == IF ack > sk.una \/ wnd > sk.wnd THEN wnd ELSE a.wnd
           l == IF ack >= a.tlp THEN 0 ELSE a.tlp
           m == IF a.mtup > 0 /\ ack >= a.mtup THEN -1 ELSE a.mtup
           k == IF a.lost_out = 0 THEN "Open" ELSE a.ca
           s == [a EXCEPT !.wnd = w, !.cwnd = cwnd, !.tlp = l, !.mtup = m, !.ca = k]
           s0 == [a EXCEPT
                    !.wnd  = IF ack > sk.una \/ wnd > sk.wnd THEN wnd ELSE @,
                    !.cwnd = cwnd,
                    !.tlp  = IF ack >= @ THEN 0 ELSE @,
                    !.mtup = IF @ > 0 /\ ack >= @ THEN -1 ELSE @,
                    !.ca   = IF a.lost_out = 0 THEN "Open" ELSE @]
           Timed(o) == IF sk.packets_out = 0 THEN AckProbe(o)
                       ELSE IF o.packets_out = sk.packets_out THEN o
                       ELSE IF CanProbeLoss(o) THEN ScheduleLossProbe(o) ELSE RearmRto(o)
           t == Timed(s)
<1>1. Started(sk, u, f) /\ Good(sk, f) /\ f \in BOOLEAN /\ (f <=> sk.state = "FIN_WAIT1")
  <2>1. Started(sk, u, f)
    BY StartIs
  <2>2. Good(sk, f)
    BY DEF SenderInv
  <2> QED BY <2>1, <2>2
<1>2. sk' = AfterAck(Timed(s0), env) /\ sk.state \in {"ESTABLISHED", "FIN_WAIT1"}
  BY DEF RecvAck
<1>3. sk.una >= 1 /\ WithinData(sk) /\ PreArmed(sk)
  BY <1>2 DEF SenderInv, Phase, Armed
<1> HIDE DEF f, u
<1>4. Good(u, f) /\ u.state = sk.state /\ u.wseq = sk.wseq /\ u.una = sk.una /\ u.rtx = sk.rtx
      /\ u.nxt = sk.nxt /\ u.pending = sk.pending /\ u.tx = {}
  BY <1>1 DEF Started
<1>5. ack \in u.una..u.nxt
  BY <1>4
<1>6. Cleaned(u, a, ack, f)
  BY <1>4, <1>5, CleanIs
<1>7. u.rtx = <<>> => a.rtx = <<>>
  BY <1>4, <1>5, CleanEmpty
<1> HIDE DEF a
<1>8. Good(a, f) /\ a.una = ack /\ a.state = sk.state /\ a.wseq = sk.wseq
      /\ a.pending = sk.pending /\ a.tx = {} /\ a.nxt = sk.nxt
  BY <1>4, <1>6 DEF Cleaned, SameTimers
<1>9. a \in Sockets
  BY <1>8, GoodFacts
<1>10. s0 = s
  BY <1>9 DEF Sockets
<1>11. w \in Nat /\ cwnd \in Nat \ {0} /\ l \in Int /\ m \in Int /\ k \in CaStates
  <2>1. a.wnd \in Nat /\ a.tlp \in Int /\ a.mtup \in Int /\ a.ca \in CaStates
    BY <1>9, SocketFields
  <2>2. wnd \in Nat /\ cwnd \in Nat \ {0}
    BY SenderAssumption
  <2>3. l \in Int /\ m \in Int
    BY <2>1
  <2>4. k \in CaStates
    BY <2>1 DEF CaStates
  <2> QED BY <2>1, <2>2, <2>3, <2>4
<1> HIDE DEF w, l, m, k, s0
<1>12. AckSet(a, s, f)
  BY <1>8, <1>11, AckSetIs
<1> HIDE DEF s
<1>13. Good(s, f) /\ s.state = sk.state /\ s.una = ack /\ s.wseq = sk.wseq
       /\ s.pending = sk.pending /\ s.nxt = sk.nxt /\ (sk.rtx = <<>> => s.rtx = <<>>)
  BY <1>4, <1>7, <1>8, <1>12 DEF AckSet
<1>14. Good(t, f) /\ Frame(s, t) /\ PreArmed(t) /\ t.nxt = s.nxt
  BY <1>1, <1>3, <1>13, TimedIs
<1> HIDE DEF t
<1>15. t.state = sk.state /\ t.una = ack /\ t.wseq = sk.wseq /\ t.nxt = sk.nxt
  BY <1>13, <1>14 DEF Frame
<1>16. t.una >= 1
  <2>1. sk.una \in Nat /\ sk.nxt \in Nat
    BY <1>1, GoodFacts
  <2> QED BY <1>3, <1>15, <2>1
<1>17. WithinData(t)
  BY <1>3, <1>15 DEF WithinData
<1>18. f <=> t.state = "FIN_WAIT1"
  BY <1>1, <1>15
<1>19. Moved(t.nxt, AfterAck(t, env), t.una, t.wseq)
  BY <1>1, <1>2, <1>14, <1>15, <1>16, <1>17, <1>18, AfterAckInv
<1> QED BY <1>2, <1>10, <1>15, <1>19 DEF t

\* In the states without a FIN.
LEMMA NoFinYet ==
  ASSUME NEW s, SenderInv(s), s.state # "FIN_WAIT1"
  PROVE  Good(s, FALSE) /\ Started(s, Fresh(s), FALSE)
<1>1. (s.state = "FIN_WAIT1") = FALSE
  OBVIOUS
<1>2. Good(s, s.state = "FIN_WAIT1") /\ Started(s, Fresh(s), s.state = "FIN_WAIT1")
  BY StartIs DEF SenderInv
<1> QED BY <1>1, <1>2

\* The fields that the SYN-ACK sets.
SynAckSet(a, s, f) ==
    /\ Good(s, f) /\ s.una = a.una /\ s.wseq = a.wseq /\ s.state = "ESTABLISHED"
    /\ s.nxt = a.nxt

\* A SYN-ACK sets the window and the state.
LEMMA SynAckSetIs ==
  ASSUME NEW a, NEW f, Good(a, f), a.tx = {}, NEW w \in Nat, NEW c \in Nat \ {0}
  PROVE  SynAckSet(a, [a EXCEPT !.wnd = w, !.cwnd = c, !.state = "ESTABLISHED",
                                !.ca = "Open"], f)
<1> DEFINE e == "ESTABLISHED"
           k == "Open"
           s == [a EXCEPT !.wnd = w, !.cwnd = c, !.state = e, !.ca = k]
<1>1. a \in Sockets
  BY GoodFacts
<1>2. e \in States /\ k \in CaStates
  BY DEF States, CaStates
<1>3. s = [a EXCEPT !.wnd = w, !.cwnd = c, !.state = "ESTABLISHED", !.ca = "Open"]
      /\ e = "ESTABLISHED"
  OBVIOUS
<1> HIDE DEF e, k
<1>4. /\ s \in Sockets /\ s.una = a.una /\ s.nxt = a.nxt /\ s.wseq = a.wseq
      /\ s.rtx = a.rtx /\ s.wq = a.wq /\ SameCounts(a, s) /\ s.hint = a.hint
      /\ s.tx = a.tx /\ s.bug = a.bug /\ s.state = e
  BY <1>1, <1>2 DEF Sockets, SameCounts
<1> HIDE DEF s
<1>5. Good(s, f)
  BY <1>4, GoodAlike DEF Alike
<1>6. SynAckSet(a, s, f)
  BY <1>3, <1>4, <1>5 DEF SynAckSet
<1> QED BY <1>3, <1>6

\* The SYN-ACK.
LEMMA SynAckStep ==
  ASSUME SenderInv(sk), NEW env \in Env, NEW ack \in sk.una..sk.nxt, NEW wnd \in Nat,
         NEW cwnd \in Cwnds, RecvSynAck(ack, wnd, cwnd, env)
  PROVE  Moved(sk.nxt, sk', ack, sk.wseq)
<1> DEFINE u == Fresh(sk)
           a == CleanRtxQueue(u, ack, TRUE)
           s == [a EXCEPT !.wnd = wnd, !.cwnd = cwnd, !.state = "ESTABLISHED", !.ca = "Open"]
           r == RearmRto(s)
           m == MarkAll(r, DOMAIN r.rtx)
           l == [m EXCEPT !.ca = "Loss"]
           t == IF s.rtx # <<>> THEN l ELSE r
           f == FALSE
<1>1. sk' = AfterAck(t, env) /\ sk.state = "SYN_SENT" /\ ack \in 1..sk.nxt
  BY DEF RecvSynAck
<1>2. Good(sk, f) /\ Started(sk, u, f)
  BY <1>1, NoFinYet
<1>3. WithinData(sk)
  BY DEF SenderInv
<1>4. f \in BOOLEAN /\ f = FALSE
  OBVIOUS
<1> HIDE DEF f, u
<1>5. Good(u, f) /\ u.wseq = sk.wseq /\ u.una = sk.una /\ u.nxt = sk.nxt
      /\ u.tx = {}
  BY <1>2 DEF Started
<1>6. Cleaned(u, a, ack, f)
  BY <1>5, CleanIs
<1> HIDE DEF a
<1>7. Good(a, f) /\ a.una = ack /\ a.wseq = sk.wseq /\ a.tx = {} /\ a.nxt = sk.nxt
  BY <1>5, <1>6 DEF Cleaned
<1>8. wnd \in Nat /\ cwnd \in Nat \ {0}
  BY SenderAssumption
<1>9. Good(s, f) /\ s.una = ack /\ s.wseq = sk.wseq /\ s.state = "ESTABLISHED"
      /\ s.nxt = sk.nxt
  <2>1. SynAckSet(a, s, f)
    BY <1>7, <1>8, SynAckSetIs
  <2> HIDE DEF s
  <2> QED BY <1>7, <2>1 DEF SynAckSet
<1> HIDE DEF s
<1>10. Good(r, f) /\ Frame(s, r) /\ PreArmed(r) /\ r.nxt = s.nxt
  <2>1. TimerSet(s, r, IF s.rtx = <<>> THEN "none" ELSE "retrans", f) /\ PreArmed(r)
    BY <1>9, RearmRtoIs
  <2> HIDE DEF r
  <2> QED BY <2>1 DEF TimerSet
<1> HIDE DEF r
<1>11. Good(m, f) /\ Frame(s, m) /\ PreArmed(m) /\ m.nxt = s.nxt
  <2>1. Remarked(r, m, f)
    BY <1>10, MarkAllIs
  <2> HIDE DEF m
  <2>2. Good(m, f) /\ Frame(r, m) /\ m.nxt = r.nxt
    BY <2>1 DEF Remarked
  <2> QED BY <1>10, <2>1, <2>2, RemarkedArmed, FrameStep
<1> HIDE DEF m
<1>12. Good(l, f) /\ Frame(s, l) /\ PreArmed(l) /\ l.nxt = s.nxt
  <2>1. CaAs(m, l, f)
    <3>1. "Loss" \in CaStates
      BY DEF CaStates
    <3> QED BY <1>11, <3>1, CaSet
  <2> HIDE DEF l
  <2> QED BY <1>11, <2>1, CaArmed, FrameStep DEF CaAs
<1> HIDE DEF l
<1>13. Good(t, f) /\ Frame(s, t) /\ PreArmed(t) /\ t.nxt = s.nxt
  BY <1>10, <1>12
<1> HIDE DEF t
<1>14. t.state = "ESTABLISHED" /\ t.una = ack /\ t.wseq = sk.wseq /\ t.nxt = sk.nxt
  BY <1>9, <1>13 DEF Frame
<1>15. t.una >= 1 /\ WithinData(t) /\ (f <=> t.state = "FIN_WAIT1")
  <2>1. sk.nxt \in Nat
    BY <1>2, GoodFacts
  <2>2. t.una >= 1
    BY <1>1, <1>14, <2>1
  <2>3. WithinData(t)
    BY <1>1, <1>3, <1>14 DEF WithinData
  <2> QED BY <1>4, <1>14, <2>2, <2>3
<1>16. Moved(t.nxt, AfterAck(t, env), t.una, t.wseq)
  BY <1>4, <1>13, <1>14, <1>15, AfterAckInv
<1> QED BY <1>1, <1>14, <1>16

-----------------------------------------------------------------------------
(* Writing *)

\* t is s with n bytes more to send.
Written(s, t, f) ==
    /\ Good(t, f) /\ t.state = s.state /\ t.una = s.una /\ t.rtx = s.rtx
    /\ t.pending = s.pending /\ t.nxt = s.nxt

\* New bytes, or the FIN, join the write queue.
LEMMA WrittenIs ==
  ASSUME NEW s, Good(s, FALSE), NEW w, NEW e \in Nat, NEW f, s.wseq <= e, w # <<>>,
         UnsentPart(w, s.nxt, e, f)
  PROVE  Written(s, [s EXCEPT !.wq = w, !.wseq = e], f)
<1> DEFINE t == [s EXCEPT !.wq = w, !.wseq = e]
<1>1. s \in Sockets /\ Counted(s) /\ HintOK(s) /\ TxIn(s) /\ s.bug = FALSE /\ s.wseq \in Nat
      /\ SentPart(s.rtx, s.una, s.nxt, FALSE /\ s.wq = <<>>)
  BY GoodFacts
<1>2. w \in Seq(Skb)
  BY DEF UnsentPart
<1>3. /\ t \in Sockets /\ t.una = s.una /\ t.nxt = s.nxt /\ t.wseq = e
      /\ t.rtx = s.rtx /\ t.wq = w /\ SameCounts(s, t) /\ t.hint = s.hint
      /\ t.tx = s.tx /\ t.bug = s.bug /\ t.state = s.state /\ t.pending = s.pending
      /\ t.wnd = s.wnd
  BY <1>1, <1>2 DEF Sockets, SameCounts
<1> HIDE DEF t
<1>4. Counted(t) /\ HintOK(t)
  BY <1>1, <1>3 DEF Counted, Counter, SameCounts, HintOK
<1>5. TxIn(t)
  <2> SUFFICES ASSUME NEW g \in s.tx PROVE SegIn(g, e, s.una, s.una + s.wnd)
    BY <1>3 DEF TxIn
  <2>1. g.end \in Int
    BY <1>1 DEF Sockets, TxSets
  <2>2. SegIn(g, s.wseq, s.una, s.una + s.wnd)
    BY <1>1 DEF TxIn
  <2>3. g.end <= e
    BY <1>1, <2>1, <2>2 DEF SegIn
  <2> QED BY <2>2, <2>3 DEF SegIn
<1>6. SentPart(t.rtx, t.una, t.nxt, f /\ t.wq = <<>>)
  <2>1. (f /\ t.wq = <<>>) = FALSE
    BY <1>3
  <2>2. (FALSE /\ s.wq = <<>>) = FALSE
    OBVIOUS
  <2>3. SentPart(s.rtx, s.una, s.nxt, FALSE)
    BY <1>1, <2>2
  <2> QED BY <1>3, <2>1, <2>3
<1>7. UnsentPart(t.wq, t.nxt, t.wseq, f)
  BY <1>3
<1>8. Good(t, f)
  BY <1>1, <1>3, <1>4, <1>5, <1>6, <1>7 DEF Good, GoodAt
<1>9. Written(s, t, f)
  BY <1>3, <1>8 DEF Written
<1> QED BY <1>9 DEF t

\* The last buffer of the write queue.
LEMMA WqLast ==
  ASSUME NEW s, Good(s, FALSE), s.wq # <<>>, s.una >= 1
  PROVE  LET b == Last(s.wq)
         IN /\ b \in Skb /\ b = s.wq[Len(s.wq)] /\ ~b.syn /\ ~b.fin /\ Plain(b)
            /\ b.end = s.wseq
<1> DEFINE q == s.wq
           n == Len(q)
           b == q[n]
<1>1. UnsentPart(q, s.nxt, s.wseq, FALSE) /\ s.una \in Nat /\ s.nxt \in Nat /\ s.una <= s.nxt
  BY GoodFacts
<1>2. q \in Seq(Skb) /\ Linked(q) /\ AllPlain(q) /\ FinLast(q, FALSE)
      /\ (n > 0 => q[1].seq = s.nxt /\ q[n].end = s.wseq)
  BY <1>1 DEF UnsentPart
<1>3. n \in Nat \ {0} /\ Last(q) = b /\ b \in Skb /\ q[1] \in Skb
  BY <1>2, SeqEnds
<1>4. 1 \in 1..n /\ n \in 1..n /\ n > 0
  BY <1>3
<1>5. q[1].seq \in Nat /\ q[1].end \in Nat /\ q[1].seq <= q[1].end /\ b.seq \in Nat
  BY <1>3, SkbRange
<1>6. b.seq >= s.nxt
  <2>1. CASE n = 1
    BY <1>1, <1>2, <1>4, <2>1
  <2>2. CASE n # 1
    <3>1. 1 < n
      <4> HIDE DEF n
      <4>1. n \in Nat \ {0}
        BY <1>3
      <4> QED BY <2>2, <4>1
    <3>2. q[1].end <= b.seq
      BY <1>2, <1>4, <3>1, LinkedOrder
    <3> HIDE DEF b
    <3> QED BY <1>1, <1>2, <1>4, <1>5, <3>2
  <2> QED BY <2>1, <2>2
<1>7. ~b.syn
  <2>1. b.syn => b.seq = 0
    BY <1>3 DEF Skb
  <2> HIDE DEF b
  <2> QED BY <1>1, <1>5, <1>6, <2>1
<1>8. ~b.fin /\ Plain(b)
  BY <1>2, <1>4 DEF FinLast, AllPlain
<1> QED BY <1>2, <1>3, <1>4, <1>7, <1>8

\* A buffer with n bytes more, not counted yet.
LEMMA LongerSkb ==
  ASSUME NEW b \in Skb, ~b.syn, ~b.fin, Plain(b), NEW n \in Nat
  PROVE  LET x == [b EXCEPT !.end = @ + n, !.pc = 0]
         IN x \in Skb /\ x.seq = b.seq /\ x.end = b.end + n /\ ~x.fin /\ Plain(x)
<1> DEFINE e == b.end + n
           z == 0
           x == [b EXCEPT !.end = e, !.pc = z]
<1>1. b \in SkbRec /\ b.seq <= b.end
  BY DEF Skb
<1>2. b.seq \in Nat /\ b.end \in Nat /\ b.syn = FALSE /\ b.fin = FALSE /\ b.acked = FALSE
      /\ b.retrans = FALSE /\ b.lost = FALSE /\ b.gso \in Nat
  BY <1>1 DEF Plain, SkbRec
<1>3. e \in Nat /\ e = b.end + n /\ z \in Nat /\ z = 0
  BY <1>2
<1>4. x = [b EXCEPT !.end = @ + n, !.pc = 0]
  BY <1>1 DEF SkbRec
<1> HIDE DEF e, z
<1>5. /\ x \in SkbRec /\ x.seq = b.seq /\ x.end = e /\ x.pc = z
      /\ x.syn = b.syn /\ x.fin = b.fin /\ x.acked = b.acked /\ x.retrans = b.retrans
      /\ x.lost = b.lost
  BY <1>1, <1>3 DEF SkbRec
<1> HIDE DEF x
<1>6. Size(x) = e - b.seq
  <2>1. Bit(x.fin) = 0 /\ Bit(x.syn) = 0
    BY <1>2, <1>5 DEF Bit
  <2> QED BY <1>2, <1>3, <1>5, <2>1 DEF Size
<1>7. x \in Skb
  <2>1. x.seq <= x.end /\ Size(x) >= 0
    BY <1>1, <1>2, <1>3, <1>5, <1>6
  <2>2. (x.syn => x.seq = 0 /\ x.end = 1 /\ ~x.fin) /\ (x.retrans => x.lost)
        /\ (x.acked => ~x.lost)
    BY <1>2, <1>5
  <2>3. ~(x.pc > 1)
    BY <1>3, <1>5
  <2> QED BY <1>5, <2>1, <2>2, <2>3, SkbIs
<1>8. ~x.fin /\ Plain(x) /\ x.end = b.end + n
  BY <1>2, <1>3, <1>5 DEF Plain
<1> QED BY <1>4, <1>5, <1>7, <1>8

\* A buffer of its own for the bytes.
LEMMA NewSkbIs ==
  ASSUME NEW a \in Nat, NEW e \in Nat, a <= e
  PROVE  LET x == NewSkb(a, e)
         IN x \in Skb /\ x.seq = a /\ x.end = e /\ ~x.fin /\ Plain(x)
<1> DEFINE x == NewSkb(a, e)
<1>1. /\ x \in SkbRec /\ x.seq = a /\ x.end = e /\ x.pc = 0
      /\ x.syn = FALSE /\ x.fin = FALSE /\ x.acked = FALSE /\ x.retrans = FALSE
      /\ x.lost = FALSE
  BY DEF NewSkb, SkbRec
<1> HIDE DEF x
<1>2. Size(x) = e - a
  <2>1. Bit(x.fin) = 0 /\ Bit(x.syn) = 0
    BY <1>1 DEF Bit
  <2> QED BY <1>1, <2>1 DEF Size
<1>3. x \in Skb
  <2>1. x.seq <= x.end /\ Size(x) >= 0 /\ ~(x.pc > 1)
    BY <1>1, <1>2
  <2> QED BY <1>1, <2>1, SkbIs
<1>4. x \in Skb /\ x.seq = a /\ x.end = e /\ ~x.fin /\ Plain(x)
  BY <1>1, <1>3 DEF Plain
<1> QED BY <1>4 DEF x

\* tcp_sendmsg.
LEMMA SendmsgStep ==
  ASSUME SenderInv(sk), NEW env \in Env, NEW n \in WriteSizes, Sendmsg(n, env)
  PROVE  Moved(sk.nxt, sk', sk.una, sk.wseq + n)
<1> DEFINE u == Fresh(sk)
           tail == Last(sk.wq)
           fits == sk.wq # <<>> /\ Size(tail) + n <= MaxSegs * sk.mss
           more == [tail EXCEPT !.end = @ + n, !.pc = 0]
           new == NewSkb(sk.wseq, sk.wseq + n)
           w == IF fits THEN Append(Front(sk.wq), more) ELSE Append(sk.wq, new)
           e == sk.wseq + n
           s == [u EXCEPT !.wq = w, !.wseq = e]
           s0 == [u EXCEPT !.wq = w, !.wseq = @ + n]
           t == PushPendingFrames(s, sk.nonagle, env)
<1>1. sk.state = "ESTABLISHED" /\ e <= MaxData + 1 /\ sk' = PushPendingFrames(s0, sk.nonagle, env)
  BY DEF Sendmsg
<1>2. Good(sk, FALSE) /\ Started(sk, u, FALSE)
  BY <1>1, NoFinYet
<1>3. sk.una >= 1 /\ sk.una \in Nat /\ sk.wseq \in Nat /\ sk.wq \in Seq(Skb)
      /\ UnsentPart(sk.wq, sk.nxt, sk.wseq, FALSE)
  <2>1. sk.una >= 1
    BY <1>1 DEF SenderInv, Phase
  <2> QED BY <1>2, <2>1, GoodFacts
<1>4. n \in Nat
  BY SenderAssumption
<1>5. e \in Nat /\ sk.wseq <= e
  BY <1>3, <1>4
<1> HIDE DEF u
<1>6. Good(u, FALSE) /\ u \in Sockets /\ Armed(u) /\ u.state = sk.state /\ u.una = sk.una
      /\ u.wseq = sk.wseq /\ u.nxt = sk.nxt
  BY <1>2 DEF Started
<1>7. s0 = s
  BY <1>6 DEF Sockets
<1>8. w # <<>> /\ UnsentPart(w, sk.nxt, e, FALSE)
  <2>1. CASE fits
    <3>1. tail \in Skb /\ tail = sk.wq[Len(sk.wq)] /\ ~tail.syn /\ ~tail.fin /\ Plain(tail)
          /\ tail.end = sk.wseq
      BY <1>2, <1>3, <2>1, WqLast
    <3> HIDE DEF tail
    <3>2. more \in Skb /\ more.seq = tail.seq /\ more.end = tail.end + n /\ ~more.fin
          /\ Plain(more)
      BY <1>4, <3>1, LongerSkb
    <3>3. w = Append(Front(sk.wq), more) /\ sk.wq # <<>>
      BY <2>1
    <3> HIDE DEF more, w
    <3>4. more.end = e /\ more.end >= sk.wseq /\ more.seq = sk.wq[Len(sk.wq)].seq
      BY <1>5, <3>1, <3>2
    <3> HIDE DEF e
    <3> DEFINE q == sk.wq
               f == FALSE
    <3>5. /\ UnsentPart(q, sk.nxt, sk.wseq, FALSE) /\ q # <<>> /\ more.seq = q[Len(q)].seq
          /\ more.fin => f
      BY <1>3, <3>2, <3>3, <3>4
    <3> HIDE DEF q, f
    <3>6. UnsentPart(Append(Front(q), more), sk.nxt, more.end, f)
      BY <3>2, <3>4, <3>5, UnsentExtended
    <3>7. UnsentPart(w, sk.nxt, e, FALSE)
      BY <3>3, <3>4, <3>6 DEF q, f
    <3>8. Append(Front(sk.wq), more) \in Seq(Skb) /\ Len(Append(Front(sk.wq), more)) = Len(sk.wq)
      BY <1>3, <3>2, <3>3, LastReplaced
    <3>9. Len(sk.wq) # 0
      BY <1>3, <3>3, SeqFacts
    <3>10. w # <<>>
      BY <3>3, <3>8, <3>9, SeqFacts
    <3> QED BY <3>7, <3>10
  <2>2. CASE ~fits
    <3>1. new \in Skb /\ new.seq = sk.wseq /\ new.end = e /\ ~new.fin /\ Plain(new)
      BY <1>3, <1>5, NewSkbIs
    <3>2. w = Append(sk.wq, new)
      BY <2>2
    <3> HIDE DEF new, w, e
    <3> DEFINE q == sk.wq
               f == FALSE
    <3>3. UnsentPart(q, sk.nxt, sk.wseq, FALSE) /\ (new.fin => f)
      BY <1>3, <3>1
    <3> HIDE DEF q, f
    <3>4. UnsentPart(Append(q, new), sk.nxt, new.end, f)
      BY <3>1, <3>3, UnsentAdded
    <3>5. UnsentPart(w, sk.nxt, e, FALSE)
      BY <3>1, <3>2, <3>4 DEF q, f
    <3>6. Append(sk.wq, new) \in Seq(Skb) /\ Len(Append(sk.wq, new)) = Len(sk.wq) + 1
      BY <1>3, <3>1, Appended
    <3>7. w # <<>>
      <4>1. Len(sk.wq) \in Nat
        BY <1>3
      <4>2. Len(w) # 0
        BY <3>2, <3>6, <4>1
      <4> QED BY <3>2, <3>6, <4>2, SeqFacts
    <3> QED BY <3>5, <3>7
  <2> QED BY <2>1, <2>2
<1> HIDE DEF w
<1>9. Written(u, s, FALSE)
  BY <1>5, <1>6, <1>8, WrittenIs
<1>10. s.wseq = e
  BY <1>6 DEF Sockets
<1> HIDE DEF s, s0
<1>11. Good(s, FALSE) /\ PreArmed(s) /\ s.state = "ESTABLISHED" /\ s.una = sk.una
       /\ s.nxt = sk.nxt
  BY <1>1, <1>6, <1>9 DEF Written, Armed, PreArmed
<1>12. Pushed(s, t, FALSE)
  BY <1>11, EnvIs, PushIs
<1> HIDE DEF t
<1>13. Good(t, FALSE) /\ Frame(s, t) /\ Armed(t) /\ NewIn(sk.nxt, t)
  BY <1>11, <1>12 DEF Pushed
<1>14. t.state = "ESTABLISHED" /\ t.una = sk.una /\ t.wseq = e
  BY <1>10, <1>11, <1>13 DEF Frame
<1>15. (t.state = "FIN_WAIT1") = FALSE
  BY <1>14
<1>16. Good(t, t.state = "FIN_WAIT1")
  BY <1>13, <1>15
<1>17. Phase(t)
  BY <1>3, <1>14 DEF Phase
<1>18. WithinData(t)
  <2>1. MaxData \in Nat
    BY SenderAssumption
  <2> HIDE DEF e
  <2> QED BY <1>1, <1>5, <1>14, <2>1 DEF WithinData
<1>19. Moved(sk.nxt, t, sk.una, e)
  BY <1>13, <1>14, <1>16, <1>17, <1>18 DEF Moved, SenderInv
<1> QED BY <1>1, <1>7, <1>19 DEF t

\* A buffer that carries the FIN.
LEMMA FinSkb ==
  ASSUME NEW b \in Skb, ~b.syn, ~b.fin
  PROVE  LET x == [b EXCEPT !.fin = TRUE, !.end = @ + 1]
         IN x \in Skb /\ x.seq = b.seq /\ x.end = b.end + 1 /\ x.fin /\ x.pc = b.pc
            /\ SameMarks(x, b)
<1> DEFINE e == b.end + 1
           y == TRUE
           x == [b EXCEPT !.fin = y, !.end = e]
<1>1. b \in SkbRec /\ b.seq <= b.end /\ Size(b) >= 0 /\ (b.pc > 1 => b.gso > 0 /\ Size(b) > b.gso)
  BY DEF Skb
<1>2. b.seq \in Nat /\ b.end \in Nat /\ b.gso \in Nat /\ b.pc \in Nat
  BY <1>1 DEF SkbRec
<1>3. b.syn = FALSE /\ b.fin = FALSE
  BY <1>1 DEF SkbRec
<1>4. (b.retrans => b.lost) /\ (b.acked => ~b.lost)
  BY DEF Skb
<1>5. e \in Nat /\ e = b.end + 1
  BY <1>2
<1>6. y \in BOOLEAN /\ y = TRUE
  OBVIOUS
<1>7. x = [b EXCEPT !.fin = TRUE, !.end = @ + 1]
  BY <1>1 DEF SkbRec
<1> HIDE DEF e, y
<1>8. /\ x \in SkbRec /\ x.seq = b.seq /\ x.end = e /\ x.pc = b.pc /\ x.gso = b.gso
      /\ x.syn = b.syn /\ x.fin = y /\ x.acked = b.acked /\ x.retrans = b.retrans
      /\ x.lost = b.lost
  BY <1>1, <1>5, <1>6 DEF SkbRec
<1> HIDE DEF x
<1>9. Size(x) = Size(b)
  <2>1. Bit(x.fin) = 1 /\ Bit(x.syn) = 0
    BY <1>3, <1>6, <1>8 DEF Bit
  <2>2. Bit(b.fin) = 0 /\ Bit(b.syn) = 0
    BY <1>3 DEF Bit
  <2> QED BY <1>2, <1>5, <1>8, <2>1, <2>2 DEF Size
<1>10. x \in Skb
  <2>1. x.seq <= x.end
    BY <1>1, <1>2, <1>5, <1>8
  <2>2. Size(x) >= 0 /\ (x.pc > 1 => x.gso > 0 /\ Size(x) > x.gso)
    BY <1>1, <1>8, <1>9
  <2>3. (x.syn => x.seq = 0 /\ x.end = 1 /\ ~x.fin) /\ (x.retrans => x.lost)
        /\ (x.acked => ~x.lost)
    BY <1>3, <1>4, <1>8
  <2> QED BY <1>8, <2>1, <2>2, <2>3, SkbIs
<1>11. x \in Skb /\ x.seq = b.seq /\ x.end = b.end + 1 /\ x.fin /\ x.pc = b.pc /\ SameMarks(x, b)
  BY <1>5, <1>6, <1>8, <1>10 DEF SameMarks
<1> QED BY <1>7, <1>11

\* A FIN may come later.
LEMMA GoodMore ==
  ASSUME NEW s, Good(s, FALSE)
  PROVE  Good(s, TRUE)
<1>1. SentPart(s.rtx, s.una, s.nxt, FALSE /\ s.wq = <<>>) => SentPart(s.rtx, s.una, s.nxt, TRUE /\ s.wq = <<>>)
  BY DEF SentPart, FinLast
<1>2. UnsentPart(s.wq, s.nxt, s.wseq, FALSE) => UnsentPart(s.wq, s.nxt, s.wseq, TRUE)
  BY DEF UnsentPart, FinLast
<1> QED BY <1>1, <1>2 DEF Good, GoodAt

\* The state after the FIN.
LEMMA ShutIs ==
  ASSUME NEW t, Good(t, TRUE), Armed(t), t.una >= 1, t.wseq <= MaxData + 2, NEW n, NewIn(n, t)
  PROVE  Moved(n, [t EXCEPT !.state = "FIN_WAIT1"], t.una, t.wseq)
<1> DEFINE e == "FIN_WAIT1"
           s == [t EXCEPT !.state = e]
<1>1. t \in Sockets /\ e \in States /\ e = "FIN_WAIT1"
  BY GoodFacts DEF States
<1> HIDE DEF e
<1>2. /\ s \in Sockets /\ s.una = t.una /\ s.nxt = t.nxt /\ s.wseq = t.wseq
      /\ s.rtx = t.rtx /\ s.wq = t.wq /\ SameCounts(t, s) /\ s.hint = t.hint
      /\ s.tx = t.tx /\ s.bug = t.bug /\ s.state = e /\ s.pending = t.pending
      /\ s.wnd = t.wnd
  BY <1>1 DEF Sockets, SameCounts
<1> HIDE DEF s
<1>3. Good(s, TRUE)
  BY <1>2, GoodSame
<1>4. (s.state = "FIN_WAIT1") = TRUE
  BY <1>1, <1>2
<1>5. Good(s, s.state = "FIN_WAIT1")
  BY <1>3, <1>4
<1>6. Armed(s) /\ Phase(s) /\ WithinData(s)
  BY <1>1, <1>2 DEF Armed, PreArmed, Phase, WithinData
<1>7. NewIn(n, s)
  BY <1>2, NewInSame
<1>8. Moved(n, s, t.una, t.wseq)
  BY <1>2, <1>5, <1>6, <1>7 DEF Moved, SenderInv
<1> QED BY <1>8 DEF s, e

\* The buffer of a SYN at the start, and that of a FIN.
LEMMA ControlSkbIs ==
  ASSUME NEW a \in Nat, NEW flag, flag = "SYN" \/ flag = "FIN", flag = "SYN" => a = 0
  PROVE  LET x == ControlSkb(a, flag)
         IN /\ x \in Skb /\ x.seq = a /\ x.end = a + 1 /\ x.pc = 1 /\ Plain(x)
            /\ x.fin <=> flag = "FIN"
<1> DEFINE e == a + 1
           y == flag = "SYN"
           z == flag = "FIN"
           o == 1
           b == NewSkb(a, e)
           x == [b EXCEPT !.syn = y, !.fin = z, !.pc = o]
<1>1. x = ControlSkb(a, flag)
  BY DEF ControlSkb
<1>2. e \in Nat /\ e = a + 1 /\ o \in Nat /\ o = 1
  OBVIOUS
<1>3. y \in BOOLEAN /\ z \in BOOLEAN
  OBVIOUS
<1>4. (y <=> ~z) /\ (y => a = 0) /\ (z <=> flag = "FIN")
  OBVIOUS
<1> HIDE DEF e, y, z, o
<1>5. /\ b \in SkbRec /\ b.seq = a /\ b.end = e
      /\ b.acked = FALSE /\ b.retrans = FALSE /\ b.lost = FALSE
  BY <1>2 DEF NewSkb, SkbRec
<1> HIDE DEF b
<1>6. /\ x \in SkbRec /\ x.seq = a /\ x.end = e /\ x.pc = o /\ x.syn = y /\ x.fin = z
      /\ x.acked = FALSE /\ x.retrans = FALSE /\ x.lost = FALSE
  BY <1>2, <1>3, <1>5 DEF SkbRec
<1> HIDE DEF x
<1>7. Bit(x.fin) + Bit(x.syn) = 1 /\ Bit(x.fin) \in Int /\ Bit(x.syn) \in Int
  <2>1. CASE y
    <3>1. Bit(x.fin) = 0 /\ Bit(x.syn) = 1
      BY <1>4, <1>6, <2>1 DEF Bit
    <3> QED BY <3>1
  <2>2. CASE ~y
    <3>1. Bit(x.fin) = 1 /\ Bit(x.syn) = 0
      BY <1>4, <1>6, <2>2 DEF Bit
    <3> QED BY <3>1
  <2> QED BY <2>1, <2>2
<1>8. Size(x) = 0 /\ x.seq <= x.end /\ ~(x.pc > 1)
  <2> DEFINE c == Bit(x.fin)
             d == Bit(x.syn)
  <2>1. c + d = 1 /\ c \in Int /\ d \in Int
    BY <1>7
  <2>2. Size(x) = e - a - c - d
    BY <1>6 DEF Size
  <2> HIDE DEF c, d
  <2> QED BY <1>2, <1>6, <2>1, <2>2
<1>9. x.syn => x.seq = 0 /\ x.end = 1 /\ ~x.fin
  <2>1. y => a = 0 /\ e = 1 /\ ~z
    BY <1>2, <1>4
  <2> QED BY <1>6, <2>1
<1>10. x \in Skb
  BY <1>6, <1>8, <1>9, SkbIs
<1>11. /\ x \in Skb /\ x.seq = a /\ x.end = a + 1 /\ x.pc = 1 /\ Plain(x)
       /\ x.fin <=> flag = "FIN"
  BY <1>2, <1>4, <1>6, <1>10 DEF Plain
<1> QED BY <1>1, <1>11

\* What is known when the FIN is sent.
LEMMA FinStart ==
  ASSUME SenderInv(sk), sk.state = "ESTABLISHED"
  PROVE  LET u == Fresh(sk)
         IN /\ Good(u, FALSE) /\ u \in Sockets /\ Armed(u) /\ u.state = sk.state
            /\ u.una = sk.una /\ u.wseq = sk.wseq /\ u.nxt = sk.nxt /\ u.wq = sk.wq
            /\ u.rtx = sk.rtx
            /\ u.una >= 1 /\ u.una \in Nat /\ u.wseq \in Nat /\ u.wseq + 1 <= MaxData + 2
            /\ UnsentPart(u.wq, u.nxt, u.wseq, FALSE)
<1> DEFINE u == Fresh(sk)
<1>1. Good(sk, FALSE) /\ Started(sk, u, FALSE)
  BY NoFinYet
<1>2. sk.una >= 1 /\ sk.wseq <= MaxData + 1
  BY DEF SenderInv, Phase, WithinData
<1> HIDE DEF u
<1>3. Good(u, FALSE) /\ u \in Sockets /\ Armed(u) /\ u.state = sk.state /\ u.una = sk.una
      /\ u.wseq = sk.wseq /\ u.nxt = sk.nxt /\ u.wq = sk.wq /\ u.rtx = sk.rtx
  BY <1>1 DEF Started
<1>4. u.una \in Nat /\ u.wseq \in Nat /\ UnsentPart(u.wq, u.nxt, u.wseq, FALSE)
  BY <1>3, GoodFacts
<1>5. u.una >= 1 /\ u.wseq + 1 <= MaxData + 2
  <2>1. MaxData \in Nat
    BY SenderAssumption
  <2> QED BY <1>2, <1>3, <1>4, <2>1
<1> QED BY <1>3, <1>4, <1>5 DEF u

\* The FIN at the end of the write queue is pushed.
LEMMA FinPushed ==
  ASSUME SenderInv(sk), sk.state = "ESTABLISHED", NEW env \in Env, NEW w, w # <<>>,
         NEW e \in Nat, e = sk.wseq + 1,
         UnsentPart(w, sk.nxt, e, TRUE)
  PROVE  Moved(sk.nxt, [PushPendingFrames([Fresh(sk) EXCEPT !.wq = w, !.wseq = e], {"off"}, env)
                  EXCEPT !.state = "FIN_WAIT1"], sk.una, sk.wseq + 1)
<1> DEFINE u == Fresh(sk)
           s == [u EXCEPT !.wq = w, !.wseq = e]
           t == PushPendingFrames(s, {"off"}, env)
<1>1. /\ Good(u, FALSE) /\ u \in Sockets /\ Armed(u) /\ u.state = sk.state
      /\ u.una = sk.una /\ u.wseq = sk.wseq /\ u.nxt = sk.nxt
      /\ u.una >= 1 /\ u.wseq \in Nat /\ u.wseq + 1 <= MaxData + 2
  BY FinStart
<1> HIDE DEF u
<1>2. u.wseq <= e /\ UnsentPart(w, u.nxt, e, TRUE)
  <2>1. u.wseq \in Nat /\ e = u.wseq + 1
    BY <1>1
  <2>2. u.wseq <= e
    BY ONLY <2>1
  <2> QED BY <1>1, <2>2
<1>3. Written(u, s, TRUE)
  BY <1>1, <1>2, WrittenIs
<1>4. s.wseq = e
  BY <1>1 DEF Sockets
<1> HIDE DEF s
<1>5. Good(s, TRUE) /\ PreArmed(s) /\ s.state = "ESTABLISHED" /\ s.una = u.una
      /\ s.nxt = sk.nxt
  BY <1>1, <1>3 DEF Written, Armed, PreArmed
<1>6. Pushed(s, t, TRUE)
  BY <1>5, EnvIs, PushIs
<1> HIDE DEF t
<1>7. Good(t, TRUE) /\ Frame(s, t) /\ Armed(t) /\ NewIn(sk.nxt, t)
  BY <1>5, <1>6 DEF Pushed
<1>8. t.una >= 1 /\ t.wseq <= MaxData + 2 /\ t.una = sk.una /\ t.wseq = sk.wseq + 1
  BY <1>1, <1>4, <1>5, <1>7 DEF Frame
<1>9. Moved(sk.nxt, [t EXCEPT !.state = "FIN_WAIT1"], t.una, t.wseq)
  BY <1>7, <1>8, ShutIs
<1>10. Moved(sk.nxt, [t EXCEPT !.state = "FIN_WAIT1"], sk.una, sk.wseq + 1)
  BY ONLY <1>8, <1>9
<1> QED BY <1>10 DEF t, s, u

\* The FIN on the last buffer of the write queue.
LEMMA FinOnWq ==
  ASSUME SenderInv(sk), sk.state = "ESTABLISHED", sk.wq # <<>>, NEW env \in Env
  PROVE  Moved(sk.nxt, [PushPendingFrames(FinOnTail(Fresh(sk), "wq"), {"off"}, env)
                  EXCEPT !.state = "FIN_WAIT1"], sk.una, sk.wseq + 1)
<1> DEFINE u == Fresh(sk)
           b == Last(u.wq)
           x == [b EXCEPT !.fin = TRUE, !.end = @ + 1]
           w == Append(Front(u.wq), x)
           e == u.wseq + 1
           P(s) == Moved(sk.nxt, [PushPendingFrames(s, {"off"}, env) EXCEPT !.state = "FIN_WAIT1"],
                         sk.una, sk.wseq + 1)
<1>1. /\ Good(u, FALSE) /\ u \in Sockets /\ u.wseq = sk.wseq /\ u.nxt = sk.nxt /\ u.wq = sk.wq
      /\ u.una >= 1 /\ u.wseq \in Nat /\ UnsentPart(u.wq, u.nxt, u.wseq, FALSE)
  BY FinStart
<1>2. [u EXCEPT !.wq = w, !.wseq = e] = [Fresh(sk) EXCEPT !.wq = w, !.wseq = e]
  OBVIOUS
<1> HIDE DEF u
<1>3. FinOnTail(u, "wq") = [u EXCEPT !.wq = w, !.wseq = e]
  BY <1>1 DEF FinOnTail, Sockets
<1>4. b \in Skb /\ b = u.wq[Len(u.wq)] /\ ~b.syn /\ ~b.fin /\ Plain(b) /\ b.end = u.wseq
  BY <1>1, WqLast
<1> HIDE DEF b
<1>5. x \in Skb /\ x.seq = b.seq /\ x.end = b.end + 1 /\ SameMarks(x, b)
  BY <1>4, FinSkb
<1> HIDE DEF x
<1>6. x.end = e /\ x.end >= u.wseq /\ Plain(x) /\ e \in Nat /\ e = sk.wseq + 1
  BY <1>1, <1>4, <1>5 DEF Plain, SameMarks
<1> HIDE DEF e
<1>7. UnsentPart(w, u.nxt, e, TRUE)
  <2> DEFINE q == u.wq
             f == TRUE
  <2>1. /\ UnsentPart(q, u.nxt, u.wseq, FALSE) /\ q # <<>> /\ x.seq = q[Len(q)].seq
        /\ x.fin => f
    BY <1>1, <1>4, <1>5
  <2> HIDE DEF q, f
  <2>2. UnsentPart(Append(Front(q), x), u.nxt, x.end, f)
    BY <1>5, <1>6, <2>1, UnsentExtended
  <2> QED BY <1>6, <2>2 DEF q, f
<1>8. w # <<>>
  <2>1. u.wq \in Seq(Skb) /\ u.wq # <<>>
    BY <1>1, GoodFacts
  <2>2. w \in Seq(Skb) /\ Len(w) = Len(u.wq)
    BY <1>5, <2>1, LastReplaced
  <2>3. Len(u.wq) # 0
    BY <2>1, SeqFacts
  <2> HIDE DEF w
  <2> QED BY <2>2, <2>3, SeqFacts
<1> HIDE DEF w
<1>9. P([u EXCEPT !.wq = w, !.wseq = e])
  BY <1>1, <1>6, <1>7, <1>8, FinPushed DEF u
<1>10. P(FinOnTail(u, "wq"))
  BY <1>3, <1>9
<1> QED BY <1>10 DEF u

\* The FIN in a buffer of its own.
LEMMA FinAlone ==
  ASSUME SenderInv(sk), sk.state = "ESTABLISHED", sk.wq = <<>>, NEW env \in Env
  PROVE  Moved(sk.nxt, [PushPendingFrames([Fresh(sk) EXCEPT !.wseq = @ + 1,
                                     !.wq = <<ControlSkb(sk.wseq, "FIN")>>], {"off"}, env)
                  EXCEPT !.state = "FIN_WAIT1"], sk.una, sk.wseq + 1)
<1> DEFINE u == Fresh(sk)
           x == ControlSkb(sk.wseq, "FIN")
           w == <<x>>
           e == u.wseq + 1
           P(s) == Moved(sk.nxt, [PushPendingFrames(s, {"off"}, env) EXCEPT !.state = "FIN_WAIT1"],
                         sk.una, sk.wseq + 1)
<1>1. /\ Good(u, FALSE) /\ u \in Sockets /\ u.wseq = sk.wseq /\ u.nxt = sk.nxt /\ u.wq = sk.wq
      /\ u.una >= 1 /\ u.wseq \in Nat /\ UnsentPart(u.wq, u.nxt, u.wseq, FALSE)
  BY FinStart
<1>2. [u EXCEPT !.wq = w, !.wseq = e] = [Fresh(sk) EXCEPT !.wq = w, !.wseq = e]
  OBVIOUS
<1> HIDE DEF u
<1>3. [u EXCEPT !.wseq = @ + 1, !.wq = w] = [u EXCEPT !.wq = w, !.wseq = e]
  BY <1>1 DEF Sockets
<1>4. x \in Skb /\ x.seq = u.wseq /\ x.end = e /\ Plain(x)
  <2> DEFINE a == sk.wseq
  <2>1. a \in Nat /\ a = u.wseq
    BY <1>1
  <2> HIDE DEF a
  <2>2. LET y == ControlSkb(a, "FIN") IN y \in Skb /\ y.seq = a /\ y.end = a + 1 /\ Plain(y)
    BY <2>1, ControlSkbIs
  <2> QED BY <2>1, <2>2 DEF a
<1>5. e \in Nat /\ e = sk.wseq + 1
  BY <1>1
<1> HIDE DEF x, e
<1>6. UnsentPart(w, u.nxt, e, TRUE)
  <2> DEFINE q == u.wq
             f == TRUE
  <2>1. UnsentPart(q, u.nxt, u.wseq, FALSE) /\ (x.fin => f)
    BY <1>1
  <2>2. Append(q, x) = w
    BY <1>1, <1>4
  <2> HIDE DEF q, f, w
  <2>3. UnsentPart(Append(q, x), u.nxt, x.end, f)
    BY <1>4, <2>1, UnsentAdded
  <2> QED BY <1>4, <2>2, <2>3 DEF f
<1>7. w # <<>>
  OBVIOUS
<1> HIDE DEF w
<1>8. P([u EXCEPT !.wq = w, !.wseq = e])
  BY <1>1, <1>5, <1>6, <1>7, FinPushed DEF u
<1>9. P([u EXCEPT !.wseq = @ + 1, !.wq = w])
  BY <1>3, <1>8
<1> QED BY <1>9 DEF u, w, x

\* The FIN on the last buffer that was sent, as if it had been sent with it.
LEMMA FinOnRtx ==
  ASSUME SenderInv(sk), sk.state = "ESTABLISHED", sk.wq = <<>>, sk.rtx # <<>>
  PROVE  Moved(sk.nxt, [[FinOnTail(Fresh(sk), "rtx") EXCEPT !.nxt = @ + 1]
                  EXCEPT !.state = "FIN_WAIT1"], sk.una, sk.wseq + 1)
<1> DEFINE u == Fresh(sk)
           q == u.rtx
           n == Len(q)
           b == q[n]
           x == [b EXCEPT !.fin = TRUE, !.end = @ + 1]
           r == Append(Front(q), x)
           e == u.wseq + 1
           m == u.nxt + 1
           t == [u EXCEPT !.wseq = e, !.rtx = r, !.nxt = m]
<1>1. /\ Good(u, FALSE) /\ u \in Sockets /\ Armed(u) /\ u.wq = <<>> /\ u.rtx # <<>>
      /\ u.una >= 1 /\ u.una \in Nat /\ u.wseq \in Nat /\ u.wseq + 1 <= MaxData + 2
      /\ u.una = sk.una /\ u.wseq = sk.wseq /\ u.nxt = sk.nxt
  BY FinStart
<1> HIDE DEF u
<1>2. /\ q \in Seq(Skb) /\ u.nxt \in Nat /\ SentPart(q, u.una, u.nxt, FALSE /\ u.wq = <<>>)
      /\ UnsentPart(u.wq, u.nxt, u.wseq, FALSE) /\ Counted(u) /\ HintOK(u) /\ TxIn(u)
      /\ u.bug = FALSE /\ u.hint \in Nat
  BY <1>1, GoodFacts
<1>3. n \in Nat \ {0} /\ Last(q) = b /\ n \in 1..n
  BY <1>1, <1>2, SeqEnds
<1>4. b \in Skb /\ RtxOK(b, u.una) /\ b.pc \in Nat /\ b.seq \in Nat /\ b.end \in Nat
  BY <1>1, <1>3, GoodBuf
<1>5. ~b.fin /\ b.end = u.nxt
  BY <1>2, <1>3 DEF SentPart, FinLast
<1>6. ~b.syn
  <2>1. b.syn => b.seq = 0 /\ b.end = 1
    BY <1>4 DEF Skb
  <2> HIDE DEF b
  <2> QED BY <1>1, <1>4, <2>1 DEF RtxOK
<1>7. FinOnTail(u, "rtx") = [u EXCEPT !.wseq = e, !.rtx = r]
  BY <1>1, <1>3 DEF FinOnTail, Sockets
<1>8. [FinOnTail(u, "rtx") EXCEPT !.nxt = @ + 1] = t
  BY <1>1, <1>7 DEF Sockets
<1> HIDE DEF b
<1>9. x \in Skb /\ x.seq = b.seq /\ x.end = b.end + 1 /\ x.pc = b.pc /\ SameMarks(x, b)
      /\ x.fin
  BY <1>4, <1>5, <1>6, FinSkb
<1> HIDE DEF x
<1>10. RtxOK(x, u.una) /\ x.end = m /\ x.end >= u.nxt
  BY <1>1, <1>2, <1>4, <1>5, <1>9 DEF RtxOK
<1>11. u.nxt = u.wseq
  <2>1. Len(u.wq) = 0
    BY <1>1
  <2> QED BY <1>2, <2>1 DEF UnsentPart
<1>12. e \in Nat /\ m \in Nat /\ m = e /\ m - 1 = sk.nxt
  BY <1>1, <1>2, <1>11
<1>13. u.wseq <= e /\ e <= MaxData + 2 /\ e = sk.wseq + 1
  BY <1>1
<1> HIDE DEF m, e
<1>14. SentPart(r, u.una, m, TRUE)
  <2> DEFINE p == q
             f == TRUE
  <2>1. (FALSE /\ u.wq = <<>>) = FALSE
    OBVIOUS
  <2>2. SentPart(p, u.una, u.nxt, FALSE)
    BY <1>2, <2>1
  <2>3. p # <<>> /\ x.seq = p[Len(p)].seq /\ (x.fin => f)
    BY <1>1, <1>9 DEF b
  <2>4. r = Append(Front(p), x)
    OBVIOUS
  <2> HIDE DEF p, f, r
  <2>5. SentPart(Append(Front(p), x), u.una, x.end, f)
    BY ONLY <1>9, <1>10, <2>2, <2>3, SentExtended
  <2> QED BY <1>10, <2>4, <2>5 DEF f
<1>15. r \in Seq(Skb) /\ Len(r) = n /\ \A k \in 1..n : r[k] = IF k = n THEN x ELSE q[k]
  BY <1>1, <1>2, <1>9, LastReplaced
<1> HIDE DEF r
<1>16. /\ t \in Sockets /\ t.una = u.una /\ t.nxt = m /\ t.wseq = e
       /\ t.rtx = r /\ t.wq = u.wq /\ SameCounts(u, t) /\ t.hint = u.hint
       /\ t.tx = u.tx /\ t.bug = u.bug /\ t.pending = u.pending
       /\ t.wnd = u.wnd
  BY <1>1, <1>12, <1>15 DEF Sockets, SameCounts
<1> HIDE DEF t
<1>17. Counted(t)
  <2> SUFFICES ASSUME NEW c \in Marks PROVE Sums(t.rtx, c, Counter(t, c))
    BY DEF Counted
  <2> DEFINE v == Counter(u, c)
  <2>1. Counter(t, c) = v
    BY <1>16 DEF Counter, SameCounts
  <2>2. Sums(q, c, v)
    BY <1>2 DEF Counted
  <2>3. \A k \in 1..n : Weight(r[k], c) = Weight(q[k], c)
    <3>1. Weight(x, c) = Weight(b, c)
      BY <1>9 DEF Weight, Has, SameMarks
    <3> QED BY <1>15, <3>1 DEF b
  <2> HIDE DEF v
  <2>4. Sums(r, c, v)
    <3>1. Len(r) = Len(q) /\ \A k \in 1..Len(q) : Weight(r[k], c) = Weight(q[k], c)
      BY <1>15, <2>3
    <3> HIDE DEF q
    <3> QED BY <2>2, <3>1, SumsSame
  <2> QED BY <1>16, <2>1, <2>4
<1>18. HintOK(t)
  <2>1. u.hint <= n /\ \A i \in 1..u.hint - 1 : ~Waits(q[i])
    BY <1>2 DEF HintOK, Settled
  <2>2. \A i \in 1..u.hint - 1 : ~Waits(r[i])
    <3> SUFFICES ASSUME NEW i \in 1..u.hint - 1 PROVE ~Waits(r[i])
      OBVIOUS
    <3>1. i \in 1..n /\ i # n
      BY <1>2, <1>3, <2>1
    <3> QED BY <1>15, <2>1, <3>1
  <2> QED BY <1>15, <1>16, <2>1, <2>2 DEF HintOK, Settled
<1>19. TxIn(t)
  <2> SUFFICES ASSUME NEW g \in u.tx PROVE SegIn(g, e, u.una, u.una + u.wnd)
    BY <1>16 DEF TxIn
  <2>1. g.end \in Int
    BY <1>1 DEF Sockets, TxSets
  <2>2. SegIn(g, u.wseq, u.una, u.una + u.wnd)
    BY <1>2 DEF TxIn
  <2>3. g.end <= e
    BY <1>1, <1>12, <1>13, <2>1, <2>2 DEF SegIn
  <2> QED BY <2>2, <2>3 DEF SegIn
<1>20. SentPart(t.rtx, t.una, t.nxt, TRUE /\ t.wq = <<>>)
  <2>1. (TRUE /\ t.wq = <<>>) = TRUE
    BY <1>1, <1>16
  <2> QED BY <1>14, <1>16, <2>1
<1>21. UnsentPart(t.wq, t.nxt, t.wseq, TRUE)
  <2>1. t.wq = <<>> /\ t.nxt = t.wseq /\ t.nxt \in Nat
    BY <1>1, <1>12, <1>16
  <2> QED BY <2>1 DEF UnsentPart, Linked, FinLast, AllPlain
<1>22. Good(t, TRUE)
  BY <1>2, <1>16, <1>17, <1>18, <1>19, <1>20, <1>21 DEF Good, GoodAt
<1>23. Armed(t)
  <2>1. r # <<>>
    BY <1>3, <1>15, SeqFacts
  <2> QED BY <1>1, <1>16, <2>1 DEF Armed, PreArmed
<1>24. NewIn(sk.nxt, t)
  <2>1. t.rtx[Len(t.rtx)] = x
    BY <1>3, <1>15, <1>16
  <2>2. Bit(x.fin) = 1
    BY <1>9 DEF Bit
  <2> QED BY <1>12, <1>16, <2>1, <2>2 DEF NewIn
<1>25. Moved(sk.nxt, [t EXCEPT !.state = "FIN_WAIT1"], t.una, t.wseq)
  BY <1>1, <1>13, <1>16, <1>22, <1>23, <1>24, ShutIs
<1>26. t.una = sk.una /\ t.wseq = sk.wseq + 1
  BY <1>1, <1>13, <1>16
<1>27. Moved(sk.nxt, [t EXCEPT !.state = "FIN_WAIT1"], sk.una, sk.wseq + 1)
  BY ONLY <1>25, <1>26
<1> QED BY <1>8, <1>27 DEF u

\* tcp_send_fin.
LEMMA SendFinStep ==
  ASSUME SenderInv(sk), NEW env \in Env, NEW pressure \in BOOLEAN, NEW alloc \in BOOLEAN,
         SendFin(pressure, alloc, env)
  PROVE  Moved(sk.nxt, sk', sk.una, sk.wseq) \/ Moved(sk.nxt, sk', sk.una, sk.wseq + 1)
<1> DEFINE Shut(s) == [s EXCEPT !.state = "FIN_WAIT1"]
           t1 == Shut(PushPendingFrames(FinOnTail(Fresh(sk), "wq"), {"off"}, env))
           t2 == Shut([FinOnTail(Fresh(sk), "rtx") EXCEPT !.nxt = @ + 1])
           t3 == Shut(Fresh(sk))
           t4 == Shut(PushPendingFrames([Fresh(sk) EXCEPT !.wseq = @ + 1,
                                           !.wq = <<ControlSkb(sk.wseq, "FIN")>>], {"off"}, env))
<1>1. /\ sk.state = "ESTABLISHED"
      /\ sk' = IF sk.wq # <<>> THEN t1 ELSE IF pressure /\ sk.rtx # <<>> THEN t2
               ELSE IF ~alloc THEN t3 ELSE t4
  BY DEF SendFin
<1>2. sk.wq # <<>> => Moved(sk.nxt, t1, sk.una, sk.wseq + 1)
  BY <1>1, FinOnWq
<1>3. sk.wq = <<>> /\ sk.rtx # <<>> => Moved(sk.nxt, t2, sk.una, sk.wseq + 1)
  BY <1>1, FinOnRtx
<1>4. Moved(sk.nxt, t3, sk.una, sk.wseq)
  <2> DEFINE u == Fresh(sk)
  <2>1. Good(u, FALSE) /\ Armed(u) /\ u.una >= 1 /\ u.wseq \in Nat /\ u.wseq + 1 <= MaxData + 2
        /\ u.una = sk.una /\ u.wseq = sk.wseq /\ u.nxt = sk.nxt
    BY <1>1, FinStart
  <2> HIDE DEF u
  <2>2. u.wseq <= MaxData + 2 /\ Good(u, TRUE)
    <3>1. MaxData \in Nat
      BY SenderAssumption
    <3>2. u.wseq <= MaxData + 2
      BY <2>1, <3>1
    <3>3. Good(u, TRUE)
      BY <2>1, GoodMore
    <3> QED BY <3>2, <3>3
  <2>3. Moved(sk.nxt, [u EXCEPT !.state = "FIN_WAIT1"], u.una, u.wseq)
    <3>1. NewIn(sk.nxt, u)
      BY <2>1 DEF NewIn
    <3> QED BY <2>1, <2>2, <3>1, ShutIs
  <2>4. Moved(sk.nxt, [u EXCEPT !.state = "FIN_WAIT1"], sk.una, sk.wseq)
    BY ONLY <2>1, <2>3
  <2> QED BY <2>4 DEF u
<1>5. sk.wq = <<>> => Moved(sk.nxt, t4, sk.una, sk.wseq + 1)
  BY <1>1, FinAlone
<1> HIDE DEF t1, t2, t3, t4
<1> QED BY <1>1, <1>2, <1>3, <1>4, <1>5

-----------------------------------------------------------------------------
(* Connecting *)

\* u is a socket with nothing in its queues.
Blank(u) ==
    /\ u \in Sockets /\ u.bug = FALSE /\ u.una = 0 /\ u.nxt = 0 /\ u.wseq = 0 /\ u.hint = 0
    /\ u.packets_out = 0 /\ u.lost_out = 0 /\ u.retrans_out = 0 /\ u.sacked_out = 0
    /\ u.tx = {} /\ u.rtx = <<>> /\ u.wq = <<>>

\* Before the connection.
LEMMA BlankIs ==
  ASSUME SenderInv(sk), sk.state = "CLOSE", sk.wseq = 0
  PROVE  Blank(Fresh(sk))
<1> DEFINE u == Fresh(sk)
<1>1. Good(sk, FALSE)
  BY NoFinYet
<1>2. Good(u, FALSE) /\ FreshAs(sk, u)
  BY <1>1, FreshIs
<1> HIDE DEF u
<1>3. sk.rtx = <<>> /\ sk.wq = <<>>
  BY DEF SenderInv, Phase
<1>4. u.rtx = <<>> /\ u.wq = <<>> /\ u.tx = {} /\ u \in Sockets /\ u.wseq = 0
  BY <1>2, <1>3 DEF FreshAs, Alike
<1>5. /\ SentPart(u.rtx, u.una, u.nxt, FALSE /\ u.wq = <<>>) /\ Counted(u) /\ HintOK(u)
      /\ UnsentPart(u.wq, u.nxt, u.wseq, FALSE) /\ u.bug = FALSE /\ u.hint \in Nat
  BY <1>2, GoodFacts
<1>6. Len(u.rtx) = 0 /\ Len(u.wq) = 0
  BY <1>4
<1>7. u.nxt = 0 /\ u.una = 0
  BY <1>4, <1>5, <1>6 DEF SentPart, UnsentPart
<1>8. u.hint = 0
  BY <1>5, <1>6 DEF HintOK
<1>9. \A c \in Marks : Counter(u, c) = 0
  <2> SUFFICES ASSUME NEW c \in Marks PROVE Counter(u, c) = 0
    OBVIOUS
  <2> DEFINE v == Counter(u, c)
  <2>1. Sums(<<>>, c, v)
    BY <1>4, <1>5 DEF Counted
  <2> HIDE DEF v
  <2>2. v = 0
    BY <2>1, SumsEmpty
  <2> QED BY <2>2 DEF v
<1>10. u.packets_out = 0 /\ u.lost_out = 0 /\ u.retrans_out = 0 /\ u.sacked_out = 0
  <2>1. Counter(u, "out") = 0 /\ Counter(u, "lost") = 0 /\ Counter(u, "retrans") = 0
        /\ Counter(u, "sacked") = 0
    BY <1>9 DEF Marks
  <2> QED BY <2>1 DEF Counter
<1>11. Blank(u)
  BY <1>4, <1>5, <1>7, <1>8, <1>10 DEF Blank
<1> QED BY <1>11 DEF u

\* A connection that has sent its SYN: q is in flight, w waits.
Opening(u, q, w, n, e, p, x) ==
    [u EXCEPT !.state = "SYN_SENT", !.rtx = q, !.wq = w, !.nxt = n, !.wseq = e,
              !.packets_out = p, !.tx = x, !.sml = 0, !.pending = "retrans"]

OpeningOK(q, w, n, e, p, x) ==
    /\ q # <<>> /\ SentPart(q, 0, n, FALSE) /\ UnsentPart(w, n, e, FALSE)
    /\ Sums(q, "out", p) /\ AllPlain(q)
    /\ x \in TxSets /\ \A g \in x : g.seq <= 0 /\ g.end <= e
    /\ e <= MaxData + 1

\* Such a connection satisfies the invariant.
LEMMA OpeningIs ==
  ASSUME NEW u, Blank(u), NEW q, NEW w, NEW n, NEW e, NEW p, NEW x,
         OpeningOK(q, w, n, e, p, x)
  PROVE  Moved(n, Opening(u, q, w, n, e, p, x), 0, e)
<1> DEFINE st == "SYN_SENT"
           z == 0
           pe == "retrans"
           t == [u EXCEPT !.state = st, !.rtx = q, !.wq = w, !.nxt = n, !.wseq = e,
                          !.packets_out = p, !.tx = x, !.sml = z, !.pending = pe]
<1>1. /\ q # <<>> /\ SentPart(q, 0, n, FALSE) /\ UnsentPart(w, n, e, FALSE)
      /\ Sums(q, "out", p) /\ AllPlain(q)
      /\ x \in TxSets /\ \A g \in x : g.seq <= 0 /\ g.end <= e
      /\ e <= MaxData + 1
  BY DEF OpeningOK
<1>2. q \in Seq(Skb) /\ n \in Nat /\ w \in Seq(Skb) /\ e \in Nat
  BY <1>1 DEF SentPart, UnsentPart
<1>3. p \in Int
  <2>1. p \in Nat
    BY <1>1, <1>2, SumsNat
  <2> QED BY <2>1
<1>4. st \in States /\ z \in Int /\ pe \in Pendings /\ st = "SYN_SENT" /\ pe = "retrans"
  BY DEF States, Pendings
<1>5. t = Opening(u, q, w, n, e, p, x)
  BY DEF Opening
<1> HIDE DEF st, z, pe
<1>6. /\ u \in Sockets /\ u.bug = FALSE /\ u.una = 0 /\ u.hint = 0
      /\ u.lost_out = 0 /\ u.retrans_out = 0 /\ u.sacked_out = 0
  BY DEF Blank
<1>7. /\ t \in Sockets /\ t.state = st /\ t.rtx = q /\ t.wq = w /\ t.nxt = n /\ t.wseq = e
      /\ t.packets_out = p /\ t.tx = x /\ t.pending = pe
      /\ t.una = u.una /\ t.hint = u.hint /\ t.bug = u.bug /\ t.lost_out = u.lost_out
      /\ t.retrans_out = u.retrans_out /\ t.sacked_out = u.sacked_out
  BY <1>1, <1>2, <1>3, <1>4, <1>6 DEF Sockets
<1> HIDE DEF t
<1>8. Counted(t)
  <2>1. \A c \in {"lost", "retrans", "sacked"} : Sums(q, c, 0)
    <3> SUFFICES ASSUME NEW c \in {"lost", "retrans", "sacked"} PROVE Sums(q, c, 0)
      OBVIOUS
    <3>1. \A k \in 1..Len(q) : Weight(q[k], c) = 0
      BY <1>1 DEF AllPlain, Plain, Weight, Has
    <3> QED BY <1>2, <3>1, SumsNone
  <2> SUFFICES ASSUME NEW c \in Marks PROVE Sums(t.rtx, c, Counter(t, c))
    BY DEF Counted
  <2>2. CASE c = "out"
    <3>1. Counter(t, c) = p
      BY <1>7, <2>2 DEF Counter
    <3> QED BY <1>1, <1>7, <2>2, <3>1
  <2>3. CASE c # "out"
    <3>1. c \in {"lost", "retrans", "sacked"}
      BY <2>3 DEF Marks
    <3>2. Counter(t, c) = 0
      BY <1>6, <1>7, <3>1 DEF Counter
    <3> QED BY <1>7, <2>1, <3>1, <3>2
  <2> QED BY <2>2, <2>3
<1>9. HintOK(t)
  <2>1. Len(q) \in Nat
    BY <1>2
  <2> QED BY <1>6, <1>7, <2>1 DEF HintOK, Settled
<1>10. SentPart(t.rtx, t.una, t.nxt, FALSE /\ t.wq = <<>>)
  <2>1. (FALSE /\ t.wq = <<>>) = FALSE
    OBVIOUS
  <2> QED BY <1>1, <1>6, <1>7, <2>1
<1>11. TxIn(t)
  <2> SUFFICES ASSUME NEW g \in x PROVE SegIn(g, e, 0, 0 + t.wnd)
    BY <1>6, <1>7 DEF TxIn
  <2>1. g.seq \in Int
    BY <1>1 DEF TxSets
  <2>2. g.end <= e /\ ~(g.seq > 0)
    BY <1>1, <2>1
  <2> QED BY <2>2 DEF SegIn
<1>12. Good(t, FALSE)
  BY <1>1, <1>6, <1>7, <1>8, <1>9, <1>10, <1>11 DEF Good, GoodAt
<1>13. (t.state = "FIN_WAIT1") = FALSE
  BY <1>4, <1>7
<1>14. Good(t, t.state = "FIN_WAIT1")
  BY <1>12, <1>13
<1>15. Armed(t) /\ Phase(t)
  BY <1>1, <1>4, <1>6, <1>7 DEF Armed, PreArmed, Timers, Phase
<1>16. WithinData(t)
  <2>1. MaxData \in Nat
    BY SenderAssumption
  <2> QED BY <1>1, <1>2, <1>7, <2>1 DEF WithinData
<1>17. Moved(n, t, 0, e)
  BY <1>6, <1>7, <1>14, <1>15, <1>16 DEF Moved, SenderInv, NewIn
<1> QED BY <1>5, <1>17

\* Empty queues.
LEMMA EmptyParts ==
  ASSUME NEW n \in Nat, NEW f
  PROVE  SentPart(<<>>, n, n, f) /\ UnsentPart(<<>>, n, n, f)
BY DEF SentPart, UnsentPart, Linked, FinLast, AllPlain

\* The data of a SYN.
LEMMA DataSkbIs ==
  ASSUME NEW a \in Nat, NEW e \in Nat, a <= e
  PROVE  LET x == [NewSkb(a, e) EXCEPT !.pc = 1]
         IN x \in Skb /\ x.seq = a /\ x.end = e /\ ~x.fin /\ Plain(x) /\ x.pc = 1
<1> DEFINE b == NewSkb(a, e)
           o == 1
           x == [b EXCEPT !.pc = o]
<1>1. /\ b \in SkbRec /\ b.seq = a /\ b.end = e
      /\ b.syn = FALSE /\ b.fin = FALSE /\ b.acked = FALSE /\ b.retrans = FALSE
      /\ b.lost = FALSE
  BY DEF NewSkb, SkbRec
<1>2. o \in Nat /\ o = 1 /\ x = [NewSkb(a, e) EXCEPT !.pc = 1]
  OBVIOUS
<1> HIDE DEF b, o
<1>3. /\ x \in SkbRec /\ x.seq = a /\ x.end = e /\ x.pc = o
      /\ x.syn = FALSE /\ x.fin = FALSE /\ x.acked = FALSE /\ x.retrans = FALSE
      /\ x.lost = FALSE
  BY <1>1, <1>2 DEF SkbRec
<1> HIDE DEF x
<1>4. Size(x) = e - a
  <2>1. Bit(x.fin) = 0 /\ Bit(x.syn) = 0
    BY <1>3 DEF Bit
  <2> QED BY <1>3, <2>1 DEF Size
<1>5. x \in Skb
  <2>1. x.seq <= x.end /\ Size(x) >= 0 /\ ~(x.pc > 1)
    BY <1>2, <1>3, <1>4
  <2> QED BY <1>3, <2>1, SkbIs
<1>6. x \in Skb /\ x.seq = a /\ x.end = e /\ ~x.fin /\ Plain(x) /\ x.pc = 1
  BY <1>2, <1>3, <1>5 DEF Plain
<1> QED BY <1>2, <1>6

\* A plain buffer joins a queue in flight.
Flight(q, n, p) ==
    SentPart(q, 0, n, FALSE) /\ Sums(q, "out", p) /\ AllPlain(q) /\ q \in Seq(Skb)

\* It stays a queue in flight.
LEMMA FlightGrown ==
  ASSUME NEW q, NEW n, NEW p, Flight(q, n, p), NEW b \in Skb, b.seq = n, ~b.fin, Plain(b),
         b.pc = 1, n \in Nat
  PROVE  Flight(Append(q, b), b.end, p + 1) /\ Append(q, b) # <<>>
<1> DEFINE r == Append(q, b)
           f == FALSE
           z == 0
<1>1. SentPart(q, 0, n, FALSE) /\ Sums(q, "out", p) /\ AllPlain(q) /\ q \in Seq(Skb)
  BY DEF Flight
<1>2. RtxOK(b, 0)
  BY DEF RtxOK
<1>3. b.fin => f
  OBVIOUS
<1>4. SentPart(q, z, n, FALSE) /\ RtxOK(b, z)
  BY <1>1, <1>2
<1> HIDE DEF f, z, r
<1>5. SentPart(Append(q, b), z, b.end, f)
  BY ONLY <1>3, <1>4, b \in Skb, b.seq = n, SentGrown
<1>6. r \in Seq(Skb) /\ Len(r) = Len(q) + 1
      /\ \A k \in 1..Len(q) + 1 : r[k] = IF k = Len(q) + 1 THEN b ELSE q[k]
  BY <1>1, Appended DEF r
<1>7. Sums(r, "out", p + 1)
  <2>1. Weight(b, "out") = 1
    BY DEF Weight, Has
  <2>2. Sums(r, "out", p + Weight(b, "out"))
    BY <1>1, <1>6, SumsAppend
  <2> QED BY <2>1, <2>2
<1>8. Len(q) \in Nat
  BY <1>1
<1>9. AllPlain(r)
  <2> SUFFICES ASSUME NEW k \in 1..Len(q) + 1 PROVE Plain(r[k])
    BY <1>6 DEF AllPlain
  <2>1. CASE k = Len(q) + 1
    BY <1>6, <2>1
  <2>2. CASE k # Len(q) + 1
    <3>1. k \in 1..Len(q)
      BY <1>8, <2>2
    <3> QED BY <1>1, <1>6, <2>2, <3>1 DEF AllPlain
  <2> QED BY <2>1, <2>2
<1>10. r # <<>>
  <2>1. Len(r) # 0
    BY <1>6, <1>8
  <2> QED BY <1>6, <2>1, SeqFacts
<1>11. Flight(r, b.end, p + 1)
  BY <1>5, <1>6, <1>7, <1>9 DEF Flight, r, f, z
<1> QED BY <1>10, <1>11 DEF r

\* The segment that is on the wire.
LEMMA OneSent ==
  ASSUME NEW a \in Int, NEW e \in Int, NEW f \in BOOLEAN, NEW m \in Int, e <= m, a <= 0
  PROVE  LET x == {[seq |-> a, end |-> e, fin |-> f]}
         IN x \in TxSets /\ \A g \in x : g.seq <= 0 /\ g.end <= m
<1> DEFINE g == [seq |-> a, end |-> e, fin |-> f]
<1>1. g \in [seq : Int, end : Int, fin : BOOLEAN] /\ g.end = e /\ g.seq = a
  OBVIOUS
<1> HIDE DEF g
<1>2. IsFiniteSet({g})
  BY FS_Singleton
<1>3. {g} \in TxSets
  BY <1>1, <1>2 DEF TxSets
<1>4. {g} \in TxSets /\ \A h \in {g} : h.seq <= 0 /\ h.end <= m
  BY <1>1, <1>3
<1> QED BY <1>4 DEF g

\* The SYN.
LEMMA SynIs ==
  LET syn == ControlSkb(0, "SYN")
  IN /\ syn \in Skb /\ syn.seq = 0 /\ syn.end = 1 /\ syn.pc = 1 /\ Plain(syn) /\ syn.fin = FALSE
     /\ Flight(<<syn>>, 1, 1)
<1> DEFINE syn == ControlSkb(0, "SYN")
           a == 0
           fl == "SYN"
<1>1. a \in Nat /\ (fl = "SYN" \/ fl = "FIN") /\ (fl = "SYN" => a = 0) /\ fl # "FIN"
      /\ a = 0 /\ a + 1 = 1 /\ syn = ControlSkb(a, fl)
  OBVIOUS
<1> HIDE DEF a, fl, syn
<1>2. /\ syn \in Skb /\ syn.seq = a /\ syn.end = a + 1 /\ syn.pc = 1 /\ Plain(syn)
      /\ syn.fin <=> fl = "FIN"
  BY <1>1, ControlSkbIs
<1>3. syn \in Skb /\ syn.seq = 0 /\ syn.end = 1 /\ syn.pc = 1 /\ Plain(syn) /\ ~syn.fin
  BY <1>1, <1>2
<1>4. syn.fin = FALSE
  BY <1>3, SkbRange
<1>5. Flight(<<>>, 0, 0)
  <2>1. SentPart(<<>>, 0, 0, FALSE)
    BY EmptyParts
  <2>2. Sums(<<>>, "out", 0)
    BY SumsEmpty
  <2>3. AllPlain(<<>>) /\ <<>> \in Seq(Skb)
    BY DEF AllPlain
  <2> QED BY <2>1, <2>2, <2>3 DEF Flight
<1>6. Flight(Append(<<>>, syn), syn.end, 0 + 1)
  <2> DEFINE q == <<>>
             z == 0
  <2>1. Flight(q, z, z) /\ syn.seq = z /\ z \in Nat
    BY <1>3, <1>5
  <2> HIDE DEF q, z
  <2>2. Flight(Append(q, syn), syn.end, z + 1)
    BY <1>3, <2>1, FlightGrown
  <2> QED BY <2>2 DEF q, z
<1>7. Append(<<>>, syn) = <<syn>>
  BY <1>3
<1>8. Flight(<<syn>>, 1, 1)
  BY <1>3, <1>6, <1>7
<1>9. /\ syn \in Skb /\ syn.seq = 0 /\ syn.end = 1 /\ syn.pc = 1 /\ Plain(syn) /\ syn.fin = FALSE
      /\ Flight(<<syn>>, 1, 1)
  BY <1>3, <1>4, <1>8
<1> QED BY <1>9 DEF syn

\* The first segment of a call.
LEMMA TransmitFirst ==
  ASSUME NEW s \in Sockets, s.bug = FALSE, s.tx = {}, NEW b, b.pc = 1
  PROVE  Transmit(s, b) = [s EXCEPT !.tx = {[seq |-> b.seq, end |-> b.end, fin |-> b.fin]}]
<1> DEFINE g == [seq |-> b.seq, end |-> b.end, fin |-> b.fin]
           ok == b.pc > 0
<1>1. ok = TRUE
  OBVIOUS
<1> HIDE DEF ok
<1>2. Assert_(s, ok) = s
  BY <1>1, AssertHolds
<1>3. Transmit(s, b) = [Assert_(s, ok) EXCEPT !.tx = @ \cup {g}]
  BY DEF Transmit, ok
<1> HIDE DEF g
<1>4. {} \cup {g} = {g}
  OBVIOUS
<1>5. [s EXCEPT !.tx = @ \cup {g}] = [s EXCEPT !.tx = {g}]
  BY <1>4 DEF Sockets
<1> QED BY <1>2, <1>3, <1>5 DEF g

\* The socket with its SYN, before it is sent.
SynQueued(u, syn) ==
    [u EXCEPT !.state = "SYN_SENT", !.rtx = <<syn>>, !.sml = 0, !.wseq = 1,
              !.packets_out = 1]

\* tcp_connect_queue_skb.
LEMMA SynQueuedIs ==
  ASSUME NEW u, Blank(u), NEW syn \in Skb, syn.end = 1, syn.pc = 1
  PROVE  LET s == SynQueued(u, syn)
         IN /\ ConnectQueueSkb([u EXCEPT !.state = "SYN_SENT", !.rtx = <<syn>>, !.sml = 0], syn) = s
            /\ s \in Sockets /\ s.bug = FALSE /\ s.tx = {} /\ s.rtx = <<syn>> /\ s.wq = <<>>
            /\ s.wseq = 1 /\ s.packets_out = 1
<1> DEFINE st == "SYN_SENT"
           z == 0
           o == 1
           q == <<syn>>
           s == [u EXCEPT !.state = st, !.rtx = q, !.sml = z, !.wseq = o, !.packets_out = o]
           r == [u EXCEPT !.state = st, !.rtx = q, !.sml = z]
           d == [r EXCEPT !.wseq = syn.end, !.packets_out = @ + syn.pc]
<1>1. /\ u \in Sockets /\ u.bug = FALSE /\ u.packets_out = z /\ u.tx = {} /\ u.wq = <<>>
  BY DEF Blank
<1>2. st \in States /\ z \in Int /\ o \in Nat /\ o \in Int /\ z + o = o /\ o = 1
  BY DEF States
<1>3. q \in Seq(Skb)
  OBVIOUS
<1>4. SynQueued(u, syn) = s
  BY DEF SynQueued
<1>5. ConnectQueueSkb([u EXCEPT !.state = "SYN_SENT", !.rtx = <<syn>>, !.sml = 0], syn) = d
  BY DEF ConnectQueueSkb
<1>6. syn.end = o /\ syn.pc = o
  OBVIOUS
<1> HIDE DEF st, z, o, q
<1>7. /\ s \in Sockets /\ s.bug = u.bug /\ s.tx = u.tx /\ s.rtx = q /\ s.wq = u.wq
      /\ s.wseq = o /\ s.packets_out = o
  BY <1>1, <1>2, <1>3 DEF Sockets
<1>8. r \in Sockets /\ r.packets_out = z
  BY <1>1, <1>2, <1>3 DEF Sockets
<1>9. d = [r EXCEPT !.wseq = o, !.packets_out = o]
  <2> HIDE DEF r
  <2> QED BY <1>2, <1>6, <1>8 DEF Sockets
<1>10. [r EXCEPT !.wseq = o, !.packets_out = o] = s
  BY <1>1 DEF Sockets
<1> HIDE DEF s, r, d
<1>11. /\ d = s /\ s \in Sockets /\ s.bug = FALSE /\ s.tx = {} /\ s.rtx = q /\ s.wq = <<>>
       /\ s.wseq = 1 /\ s.packets_out = 1
  BY <1>1, <1>2, <1>7, <1>9, <1>10
<1> QED BY <1>4, <1>5, <1>11 DEF q

\* A SYN alone.
LEMMA OpenPlain ==
  ASSUME NEW u, Blank(u), NEW syn, syn = ControlSkb(0, "SYN")
  PROVE  LET s == Transmit(SynQueued(u, syn), syn)
         IN Moved(1, [s EXCEPT !.nxt = IF s.wq = <<>> THEN s.wseq ELSE Head(s.wq).seq,
                               !.pending = "retrans"], 0, 1)
<1> DEFINE a == SynQueued(u, syn)
           x == {[seq |-> syn.seq, end |-> syn.end, fin |-> syn.fin]}
           s == Transmit(a, syn)
           t == [s EXCEPT !.nxt = IF s.wq = <<>> THEN s.wseq ELSE Head(s.wq).seq,
                          !.pending = "retrans"]
<1>1. /\ syn \in Skb /\ syn.seq = 0 /\ syn.end = 1 /\ syn.pc = 1 /\ syn.fin = FALSE
      /\ Flight(<<syn>>, 1, 1)
  BY SynIs
<1>2. /\ a \in Sockets /\ a.bug = FALSE /\ a.tx = {} /\ a.rtx = <<syn>> /\ a.wq = <<>>
      /\ a.wseq = 1 /\ a.packets_out = 1
  BY <1>1, SynQueuedIs
<1>3. s = [a EXCEPT !.tx = x]
  <2> HIDE DEF a
  <2> QED BY <1>1, <1>2, TransmitFirst
<1>4. x \in TxSets /\ \A g \in x : g.seq <= 0 /\ g.end <= 1
  <2>1. syn.seq \in Int /\ syn.end \in Int /\ syn.end <= 1 /\ 1 \in Int /\ syn.seq <= 0
    BY <1>1
  <2>2. syn.fin \in BOOLEAN
    BY <1>1, SkbRange
  <2> QED BY <2>1, <2>2, OneSent
<1> HIDE DEF x
<1>5. s.wq = <<>> /\ s.wseq = 1
  <2> HIDE DEF a
  <2> QED BY <1>2, <1>3 DEF Sockets
<1>6. t = [s EXCEPT !.nxt = 1, !.pending = "retrans"]
  BY <1>5
<1>7. t = Opening(u, <<syn>>, <<>>, 1, 1, 1, x)
  <2> DEFINE q == <<syn>>
  <2>1. u \in Sockets /\ u.wq = <<>>
    BY DEF Blank
  <2>2. a = [u EXCEPT !.state = "SYN_SENT", !.rtx = q, !.sml = 0, !.wseq = 1, !.packets_out = 1]
    BY DEF SynQueued
  <2> HIDE DEF q, a, s
  <2>3. s = [u EXCEPT !.state = "SYN_SENT", !.rtx = q, !.sml = 0, !.wseq = 1, !.packets_out = 1,
                      !.tx = x]
    BY <1>3, <2>1, <2>2 DEF Sockets
  <2>4. t = [u EXCEPT !.state = "SYN_SENT", !.rtx = q, !.wq = <<>>, !.nxt = 1, !.wseq = 1,
              !.packets_out = 1, !.tx = x, !.sml = 0, !.pending = "retrans"]
    BY <1>6, <2>1, <2>3 DEF Sockets
  <2> QED BY <2>4 DEF Opening, q
<1>8. OpeningOK(<<syn>>, <<>>, 1, 1, 1, x)
  <2>1. UnsentPart(<<>>, 1, 1, FALSE)
    BY EmptyParts
  <2>2. 1 <= MaxData + 1
    BY SenderAssumption
  <2>3. <<syn>> # <<>>
    OBVIOUS
  <2> QED BY <1>1, <1>4, <2>1, <2>2, <2>3 DEF OpeningOK, Flight
<1> HIDE DEF t
<1>9. Moved(1, t, 0, 1)
  BY <1>7, <1>8, OpeningIs
<1> QED BY <1>9 DEF t

\* The data that a SYN may carry.
LEMMA SynDataIs ==
  ASSUME NEW space \in FastOpenSizes, space >= 0
  PROVE  LET e == 1 + space
             d == [NewSkb(1, e) EXCEPT !.pc = 1]
         IN /\ e \in Nat /\ 1 <= e /\ e <= MaxData + 1
            /\ d \in Skb /\ d.seq = 1 /\ d.end = e /\ ~d.fin /\ Plain(d) /\ d.pc = 1
<1> DEFINE e == 1 + space
           o == 1
           d == [NewSkb(o, e) EXCEPT !.pc = 1]
<1>1. space \in -1..MaxData /\ MaxData \in Nat
  BY SenderAssumption
<1>2. e \in Nat /\ 1 <= e /\ e <= MaxData + 1
  BY <1>1
<1>3. o \in Nat /\ o <= e /\ o = 1
  BY <1>2
<1> HIDE DEF o, e
<1>4. d \in Skb /\ d.seq = o /\ d.end = e /\ ~d.fin /\ Plain(d) /\ d.pc = 1
  BY <1>2, <1>3, DataSkbIs
<1> QED BY <1>2, <1>3, <1>4 DEF o, e

\* A SYN with data, in flight.
LEMMA OpenFast ==
  ASSUME NEW u, Blank(u), NEW syn, syn = ControlSkb(0, "SYN"),
         NEW space \in FastOpenSizes, space >= 0
  PROVE  LET s == SendSynData(SynQueued(u, syn), syn, space, TRUE)
         IN SenderInv([s EXCEPT !.nxt = IF s.wq = <<>> THEN s.wseq ELSE Head(s.wq).seq,
                                !.pending = "retrans"])
<1> DEFINE a == SynQueued(u, syn)
           e == 1 + space
           d == [NewSkb(1, e) EXCEPT !.pc = 1]
           x == {[seq |-> syn.seq, end |-> d.end, fin |-> FALSE]}
           r == Append(<<syn>>, d)
           s == SendSynData(a, syn, space, TRUE)
           t == [s EXCEPT !.nxt = IF s.wq = <<>> THEN s.wseq ELSE Head(s.wq).seq,
                          !.pending = "retrans"]
<1>1. /\ syn \in Skb /\ syn.seq = 0 /\ syn.end = 1 /\ syn.pc = 1 /\ syn.fin = FALSE
      /\ Flight(<<syn>>, 1, 1)
  BY SynIs
<1>2. /\ a \in Sockets /\ a.bug = FALSE /\ a.tx = {} /\ a.rtx = <<syn>> /\ a.wq = <<>>
      /\ a.wseq = 1 /\ a.packets_out = 1
  BY <1>1, SynQueuedIs
<1>3. /\ e \in Nat /\ 1 <= e /\ e <= MaxData + 1
      /\ d \in Skb /\ d.seq = 1 /\ d.end = e /\ ~d.fin /\ Plain(d) /\ d.pc = 1
  BY SynDataIs
<1>4. s = [[a EXCEPT !.wseq = d.end, !.packets_out = @ + d.pc]
             EXCEPT !.rtx = Append(@, d), !.tx = x]
  <2>1. [NewSkb(syn.end, syn.end + space) EXCEPT !.pc = 1] = d
    BY <1>1
  <2> HIDE DEF a, d
  <2> QED BY <2>1 DEF SendSynData, ConnectQueueSkb
<1>5. Flight(r, e, 2) /\ r # <<>>
  <2> DEFINE q == <<syn>>
             o == 1
  <2>1. Flight(q, o, o) /\ d.seq = o /\ o \in Nat /\ o + 1 = 2
    BY <1>1, <1>3
  <2> HIDE DEF q, o, d, e
  <2>2. Flight(Append(q, d), d.end, o + 1) /\ Append(q, d) # <<>>
    BY <1>3, <2>1, FlightGrown
  <2> QED BY <1>3, <2>1, <2>2 DEF q
<1> HIDE DEF d, e
<1>6. x \in TxSets /\ \A g \in x : g.seq <= 0 /\ g.end <= e
  <2>1. syn.seq \in Int /\ d.end \in Int /\ d.end <= e /\ e \in Int /\ syn.seq <= 0
    BY <1>1, <1>3
  <2>2. FALSE \in BOOLEAN
    OBVIOUS
  <2> QED BY <2>1, <2>2, OneSent
<1> HIDE DEF x
<1>7. s = [a EXCEPT !.wseq = e, !.packets_out = 2, !.rtx = r, !.tx = x]
  <2> HIDE DEF a
  <2>1. [a EXCEPT !.wseq = d.end, !.packets_out = @ + d.pc] = [a EXCEPT !.wseq = e, !.packets_out = 2]
    BY <1>2, <1>3 DEF Sockets
  <2> QED BY <1>2, <1>4, <2>1 DEF Sockets
<1> HIDE DEF r, s
<1>8. s.wq = <<>> /\ s.wseq = e
  <2> HIDE DEF a
  <2> QED BY <1>2, <1>7 DEF Sockets
<1>9. t = [s EXCEPT !.nxt = e, !.pending = "retrans"]
  BY <1>8
<1>10. t = Opening(u, r, <<>>, e, e, 2, x)
  <2> DEFINE q == <<syn>>
  <2>1. u \in Sockets /\ u.wq = <<>>
    BY DEF Blank
  <2>2. a = [u EXCEPT !.state = "SYN_SENT", !.rtx = q, !.sml = 0, !.wseq = 1, !.packets_out = 1]
    BY DEF SynQueued
  <2> HIDE DEF q, a
  <2>3. s = [u EXCEPT !.state = "SYN_SENT", !.rtx = r, !.sml = 0, !.wseq = e, !.packets_out = 2,
                      !.tx = x]
    BY <1>7, <2>1, <2>2 DEF Sockets
  <2>4. t = [u EXCEPT !.state = "SYN_SENT", !.rtx = r, !.wq = <<>>, !.nxt = e, !.wseq = e,
              !.packets_out = 2, !.tx = x, !.sml = 0, !.pending = "retrans"]
    BY <1>9, <2>1, <2>3 DEF Sockets
  <2> QED BY <2>4 DEF Opening
<1>11. OpeningOK(r, <<>>, e, e, 2, x)
  <2>1. UnsentPart(<<>>, e, e, FALSE)
    BY <1>3, EmptyParts
  <2> QED BY <1>3, <1>5, <1>6, <2>1 DEF OpeningOK, Flight
<1> HIDE DEF t
<1>12. SenderInv(t)
  BY <1>10, <1>11, OpeningIs DEF Moved
<1> QED BY <1>12 DEF t, s

\* The SYN went alone: its data waits.
LEMMA OpenSlow ==
  ASSUME NEW u, Blank(u), NEW syn, syn = ControlSkb(0, "SYN"),
         NEW space \in FastOpenSizes, space >= 0
  PROVE  LET s == SendSynData(SynQueued(u, syn), syn, space, FALSE)
         IN SenderInv([s EXCEPT !.nxt = IF s.wq = <<>> THEN s.wseq ELSE Head(s.wq).seq,
                                !.pending = "retrans"])
<1> DEFINE a == SynQueued(u, syn)
           e == 1 + space
           d == [NewSkb(1, e) EXCEPT !.pc = 1]
           x == {[seq |-> syn.seq, end |-> syn.end, fin |-> syn.fin]}
           w == <<d>>
           b == [a EXCEPT !.wseq = e, !.wq = w]
           s == SendSynData(a, syn, space, FALSE)
           t == [s EXCEPT !.nxt = IF s.wq = <<>> THEN s.wseq ELSE Head(s.wq).seq,
                          !.pending = "retrans"]
<1>1. /\ syn \in Skb /\ syn.seq = 0 /\ syn.end = 1 /\ syn.pc = 1 /\ syn.fin = FALSE
      /\ Flight(<<syn>>, 1, 1)
  BY SynIs
<1>2. /\ a \in Sockets /\ a.bug = FALSE /\ a.tx = {} /\ a.rtx = <<syn>> /\ a.wq = <<>>
      /\ a.wseq = 1 /\ a.packets_out = 1
  BY <1>1, SynQueuedIs
<1>3. /\ e \in Nat /\ 1 <= e /\ e <= MaxData + 1
      /\ d \in Skb /\ d.seq = 1 /\ d.end = e /\ ~d.fin /\ Plain(d) /\ d.pc = 1
  BY SynDataIs
<1>4. s = Transmit([[a EXCEPT !.wseq = d.end, !.packets_out = @ + d.pc]
                      EXCEPT !.wq = w, !.packets_out = @ - d.pc], syn)
  <2>1. [NewSkb(syn.end, syn.end + space) EXCEPT !.pc = 1] = d
    BY <1>1
  <2> HIDE DEF a, d
  <2> QED BY <2>1 DEF SendSynData, ConnectQueueSkb
<1> HIDE DEF d, e
<1>5. w \in Seq(Skb) /\ w # <<>> /\ Head(w).seq = 1
  BY <1>3
<1>6. UnsentPart(w, 1, e, FALSE)
  <2> DEFINE q == <<>>
             o == 1
             f == FALSE
  <2>1. UnsentPart(q, o, o, FALSE) /\ d.seq = o /\ (d.fin => f)
    BY <1>3, EmptyParts
  <2>2. Append(q, d) = w
    BY <1>3
  <2> HIDE DEF q, o, f, w
  <2>3. UnsentPart(Append(q, d), o, d.end, f)
    BY <1>3, <2>1, UnsentAdded
  <2> QED BY <1>3, <2>2, <2>3 DEF o, f
<1> HIDE DEF w
<1>7. [[a EXCEPT !.wseq = d.end, !.packets_out = @ + d.pc]
         EXCEPT !.wq = w, !.packets_out = @ - d.pc] = b
  <2> HIDE DEF a
  <2> DEFINE two == 2
             c   == [a EXCEPT !.wseq = e, !.packets_out = two]
  <2>1. [a EXCEPT !.wseq = d.end, !.packets_out = @ + d.pc] = c
    BY <1>2, <1>3 DEF Sockets
  <2>2. c \in Sockets /\ c.packets_out = 2
    <3>1. two \in Int
      OBVIOUS
    <3>2. a \in Sockets /\ e \in Nat
      BY <1>2, <1>3
    <3> HIDE DEF two
    <3>3. c \in Sockets /\ c.packets_out = two
      BY <3>1, <3>2 DEF Sockets
    <3> QED BY <3>3 DEF two
  <2>3. [c EXCEPT !.wq = w, !.packets_out = @ - d.pc] = [c EXCEPT !.wq = w, !.packets_out = 1]
    <3> HIDE DEF c
    <3> QED BY <1>3, <2>2 DEF Sockets
  <2>4. [c EXCEPT !.wq = w, !.packets_out = 1] = b
    BY <1>2 DEF Sockets
  <2> QED BY <2>1, <2>3, <2>4
<1>8. b \in Sockets /\ b.bug = FALSE /\ b.tx = {} /\ b.wq = w /\ b.wseq = e
  <2> HIDE DEF a
  <2> QED BY <1>2, <1>3, <1>5 DEF Sockets
<1>9. s = [b EXCEPT !.tx = x]
  <2>1. s = Transmit(b, syn)
    BY <1>4, <1>7
  <2> HIDE DEF b
  <2> QED BY <1>1, <1>8, <2>1, TransmitFirst
<1>10. x \in TxSets /\ \A g \in x : g.seq <= 0 /\ g.end <= e
  <2>1. syn.seq \in Int /\ syn.end \in Int /\ syn.end <= e /\ e \in Int /\ syn.seq <= 0
    BY <1>1, <1>3
  <2>2. syn.fin \in BOOLEAN
    BY <1>1, SkbRange
  <2> QED BY <2>1, <2>2, OneSent
<1> HIDE DEF x, s
<1>11. s.wq = w
  <2> HIDE DEF b
  <2> QED BY <1>8, <1>9 DEF Sockets
<1>12. t = [s EXCEPT !.nxt = 1, !.pending = "retrans"]
  BY <1>5, <1>11
<1>13. t = Opening(u, <<syn>>, w, 1, e, 1, x)
  <2> DEFINE q == <<syn>>
  <2>1. u \in Sockets
    BY DEF Blank
  <2>2. a = [u EXCEPT !.state = "SYN_SENT", !.rtx = q, !.sml = 0, !.wseq = 1, !.packets_out = 1]
    BY DEF SynQueued
  <2> HIDE DEF q, a
  <2>3. b = [u EXCEPT !.state = "SYN_SENT", !.rtx = q, !.sml = 0, !.wseq = e, !.packets_out = 1,
                      !.wq = w]
    BY <2>1, <2>2 DEF Sockets
  <2> HIDE DEF b
  <2>4. s = [u EXCEPT !.state = "SYN_SENT", !.rtx = q, !.sml = 0, !.wseq = e, !.packets_out = 1,
                      !.wq = w, !.tx = x]
    BY <1>9, <2>1, <2>3 DEF Sockets
  <2>5. t = [u EXCEPT !.state = "SYN_SENT", !.rtx = q, !.wq = w, !.nxt = 1, !.wseq = e,
              !.packets_out = 1, !.tx = x, !.sml = 0, !.pending = "retrans"]
    BY <1>12, <2>1, <2>4 DEF Sockets
  <2> QED BY <2>5 DEF Opening, q
<1>14. OpeningOK(<<syn>>, w, 1, e, 1, x)
  <2>1. <<syn>> # <<>>
    OBVIOUS
  <2> QED BY <1>1, <1>3, <1>6, <1>10, <2>1 DEF OpeningOK, Flight
<1> HIDE DEF t
<1>15. SenderInv(t)
  BY <1>13, <1>14, OpeningIs DEF Moved
<1> QED BY <1>15 DEF t, s

\* tcp_connect.
LEMMA ConnectStep ==
  ASSUME SenderInv(sk), NEW space \in FastOpenSizes \cup {-1}, NEW ok \in BOOLEAN,
         Connect(space, ok)
  PROVE  SenderInv(sk') /\ (space = -1 => Moved(1, sk', 0, 1))
<1> DEFINE u == Fresh(sk)
           syn == ControlSkb(0, "SYN")
           a == SynQueued(u, syn)
           c == ConnectQueueSkb([u EXCEPT !.state = "SYN_SENT", !.rtx = <<syn>>, !.sml = 0], syn)
           Opened(x) == IF space >= 0 THEN SendSynData(x, syn, space, ok) ELSE Transmit(x, syn)
           Done(s) == [s EXCEPT !.nxt = IF s.wq = <<>> THEN s.wseq ELSE Head(s.wq).seq,
                                !.pending = "retrans"]
<1>1. sk.state = "CLOSE" /\ sk.wseq = 0 /\ sk' = Done(Opened(c))
  BY DEF Connect
<1>2. Blank(u)
  BY <1>1, BlankIs
<1>3. c = a
  <2>1. syn \in Skb /\ syn.end = 1 /\ syn.pc = 1
    BY SynIs
  <2> HIDE DEF syn, u
  <2> QED BY <1>2, <2>1, SynQueuedIs
<1>4. SenderInv(Done(Opened(a))) /\ (space = -1 => Moved(1, Done(Opened(a)), 0, 1))
  <2>1. ~(space >= 0) \/ (space >= 0 /\ space # -1 /\ space \in FastOpenSizes)
    OBVIOUS
  <2>2. CASE ~(space >= 0)
    <3>1. Moved(1, Done(Opened(a)), 0, 1)
      BY <1>2, <2>2, OpenPlain
    <3> QED BY <3>1 DEF Moved
  <2>3. CASE space >= 0 /\ space # -1 /\ space \in FastOpenSizes /\ ok = TRUE
    BY <1>2, <2>3, OpenFast
  <2>4. CASE space >= 0 /\ space # -1 /\ space \in FastOpenSizes /\ ok = FALSE
    BY <1>2, <2>4, OpenSlow
  <2> QED BY <2>1, <2>2, <2>3, <2>4
<1> HIDE DEF a, c, u
<1> QED BY <1>1, <1>3, <1>4

-----------------------------------------------------------------------------
(* The specification *)

\* A finite set of numbers has a largest element.
LEMMA MaxIs ==
  ASSUME NEW S \in SUBSET Nat, S # {}, IsFiniteSet(S)
  PROVE  Max(S) \in S /\ \A y \in S : Max(S) >= y
<1>1. PICK n \in Nat : ExistsBijection(1..n, S)
  BY FS_CardinalityType
<1>2. PICK f \in Bijection(1..n, S) : TRUE
  BY <1>1 DEF ExistsBijection
<1>3. PICK m \in Nat : \A y \in S : y <= m
  <2>1. f \in [1..n -> S] /\ \A y \in S : \E i \in 1..n : f[i] = y
    BY <1>2 DEF Bijection, Injection, Surjection
  <2>2. \A i \in 1..n : f[i] \in Nat
    BY <2>1
  <2> DEFINE Bound(i) == \E m \in Nat : \A j \in 1..i : f[j] <= m
             Q == {i \in 0..n : Bound(i)}
  <2>3. 0 \in Q
    OBVIOUS
  <2>4. ASSUME NEW i \in 1..n, i - 1 \in Q PROVE i \in Q
    <3>1. PICK m \in Nat : \A j \in 1..i - 1 : f[j] <= m
      BY <2>4
    <3> DEFINE k == m + f[i]
    <3>2. k \in Nat /\ m <= k /\ f[i] <= k
      BY <2>2, <3>1
    <3> HIDE DEF k
    <3>3. \A j \in 1..i : f[j] <= k
      <4> TAKE j \in 1..i
      <4>1. CASE j = i
        BY <3>2, <4>1
      <4>2. CASE j # i
        <5>1. j \in 1..i - 1 /\ f[j] \in Nat
          BY <2>2, <4>2
        <5> QED BY <3>1, <3>2, <5>1
      <4> QED BY <4>1, <4>2
    <3> QED BY <3>2, <3>3
  <2>5. \A i \in Q : Bound(i)
    OBVIOUS
  <2> HIDE DEF Q
  <2>6. n \in Q
    BY <2>3, <2>4, Induct
  <2> QED BY <2>1, <2>5, <2>6
<1> DEFINE U == {k \in Nat : \A y \in S : y <= k}
<1>4. U \in SUBSET Nat /\ U # {}
  BY <1>3
<1>5. PICK k \in U : \A j \in U : k <= j
  BY <1>4, LeastNat
<1>6. k \in Nat /\ \A y \in S : y <= k
  BY <1>5
<1>7. k \in S
  <2> SUFFICES ASSUME k \notin S PROVE FALSE
    OBVIOUS
  <2>1. PICK x \in S : TRUE
    OBVIOUS
  <2>2. x \in Nat /\ x < k
    BY <1>6, <2>1
  <2>3. k - 1 \in U
    BY <1>6, <2>2
  <2> QED BY <1>5, <1>6, <2>3
<1>8. \E x \in S : \A y \in S : x >= y
  BY <1>6, <1>7
<1> QED BY <1>8 DEF Max

\* A socket before it connects.
LEMMA SenderStarts ==
  ASSUME SenderInit
  PROVE  SenderInv(sk)
<1>1. PICK g \in Nagles : sk = [Closed EXCEPT !.nonagle = g]
  BY DEF SenderInit
<1> DEFINE m == Max(Msses)
           none == {}
           empty == <<>>
           zero == 0
<1>2. m \in Msses
  BY MaxIs, SenderAssumption
<1>3. g \in Corks
  BY SenderAssumption DEF Corks
<1>4. none \in TxSets /\ \A t \in none : FALSE
  BY FS_EmptySet DEF TxSets
<1>5. empty \in Seq(Skb) /\ Len(empty) = 0 /\ SentPart(empty, zero, zero, FALSE)
      /\ UnsentPart(empty, zero, zero, FALSE) /\ \A c \in Marks : Sums(empty, c, zero)
  <2>1. empty \in Seq(Skb) /\ Len(empty) = 0
    OBVIOUS
  <2>2. zero \in Nat
    OBVIOUS
  <2>3. ASSUME NEW c \in Marks PROVE Sums(empty, c, zero)
    <3>1. Sums(<<>>, c, zero) <=> zero = 0
      BY SumsEmpty
    <3> QED BY <3>1
  <2> DEFINE f == FALSE
  <2> HIDE DEF zero, f
  <2>4. SentPart(<<>>, zero, zero, f) /\ UnsentPart(<<>>, zero, zero, f)
    BY <2>2, EmptyParts
  <2> QED BY <2>1, <2>3, <2>4 DEF f
<1>6. zero \in Nat /\ zero \in Int /\ zero = 0
  OBVIOUS
<1>7. sk = [state |-> "CLOSE", una |-> zero, nxt |-> zero, wseq |-> zero, wnd |-> zero,
            cwnd |-> 1, mss |-> m, packets_out |-> zero, lost_out |-> zero,
            retrans_out |-> zero, sacked_out |-> zero, rtx |-> empty, wq |-> empty,
            sml |-> zero, tlp |-> zero, pending |-> "none", hint |-> zero, ca |-> "Open",
            nonagle |-> g, mtup |-> zero, tx |-> none, bug |-> FALSE]
  BY <1>1 DEF Closed
<1>8. empty = <<>>
  OBVIOUS
<1> HIDE DEF m, none, empty, zero
<1>9. sk \in Sockets
  BY <1>2, <1>3, <1>4, <1>5, <1>6, <1>7 DEF Sockets, States, Pendings, CaStates
<1>10. /\ sk.state = "CLOSE" /\ sk.una = zero /\ sk.nxt = zero /\ sk.wseq = zero
       /\ sk.packets_out = zero /\ sk.lost_out = zero /\ sk.retrans_out = zero
       /\ sk.sacked_out = zero /\ sk.rtx = empty /\ sk.wq = empty /\ sk.pending = "none"
       /\ sk.hint = zero /\ sk.tx = none /\ sk.bug = FALSE
  BY <1>7
<1>11. Counted(sk)
  BY <1>5, <1>10 DEF Counted, Counter
<1>12. HintOK(sk) /\ TxIn(sk)
  BY <1>4, <1>5, <1>6, <1>10 DEF HintOK, Settled, TxIn
<1>13. SentPart(sk.rtx, sk.una, sk.nxt, FALSE /\ sk.wq = <<>>)
       /\ UnsentPart(sk.wq, sk.nxt, sk.wseq, FALSE)
  <2>1. (FALSE /\ sk.wq = <<>>) = FALSE
    OBVIOUS
  <2> QED BY <1>5, <1>10, <2>1
<1>14. Good(sk, FALSE)
  BY <1>9, <1>10, <1>11, <1>12, <1>13 DEF Good, GoodAt
<1>15. (sk.state = "FIN_WAIT1") = FALSE
  BY <1>10
<1>16. Good(sk, sk.state = "FIN_WAIT1")
  BY <1>14, <1>15
<1>17. Armed(sk) /\ Phase(sk)
  BY <1>8, <1>10 DEF Armed, PreArmed, Phase
<1>18. WithinData(sk)
  BY <1>6, <1>10, SenderAssumption DEF WithinData
<1> QED BY <1>16, <1>17, <1>18 DEF SenderInv

\* A call keeps the invariant, and sends no new data beyond the window.
SafeStep == SenderInv(sk') /\ (sk.state # "CLOSE" => NewIn(sk.nxt, sk'))

\* A call of the application.
LEMMA ApplicationStep ==
  ASSUME SenderInv(sk), NEW env \in Env, Application(env)
  PROVE  SafeStep
<1>1. ASSUME NEW n \in WriteSizes, Sendmsg(n, env) PROVE SafeStep
  BY <1>1, SendmsgStep DEF Moved, SafeStep
<1>2. ASSUME Uncork(env) PROVE SafeStep
  BY <1>2, UncorkStep DEF Moved, SafeStep
<1>3. ASSUME NEW pressure \in BOOLEAN, NEW alloc \in BOOLEAN, SendFin(pressure, alloc, env)
      PROVE  SafeStep
  BY <1>3, SendFinStep DEF Moved, SafeStep
<1> QED BY <1>1, <1>2, <1>3 DEF Application

\* An acknowledgement whose trim does not fail for memory.
LEMMA AcknowledgementStep ==
  ASSUME SenderInv(sk), NEW env \in Env, Acknowledgements(env), ~untrimmed'
  PROVE  SafeStep
<1>1. PICK ack \in sk.una .. sk.nxt, wnd \in Windows, cwnd \in Cwnds :
        RecvAck(ack, wnd, cwnd, TRUE, env) \/ RecvSynAck(ack, wnd, cwnd, env)
  BY DEF Acknowledgements
<1>2. wnd \in Nat
  BY SenderAssumption
<1>3. CASE RecvAck(ack, wnd, cwnd, TRUE, env)
  BY <1>2, <1>3, AckStep DEF Moved, SafeStep
<1>4. CASE RecvSynAck(ack, wnd, cwnd, env)
  BY <1>2, <1>4, SynAckStep DEF Moved, SafeStep
<1> QED BY <1>1, <1>3, <1>4

\* A loss that is noticed.
LEMMA LossStep ==
  ASSUME SenderInv(sk), NEW env \in Env, Losses(env)
  PROVE  SafeStep
<1>1. ASSUME NEW i \in DOMAIN sk.rtx, NEW l \in {0} \cup DOMAIN sk.rtx, NEW reo \in BOOLEAN,
             RecvSack(i, l, reo, env)
      PROVE  SafeStep
  BY <1>1, SackStep DEF Moved, SafeStep
<1>2. ASSUME NEW all \in BOOLEAN, RtoFires(all, env) PROVE SafeStep
  BY <1>2, RtoStep DEF Moved, SafeStep
<1>3. ASSUME NEW l \in DOMAIN sk.rtx, ReoFires(l, env) PROVE SafeStep
  BY <1>3, ReoStep DEF Moved, SafeStep
<1>4. ASSUME NEW mss \in Msses, MtuReduced(mss, env) PROVE SafeStep
  BY <1>4, MtuReducedStep DEF Moved, SafeStep
<1> QED BY <1>1, <1>2, <1>3, <1>4 DEF Losses

\* A timer of the sender or the queues below.
LEMMA ProbeStep ==
  ASSUME SenderInv(sk), NEW env \in Env, Probes(env)
  PROVE  SafeStep
BY LossProbeStep, Probe0Step, TsqStep DEF Probes, Moved, SafeStep

\* A call of the stack, when no trim has failed.
LEMMA SenderStep ==
  ASSUME SenderInv(sk), [SenderNext]_senderVars, ~untrimmed'
  PROVE  SafeStep
<1>1. ASSUME NEW space \in FastOpenSizes, NEW ok \in BOOLEAN, Connect(space, ok)
      PROVE  SafeStep
  <2>1. sk.state = "CLOSE"
    BY <1>1 DEF Connect
  <2> QED BY <1>1, <2>1, ConnectStep DEF SafeStep
<1>2. ASSUME NEW env \in Env, Application(env) PROVE SafeStep
  BY <1>2, ApplicationStep
<1>3. ASSUME NEW env \in Env, Acknowledgements(env) PROVE SafeStep
  BY <1>3, AcknowledgementStep
<1>4. ASSUME NEW env \in Env, Losses(env) PROVE SafeStep
  BY <1>4, LossStep
<1>5. ASSUME NEW env \in Env, Probes(env) PROVE SafeStep
  BY <1>5, ProbeStep
<1>6. ASSUME UNCHANGED senderVars PROVE SafeStep
  BY <1>6 DEF SafeStep, NewIn, senderVars
<1> QED BY <1>1, <1>2, <1>3, <1>4, <1>5, <1>6 DEF SenderNext

\* A trim that has failed stays on record.
LEMMA UntrimmedStays ==
  ASSUME untrimmed = TRUE, [SenderNext]_senderVars
  PROVE  untrimmed' = TRUE
BY DEF SenderNext, Acknowledgements, senderVars

\* Whether one has failed is a truth value.
LEMMA UntrimmedBoolean == SenderSpec => [](untrimmed \in BOOLEAN)
<1>1. SenderInit => untrimmed \in BOOLEAN
  BY DEF SenderInit
<1>2. untrimmed \in BOOLEAN /\ [SenderNext]_senderVars => (untrimmed \in BOOLEAN)'
  BY DEF SenderNext, Acknowledgements, senderVars
<1> QED BY <1>1, <1>2, PTL DEF SenderSpec

\* The inductive invariant, from the first state until a trim has failed.
SenderSound == ~untrimmed => SenderInv(sk)

\* The inductive invariant holds in every state of the sender in which no trim
\* has failed at an ACK.
THEOREM SenderInvariance == SenderSpec => []SenderSound
<1>1. SenderInit => SenderSound
  BY SenderStarts DEF SenderSound
<1>2. untrimmed \in BOOLEAN /\ SenderSound /\ [SenderNext]_senderVars => SenderSound'
  <2> SUFFICES ASSUME untrimmed \in BOOLEAN, SenderSound, [SenderNext]_senderVars, ~untrimmed'
               PROVE  SenderInv(sk')
    BY DEF SenderSound
  <2>1. ~untrimmed
    BY UntrimmedStays
  <2>2. SenderInv(sk)
    BY <2>1 DEF SenderSound
  <2> QED BY <2>2, SenderStep DEF SafeStep
<1> QED BY <1>1, <1>2, UntrimmedBoolean, PTL DEF SenderSpec

-----------------------------------------------------------------------------
(* The properties *)

\* h holds the values of a loop that adds up what the buffers count for.
Adding(h, q, c) ==
    h = [k \in 0..Len(q) |-> IF k = 0 THEN 0 ELSE h[k - 1] + Weight(q[k], c)]

\* Such a loop ends with their sum.
LEMMA LoopSums ==
  ASSUME NEW q \in Seq(Skb), NEW c, NEW v, Sums(q, c, v), NEW h, Adding(h, q, c)
  PROVE  h[Len(q)] = v
<1> DEFINE n == Len(q)
<1>1. n \in Nat
  BY SeqFacts
<1>2. PICK p : Running(p, q, c) /\ p[n] = v
  BY DEF Sums
<1>3. p[0] = 0 /\ \A k \in 1..n : p[k] = p[k - 1] + Weight(q[k], c)
  BY <1>2 DEF Running
<1> HIDE DEF n
<1>4. h[0] = 0 /\ \A k \in 1..n : h[k] = h[k - 1] + Weight(q[k], c)
  <2>1. \A k \in 0..n : h[k] = IF k = 0 THEN 0 ELSE h[k - 1] + Weight(q[k], c)
    BY DEF n, Adding
  <2> QED BY <1>1, <2>1
<1> DEFINE Q == {k \in 0..n : h[k] = p[k]}
<1>5. 0 \in Q
  BY <1>1, <1>3, <1>4
<1>6. ASSUME NEW k \in 1..n, k - 1 \in Q PROVE k \in Q
  <2>1. k \in 0..n /\ h[k - 1] = p[k - 1]
    BY <1>1, <1>6
  <2> QED BY <1>3, <1>4, <2>1
<1>7. \A k \in Q : h[k] = p[k]
  OBVIOUS
<1> HIDE DEF Q
<1>8. n \in Q
  BY <1>1, <1>5, <1>6, Induct
<1> QED BY <1>2, <1>7, <1>8 DEF n

\* Such a loop exists.
LEMMA LoopSumsExists ==
  ASSUME NEW q \in Seq(Skb), NEW c, NEW v, Sums(q, c, v)
  PROVE  \E h : Adding(h, q, c)
<1> DEFINE n == Len(q)
<1>1. n \in Nat
  BY SeqFacts
<1>2. PICK p : Running(p, q, c)
  BY DEF Sums
<1>3. p \in [0..n -> Int] /\ p[0] = 0 /\ \A k \in 1..n : p[k] = p[k - 1] + Weight(q[k], c)
  BY <1>2 DEF Running
<1> HIDE DEF n
<1>4. \A k \in 0..n : p[k] = IF k = 0 THEN 0 ELSE p[k - 1] + Weight(q[k], c)
  BY <1>1, <1>3
<1>5. p = [k \in 0..n |-> p[k]]
  BY <1>3
<1>6. p = [k \in 0..n |-> IF k = 0 THEN 0 ELSE p[k - 1] + Weight(q[k], c)]
  BY <1>4, <1>5
<1>7. Adding(p, q, c)
  BY <1>6 DEF n, Adding
<1> QED BY <1>7

\* packets_out counts every buffer of the retransmit queue.
LEMMA CountOut ==
  ASSUME NEW v, sk.rtx \in Seq(Skb), Sums(sk.rtx, "out", v)
  PROVE  Count(LAMBDA b : TRUE) = v
<1> DEFINE q == sk.rtx
           W(k) == IF TRUE THEN q[k].pc ELSE 0
           Is(h) == h = [k \in 0..Len(q) |-> IF k = 0 THEN 0 ELSE h[k - 1] + W(k)]
           g == CHOOSE h : Is(h)
<1>1. \A k \in 0..Len(q) : W(k) = Weight(q[k], "out")
  BY DEF Weight, Has
<1>2. Len(q) \in Nat
  BY SeqFacts
<1>3. Count(LAMBDA b : TRUE) = g[Len(q)]
  BY DEF Count, Iterate
<1> HIDE DEF q, W
<1>4. ASSUME NEW h
      PROVE  Is(h) <=> Adding(h, q, "out")
  <2>1. [k \in 0..Len(q) |-> IF k = 0 THEN 0 ELSE h[k - 1] + W(k)]
          = [k \in 0..Len(q) |-> IF k = 0 THEN 0 ELSE h[k - 1] + Weight(q[k], "out")]
    BY <1>1
  <2> QED BY <2>1 DEF Adding
<1>5. q \in Seq(Skb) /\ Sums(q, "out", v)
  BY DEF q
<1>6. PICK h : Is(h)
  BY <1>4, <1>5, LoopSumsExists
<1>7. Is(g)
  BY <1>6
<1> HIDE DEF g
<1>8. Adding(g, q, "out")
  BY <1>4, <1>7
<1>9. g[Len(q)] = v
  BY <1>5, <1>8, LoopSums
<1> QED BY <1>3, <1>9

\* lost_out counts those with the mark.
LEMMA CountLost ==
  ASSUME NEW v, sk.rtx \in Seq(Skb), Sums(sk.rtx, "lost", v)
  PROVE  Count(LAMBDA b : b.lost) = v
<1> DEFINE q == sk.rtx
           W(k) == IF q[k].lost THEN q[k].pc ELSE 0
           Is(h) == h = [k \in 0..Len(q) |-> IF k = 0 THEN 0 ELSE h[k - 1] + W(k)]
           g == CHOOSE h : Is(h)
<1>1. \A k \in 0..Len(q) : W(k) = Weight(q[k], "lost")
  BY DEF Weight, Has
<1>2. Len(q) \in Nat
  BY SeqFacts
<1>3. Count(LAMBDA b : b.lost) = g[Len(q)]
  BY DEF Count, Iterate
<1> HIDE DEF q, W
<1>4. ASSUME NEW h
      PROVE  Is(h) <=> Adding(h, q, "lost")
  <2>1. [k \in 0..Len(q) |-> IF k = 0 THEN 0 ELSE h[k - 1] + W(k)]
          = [k \in 0..Len(q) |-> IF k = 0 THEN 0 ELSE h[k - 1] + Weight(q[k], "lost")]
    BY <1>1
  <2> QED BY <2>1 DEF Adding
<1>5. q \in Seq(Skb) /\ Sums(q, "lost", v)
  BY DEF q
<1>6. PICK h : Is(h)
  BY <1>4, <1>5, LoopSumsExists
<1>7. Is(g)
  BY <1>6
<1> HIDE DEF g
<1>8. Adding(g, q, "lost")
  BY <1>4, <1>7
<1>9. g[Len(q)] = v
  BY <1>5, <1>8, LoopSums
<1> QED BY <1>3, <1>9

\* retrans_out counts those with the mark.
LEMMA CountRetrans ==
  ASSUME NEW v, sk.rtx \in Seq(Skb), Sums(sk.rtx, "retrans", v)
  PROVE  Count(LAMBDA b : b.retrans) = v
<1> DEFINE q == sk.rtx
           W(k) == IF q[k].retrans THEN q[k].pc ELSE 0
           Is(h) == h = [k \in 0..Len(q) |-> IF k = 0 THEN 0 ELSE h[k - 1] + W(k)]
           g == CHOOSE h : Is(h)
<1>1. \A k \in 0..Len(q) : W(k) = Weight(q[k], "retrans")
  BY DEF Weight, Has
<1>2. Len(q) \in Nat
  BY SeqFacts
<1>3. Count(LAMBDA b : b.retrans) = g[Len(q)]
  BY DEF Count, Iterate
<1> HIDE DEF q, W
<1>4. ASSUME NEW h
      PROVE  Is(h) <=> Adding(h, q, "retrans")
  <2>1. [k \in 0..Len(q) |-> IF k = 0 THEN 0 ELSE h[k - 1] + W(k)]
          = [k \in 0..Len(q) |-> IF k = 0 THEN 0 ELSE h[k - 1] + Weight(q[k], "retrans")]
    BY <1>1
  <2> QED BY <2>1 DEF Adding
<1>5. q \in Seq(Skb) /\ Sums(q, "retrans", v)
  BY DEF q
<1>6. PICK h : Is(h)
  BY <1>4, <1>5, LoopSumsExists
<1>7. Is(g)
  BY <1>6
<1> HIDE DEF g
<1>8. Adding(g, q, "retrans")
  BY <1>4, <1>7
<1>9. g[Len(q)] = v
  BY <1>5, <1>8, LoopSums
<1> QED BY <1>3, <1>9

\* sacked_out counts those with the mark.
LEMMA CountSacked ==
  ASSUME NEW v, sk.rtx \in Seq(Skb), Sums(sk.rtx, "sacked", v)
  PROVE  Count(LAMBDA b : b.acked) = v
<1> DEFINE q == sk.rtx
           W(k) == IF q[k].acked THEN q[k].pc ELSE 0
           Is(h) == h = [k \in 0..Len(q) |-> IF k = 0 THEN 0 ELSE h[k - 1] + W(k)]
           g == CHOOSE h : Is(h)
<1>1. \A k \in 0..Len(q) : W(k) = Weight(q[k], "sacked")
  BY DEF Weight, Has
<1>2. Len(q) \in Nat
  BY SeqFacts
<1>3. Count(LAMBDA b : b.acked) = g[Len(q)]
  BY DEF Count, Iterate
<1> HIDE DEF q, W
<1>4. ASSUME NEW h
      PROVE  Is(h) <=> Adding(h, q, "sacked")
  <2>1. [k \in 0..Len(q) |-> IF k = 0 THEN 0 ELSE h[k - 1] + W(k)]
          = [k \in 0..Len(q) |-> IF k = 0 THEN 0 ELSE h[k - 1] + Weight(q[k], "sacked")]
    BY <1>1
  <2> QED BY <2>1 DEF Adding
<1>5. q \in Seq(Skb) /\ Sums(q, "sacked", v)
  BY DEF q
<1>6. PICK h : Is(h)
  BY <1>4, <1>5, LoopSumsExists
<1>7. Is(g)
  BY <1>6
<1> HIDE DEF g
<1>8. Adding(g, q, "sacked")
  BY <1>4, <1>7
<1>9. g[Len(q)] = v
  BY <1>5, <1>8, LoopSums
<1> QED BY <1>3, <1>9

\* Both queues together.
LEMMA Covered ==
  ASSUME SenderInv(sk)
  PROVE  QueuesCover
<1> DEFINE f == sk.state = "FIN_WAIT1"
           a == sk.rtx
           b == sk.wq
           all == a \o b
           m == Len(a)
           n == Len(b)
<1>1. SentPart(a, sk.una, sk.nxt, f /\ b = <<>>) /\ UnsentPart(b, sk.nxt, sk.wseq, f)
      /\ a \in Seq(Skb) /\ b \in Seq(Skb)
  BY GoodFacts DEF SenderInv
<1>2. m \in Nat /\ n \in Nat /\ (a = <<>> <=> m = 0) /\ (b = <<>> <=> n = 0)
  BY <1>1, SeqFacts
<1>3. /\ \A i \in 1..m - 1 : a[i].end = a[i + 1].seq
      /\ m = 0 => sk.una = sk.nxt
      /\ m > 0 => a[1].seq <= sk.una /\ a[m].end = sk.nxt
      /\ \A i \in 1..m : a[i].fin => i = m /\ b = <<>>
  BY <1>1 DEF SentPart, Linked, FinLast
<1>4. /\ \A i \in 1..n - 1 : b[i].end = b[i + 1].seq
      /\ n = 0 => sk.nxt = sk.wseq
      /\ n > 0 => b[1].seq = sk.nxt /\ b[n].end = sk.wseq
      /\ \A i \in 1..n : b[i].fin => i = n
  BY <1>1 DEF UnsentPart, Linked, FinLast
<1>5. /\ all \in Seq(Skb) /\ Len(all) = m + n
      /\ \A i \in 1..m + n : all[i] = IF i <= m THEN a[i] ELSE b[i - m]
  BY <1>1, ConcatProperties
<1>6. sk.una \in Nat /\ sk.nxt \in Nat /\ sk.wseq \in Nat
  BY <1>1 DEF SentPart, UnsentPart
<1>7. DOMAIN all = 1..m + n /\ (all = <<>> <=> m + n = 0)
      /\ (all # <<>> => Head(all) = all[1] /\ Last(all) = all[m + n])
  <2> HIDE DEF all, m, n
  <2> QED BY <1>5, SeqFacts, SeqEnds
<1>8. /\ b # <<>> => Head(b) = b[1]
      /\ a # <<>> => Last(a) = a[m]
  <2> HIDE DEF a, b
  <2> QED BY <1>1, SeqEnds
<1> HIDE DEF all, m, n, a, b, f
<1>9. ASSUME NEW i \in 1..m + n - 1 PROVE all[i].end = all[i + 1].seq
  <2>1. CASE i < m
    <3>1. i \in 1..m - 1 /\ i \in 1..m + n /\ i + 1 \in 1..m + n /\ i <= m /\ i + 1 <= m
      BY <1>2, <2>1
    <3> QED BY <1>3, <1>5, <3>1
  <2>2. CASE i = m
    <3>1. m > 0 /\ n > 0 /\ i \in 1..m + n /\ i + 1 \in 1..m + n /\ i <= m
          /\ ~(i + 1 <= m) /\ i + 1 - m = 1
      BY <1>2, <2>2
    <3> QED BY <1>3, <1>4, <1>5, <2>2, <3>1
  <2>3. CASE i > m
    <3>1. i - m \in 1..n - 1 /\ i \in 1..m + n /\ i + 1 \in 1..m + n /\ ~(i <= m)
          /\ ~(i + 1 <= m) /\ i + 1 - m = (i - m) + 1
      BY <1>2, <2>3
    <3>2. all[i] = b[i - m] /\ all[i + 1] = b[i - m + 1]
      <4> DEFINE j == i + 1
      <4>1. all[i] = b[i - m]
        BY <1>5, <3>1
      <4>2. j \in 1..m + n /\ ~(j <= m) /\ j - m = i - m + 1
        BY <1>2, <3>1
      <4> HIDE DEF j
      <4>3. all[j] = b[j - m]
        BY <1>5, <4>2
      <4> QED BY <4>1, <4>2, <4>3 DEF j
    <3>3. b[i - m].end = b[i - m + 1].seq
      BY <1>4, <3>1
    <3> QED BY <3>2, <3>3
  <2> QED BY <1>2, <2>1, <2>2, <2>3
<1>10. ASSUME m + n > 0 PROVE all[1].seq <= sk.una /\ all[m + n].end = sk.wseq
  <2>1. 1 \in 1..m + n /\ m + n \in 1..m + n
    BY <1>2, <1>10
  <2>2. CASE m > 0 /\ n > 0
    <3>1. 1 <= m /\ ~(m + n <= m) /\ m + n - m = n
      BY <1>2, <2>2
    <3>2. all[1] = a[1]
      BY <1>5, <2>1, <3>1
    <3>3. all[m + n] = b[n]
      <4> DEFINE j == m + n
      <4>1. j \in 1..m + n /\ ~(j <= m) /\ j - m = n
        BY <1>2, <2>1, <3>1
      <4> HIDE DEF j
      <4>2. all[j] = b[j - m]
        BY <1>5, <4>1
      <4> QED BY <4>1, <4>2 DEF j
    <3> QED BY <1>3, <1>4, <2>2, <3>2, <3>3
  <2>3. CASE m > 0 /\ n = 0
    <3>1. 1 <= m /\ m + n = m
      BY <1>2, <2>3
    <3> QED BY <1>3, <1>4, <1>5, <2>1, <2>3, <3>1
  <2>4. CASE m = 0
    <3>1. n > 0 /\ ~(1 <= m) /\ 1 - m = 1 /\ m + n = n /\ ~(n <= m) /\ n - m = n
      BY <1>2, <1>10, <2>4
    <3>2. all[1] = b[1] /\ all[m + n] = b[n]
      BY <1>5, <2>1, <3>1
    <3> QED BY <1>3, <1>4, <1>6, <2>4, <3>1, <3>2
  <2> QED BY <1>2, <2>2, <2>3, <2>4
<1>11. m + n = 0 => sk.una = sk.wseq
  BY <1>2, <1>3, <1>4
<1>12. ASSUME NEW i \in 1..m + n, all[i].fin PROVE i = m + n
  <2>1. CASE i <= m
    <3>1. i \in 1..m /\ a[i].fin
      BY <1>2, <1>5, <1>12, <2>1
    <3>2. i = m /\ n = 0
      BY <1>2, <1>3, <3>1
    <3> QED BY <1>2, <3>2
  <2>2. CASE ~(i <= m)
    <3>1. i - m \in 1..n /\ b[i - m].fin
      BY <1>2, <1>5, <1>12, <2>2
    <3>2. i - m = n
      BY <1>4, <3>1
    <3> QED BY <1>2, <3>2
  <2> QED BY <2>1, <2>2
<1>13. /\ \A i \in 1 .. Len(all) - 1 : Max({all[i].end, sk.una}) = Max({all[i + 1].seq, sk.una})
       /\ all # <<>> => Head(all).seq <= sk.una /\ Last(all).end = sk.wseq
       /\ all = <<>> => sk.una = sk.wseq
       /\ a # <<>> => Last(a).end = sk.nxt
       /\ b # <<>> => Head(b).seq = sk.nxt
       /\ \A i \in DOMAIN all : all[i].fin => i = Len(all)
  <2>1. (a # <<>> => m > 0) /\ (b # <<>> => n > 0) /\ (all # <<>> => m + n > 0)
    BY <1>2, <1>7
  <2>2. \A i \in 1 .. Len(all) - 1 : Max({all[i].end, sk.una}) = Max({all[i + 1].seq, sk.una})
    <3>1. Len(all) = m + n
      BY <1>5
    <3>2. \A i \in 1..m + n - 1 : Max({all[i].end, sk.una}) = Max({all[i + 1].seq, sk.una})
      BY <1>9
    <3> QED BY <1>2, <3>1, <3>2
  <2>3. all # <<>> => Head(all).seq <= sk.una /\ Last(all).end = sk.wseq
    BY <1>7, <1>10, <2>1
  <2>4. \A i \in DOMAIN all : all[i].fin => i = Len(all)
    BY <1>5, <1>7, <1>12
  <2>5. (all = <<>> => sk.una = sk.wseq) /\ (a # <<>> => Last(a).end = sk.nxt)
        /\ (b # <<>> => Head(b).seq = sk.nxt)
    BY <1>3, <1>4, <1>7, <1>8, <1>11, <2>1
  <2> QED BY <2>2, <2>3, <2>4, <2>5
<1> QED BY <1>13 DEF QueuesCover, all, a, b

\* The counters and the types of the fields.
LEMMA CountersAdd ==
  ASSUME SenderInv(sk)
  PROVE  CountersMatch
<1> DEFINE f == sk.state = "FIN_WAIT1"
<1>1. Good(sk, f) /\ WithinData(sk)
  BY DEF SenderInv
<1> HIDE DEF f
<1>2. /\ sk.packets_out \in Nat /\ sk.lost_out \in Nat /\ sk.retrans_out \in Nat
      /\ sk.sacked_out \in Nat /\ sk.sacked_out + sk.lost_out <= sk.packets_out
  BY <1>1, GoodCounts
<1>3. /\ sk \in Sockets /\ sk.rtx \in Seq(Skb) /\ Counted(sk) /\ sk.una \in Nat
      /\ sk.una <= sk.nxt /\ sk.nxt <= sk.wseq
  BY <1>1, GoodFacts
<1>4. SenderTypeOK
  BY <1>1, <1>2, <1>3, SocketFields DEF SenderTypeOK, States, Pendings, WithinData
<1>5. /\ Sums(sk.rtx, "out", sk.packets_out) /\ Sums(sk.rtx, "lost", sk.lost_out)
      /\ Sums(sk.rtx, "retrans", sk.retrans_out) /\ Sums(sk.rtx, "sacked", sk.sacked_out)
  BY <1>3 DEF Counted, Counter, Marks
<1>6. sk.packets_out = Count(LAMBDA b : TRUE)
  BY <1>3, <1>5, CountOut
<1>7. sk.lost_out = Count(LAMBDA b : b.lost)
  BY <1>3, <1>5, CountLost
<1>8. sk.retrans_out = Count(LAMBDA b : b.retrans)
  BY <1>3, <1>5, CountRetrans
<1>9. sk.sacked_out = Count(LAMBDA b : b.acked)
  BY <1>3, <1>5, CountSacked
<1> QED BY <1>2, <1>4, <1>6, <1>7, <1>8, <1>9 DEF CountersMatch

\* The hint, the assertions and the timer.
LEMMA HintAndTimer ==
  ASSUME SenderInv(sk)
  PROVE  HintSkipsNothing /\ NoBug /\ NeverStranded
<1> DEFINE f == sk.state = "FIN_WAIT1"
<1>1. Good(sk, f) /\ Armed(sk)
  BY DEF SenderInv
<1> HIDE DEF f
<1>2. HintOK(sk) /\ sk.bug = FALSE
  BY <1>1, GoodFacts
<1>3. sk.packets_out \in Nat /\ (sk.packets_out = 0 <=> sk.rtx = <<>>)
  BY <1>1, GoodCounts
<1>4. HintSkipsNothing
  BY <1>2 DEF HintOK, Settled, Waits, HintSkipsNothing
<1>5. NoBug
  BY <1>2 DEF NoBug, AssertionsHold
<1>6. sk.packets_out > 0 => sk.rtx # <<>>
  BY <1>3
<1>7. NeverStranded
  BY <1>1, <1>3, <1>6 DEF Armed, PreArmed, Timers, NeverStranded
<1> QED BY <1>4, <1>5, <1>7

\* However buffers are cut, trimmed, joined, probed with or moved, the queues
\* hold every byte from the first unacknowledged to the last written one once,
\* as long as no trim has failed.
THEOREM QueuesAlwaysCover == SenderSpec => [](~untrimmed => QueuesCover)
<1>1. SenderSound => (~untrimmed => QueuesCover)
  BY Covered DEF SenderSound
<1> QED BY <1>1, SenderInvariance, PTL

\* The counters of tcp_packets_in_flight are what the retransmit queue adds up
\* to: no order of calls leaks a packet unless a trim has failed at an ACK.
THEOREM CountersAlwaysMatch == SenderSpec => []CountersMatch
<1>1. SenderSound => CountersMatch
  BY CountersAdd DEF SenderSound, CountersMatch
<1> QED BY <1>1, SenderInvariance, PTL

\* retransmit_skb_hint is a buffer of the queue and skips none that waits, as
\* long as no trim has failed.
THEOREM HintNeverSkips == SenderSpec => [](~untrimmed => HintSkipsNothing)
<1>1. SenderSound => (~untrimmed => HintSkipsNothing)
  BY HintAndTimer DEF SenderSound
<1> QED BY <1>1, SenderInvariance, PTL

\* A BUG_ON or WARN_ON of the sending paths is reached only after a trim has
\* failed at an ACK.
THEOREM SenderNeverBugs == SenderSpec => []NoBug
<1>1. SenderSound => NoBug
  BY HintAndTimer DEF SenderSound, NoBug
<1> QED BY <1>1, SenderInvariance, PTL

\* Between two calls a timer is armed whenever anything waits, unless a trim
\* has failed at an ACK.
THEOREM TimerAlwaysArmed == SenderSpec => []NeverStranded
<1>1. SenderSound => NeverStranded
  BY HintAndTimer DEF SenderSound, NeverStranded
<1> QED BY <1>1, SenderInvariance, PTL

\* What a call sends, new or again, when the call keeps the invariant.
LEMMA InWindow ==
  ASSUME SenderInv(sk), [SenderNext]_senderVars, ~untrimmed'
  PROVE  /\ sk'.nxt > sk.nxt /\ sk.state # "CLOSE"
              => sk'.nxt - Bit(Last(sk'.rtx).fin) <= Max({WndEnd(sk'), sk.nxt})
         /\ \A seg \in sk'.tx :
              seg.end <= sk.nxt /\ seg.seq > sk'.una
                => seg.end - Bit(seg.fin) <= WndEnd(sk')
<1> DEFINE t == sk'
           n == sk.nxt
           f == t.state = "FIN_WAIT1"
           z == Last(t.rtx).fin
           y == Bit(z)
           w == t.una + t.wnd
           m == t.nxt
<1>1. SenderInv(t) /\ (sk.state # "CLOSE" => NewIn(n, t))
  BY SenderStep DEF SafeStep
<1>2. Good(t, f) /\ Good(sk, sk.state = "FIN_WAIT1")
  BY <1>1 DEF SenderInv
<1>3. WndEnd(t) = w /\ Last(t.rtx) = t.rtx[Len(t.rtx)]
  BY DEF WndEnd, Last
<1>4. \A seg \in t.tx : seg.seq > t.una => seg.end - Bit(seg.fin) <= WndEnd(t)
  <2>1. TxIn(t)
    BY <1>2 DEF Good, GoodAt
  <2> QED BY <1>3, <2>1 DEF TxIn, SegIn
<1>5. ASSUME m > n, sk.state # "CLOSE" PROVE m - y <= Max({WndEnd(t), n})
  <2>1. NewIn(n, t)
    BY <1>1, <1>5
  <2>2. m = n \/ m - y <= w \/ m - y = n
    BY <1>3, <2>1 DEF NewIn, LastFits
  <2>3. n \in Int
    BY <1>2, SocketFields DEF Good, GoodAt
  <2>4. m \in Int /\ w \in Int
    <3>1. t.una \in Nat /\ t.wnd \in Nat /\ t.nxt \in Nat
      BY <1>2, SocketFields DEF Good, GoodAt
    <3> QED BY <3>1
  <2>5. y \in {0, 1}
    BY DEF Bit
  <2>6. m > n
    BY <1>5
  <2> HIDE DEF m, n, w, y, t
  <2>7. Max({w, n}) = IF w >= n THEN w ELSE n
    BY ONLY <2>3, <2>4, MinPair
  <2>8. m - y <= Max({w, n})
    BY <2>2, <2>3, <2>4, <2>5, <2>6, <2>7
  <2> QED BY <1>3, <2>8
<1> QED BY <1>4, <1>5

\* New data stays inside the window of the peer on every path that sends it, and
\* what is sent again stays inside it too, but for the window probe, in every
\* behaviour in which no trim fails.
THEOREM SentStaysInWindow == SenderSpec /\ []~untrimmed => SentInWindow
<1> DEFINE Fits == /\ sk'.nxt > sk.nxt /\ sk.state # "CLOSE"
                        => sk'.nxt - Bit(Last(sk'.rtx).fin) <= Max({WndEnd(sk'), sk.nxt})
                   /\ \A seg \in sk'.tx :
                        seg.end <= sk.nxt /\ seg.seq > sk'.una
                          => seg.end - Bit(seg.fin) <= WndEnd(sk')
<1>1. SenderSound /\ ~untrimmed /\ (~untrimmed)' /\ [SenderNext]_senderVars => [Fits]_sk
  BY InWindow DEF SenderSound
<1>2. SenderSpec => []SenderSound
  BY SenderInvariance
<1> QED BY <1>1, <1>2, PTL DEF SenderSpec, SentInWindow

-----------------------------------------------------------------------------
(* The connection implements the stream *)

\* What the peer has in order ends at the first byte it does not have.
LEMMA RcvNxtIs ==
  ASSUME NEW B, NEW w \in Nat, w <= MaxData + 2, \A b \in B : b < w
  PROVE  /\ RcvNxt(B) \in Nat /\ RcvNxt(B) <= w
         /\ RcvNxt(B) \notin B /\ 0 .. RcvNxt(B) - 1 \subseteq B
<1> DEFINE U == {n \in Nat : n \notin B}
           P(n) == n \notin B /\ 0 .. n - 1 \subseteq B
<1>1. MaxData \in Nat
  BY SenderAssumption
<1>2. w \in U
  OBVIOUS
<1>3. PICK k \in U : \A j \in U : k <= j
  <2>1. U \in SUBSET Nat /\ U # {}
    BY <1>2
  <2> QED BY <2>1, LeastNat
<1>4. k \in 0 .. MaxData + 2 /\ k <= w
  BY <1>1, <1>2, <1>3
<1>5. P(k)
  <2>1. ASSUME NEW j \in 0 .. k - 1 PROVE j \in B
    BY <1>3, <1>4, <2>1
  <2> QED BY <1>3, <2>1
<1> DEFINE r == CHOOSE n \in 0 .. MaxData + 2 : P(n)
<1>6. r \in 0 .. MaxData + 2 /\ P(r)
  BY <1>4, <1>5
<1>7. RcvNxt(B) = r
  BY DEF RcvNxt
<1> HIDE DEF r
<1>8. r \in Nat /\ r <= w
  <2>1. r \in Nat
    BY <1>1, <1>6
  <2>2. CASE r > w
    <3>1. w \in 0 .. r - 1
      BY <2>1, <2>2
    <3> QED BY <1>2, <1>6, <3>1
  <2> QED BY <2>1, <2>2
<1> QED BY <1>6, <1>7, <1>8

\* It never takes back what it has.
LEMMA RcvNxtGrows ==
  ASSUME NEW B, NEW C, B \subseteq C, NEW w \in Nat, w <= MaxData + 2, \A b \in C : b < w
  PROVE  RcvNxt(B) <= RcvNxt(C)
<1> DEFINE m == RcvNxt(B)
           n == RcvNxt(C)
<1>1. m \in Nat /\ 0 .. m - 1 \subseteq B
  <2>1. \A b \in B : b < w
    OBVIOUS
  <2> QED BY <2>1, RcvNxtIs
<1>2. n \in Nat /\ n \notin C
  BY RcvNxtIs
<1> HIDE DEF m, n
<1>3. ~(n < m)
  <2>1. ASSUME n < m PROVE n \in 0 .. m - 1
    BY <1>1, <1>2, <2>1
  <2> QED BY <1>1, <1>2, <2>1
<1>4. m <= n
  BY ONLY <1>1, <1>2, <1>3
<1> QED BY <1>4 DEF m, n

\* What is on its way, and what the peer has, is within what was written; what
\* is acknowledged, or on its way back, the peer has in order.
WithinWritten == \A g \in net : g.seq \in Int /\ g.end \in Int /\ g.end <= sk.wseq

GotWritten == \A b \in got : b \in Int /\ b < sk.wseq

AcksArrived == \A a \in acks : a.ack \in Nat /\ a.ack <= RcvNxt(got) /\ a.wnd \in Nat

ConnInv ==
    /\ SenderInv(sk)
    /\ WithinWritten
    /\ GotWritten
    /\ AcksArrived
    /\ rwnd \in Nat
    /\ sk.una <= RcvNxt(got)

\* The types of what the stream is about.
LEMMA StreamTypes ==
  ASSUME NEW s, SenderInv(s), NEW B, \A b \in B : b \in Int /\ b < s.wseq
  PROVE  /\ s.una \in Nat /\ s.nxt \in Nat /\ s.wseq \in Nat /\ s.wseq <= MaxData + 2
         /\ RcvNxt(B) \in Nat /\ RcvNxt(B) <= s.wseq
<1>1. s \in Sockets /\ s.wseq <= MaxData + 2
  BY DEF SenderInv, Good, GoodAt, WithinData
<1>2. s.una \in Nat /\ s.nxt \in Nat /\ s.wseq \in Nat
  BY <1>1, SocketFields
<1>3. RcvNxt(B) \in Nat /\ RcvNxt(B) <= s.wseq
  BY <1>1, <1>2, RcvNxtIs
<1> QED BY <1>1, <1>2, <1>3

\* A call of the sender: it writes, or it takes an acknowledgement.
LEMMA SenderSide ==
  ASSUME ConnInv, NEW u \in Nat, NEW e \in Nat, NEW n, Moved(n, sk', u, e),
         net' = net \cup sk'.tx, got' = got, rwnd' = rwnd, acks' \subseteq acks,
         \/ u = sk.una /\ e >= sk.wseq
         \/ e = sk.wseq /\ u >= sk.una /\ u <= RcvNxt(got)
  PROVE  ConnInv' /\ [Stream!StreamNext]_(Stream!stream)
<1>1. /\ SenderInv(sk) /\ WithinWritten /\ GotWritten /\ AcksArrived /\ rwnd \in Nat
      /\ sk.una <= RcvNxt(got)
  BY DEF ConnInv
<1>2. SenderInv(sk') /\ sk'.una = u /\ sk'.wseq = e
  BY DEF Moved
<1>3. sk.una \in Nat /\ sk.wseq \in Nat /\ RcvNxt(got) \in Nat
  BY <1>1, StreamTypes DEF GotWritten
<1>4. e >= sk.wseq /\ u <= RcvNxt(got)
  BY <1>1, <1>3
<1>5. WithinWritten'
  <2>1. sk'.tx \in TxSets /\ \A g \in sk'.tx : g.end <= sk'.wseq
    BY <1>2, SocketFields DEF SenderInv, Good, GoodAt, TxIn, SegIn
  <2>2. \A g \in sk'.tx : g.seq \in Int /\ g.end \in Int
    BY <2>1 DEF TxSets
  <2>3. ASSUME NEW g \in net PROVE g.seq \in Int /\ g.end \in Int /\ g.end <= e
    <3>1. g.seq \in Int /\ g.end \in Int /\ g.end <= sk.wseq
      BY <1>1 DEF WithinWritten
    <3> QED BY <1>3, <1>4, <3>1
  <2> QED BY <1>2, <2>1, <2>2, <2>3 DEF WithinWritten
<1>6. GotWritten'
  <2>1. ASSUME NEW b \in got PROVE b \in Int /\ b < e
    <3>1. b \in Int /\ b < sk.wseq
      BY <1>1 DEF GotWritten
    <3> QED BY <1>3, <1>4, <3>1
  <2> QED BY <1>2, <2>1 DEF GotWritten
<1>7. AcksArrived'
  BY <1>1 DEF AcksArrived
<1>8. ConnInv'
  BY <1>1, <1>2, <1>4, <1>5, <1>6, <1>7 DEF ConnInv
<1>9. [Stream!StreamNext]_(Stream!stream)
  <2>1. RcvNxt(got)' = RcvNxt(got)
    OBVIOUS
  <2>2. CASE u = sk.una /\ e = sk.wseq
    BY <1>2, <2>1, <2>2 DEF Stream!stream
  <2>3. CASE u = sk.una /\ e > sk.wseq
    BY <1>2, <2>1, <2>3 DEF Stream!StreamNext, Stream!Accept
  <2>4. CASE e = sk.wseq /\ u > sk.una /\ u <= RcvNxt(got)
    BY <1>2, <1>3, <2>1, <2>4 DEF Stream!StreamNext, Stream!Acknowledge
  <2> QED BY <1>3, <2>2, <2>3, <2>4
<1> QED BY <1>8, <1>9

\* A step of the network or the peer.
LEMMA PeerSide ==
  ASSUME ConnInv, sk' = sk, net' \subseteq net, got \subseteq got',
         \A b \in got' : b \in Int /\ b < sk.wseq,
         rwnd' \in Nat,
         \A a \in acks' : a \in acks \/ (a.ack = RcvNxt(got') /\ a.wnd \in Nat)
  PROVE  ConnInv' /\ [Stream!StreamNext]_(Stream!stream)
<1>1. /\ SenderInv(sk) /\ WithinWritten /\ GotWritten /\ AcksArrived
      /\ sk.una <= RcvNxt(got)
  BY DEF ConnInv
<1>2. sk.una \in Nat /\ sk.wseq \in Nat /\ RcvNxt(got) \in Nat /\ sk.wseq <= MaxData + 2
  BY <1>1, StreamTypes DEF GotWritten
<1>3. RcvNxt(got') \in Nat /\ RcvNxt(got') <= sk.wseq
  BY <1>1, StreamTypes
<1>4. RcvNxt(got) <= RcvNxt(got')
  BY <1>2, RcvNxtGrows
<1>5. AcksArrived'
  <2>1. ASSUME NEW a \in acks' PROVE a.ack \in Nat /\ a.ack <= RcvNxt(got') /\ a.wnd \in Nat
    <3>1. CASE a \in acks
      <4>1. a.ack \in Nat /\ a.ack <= RcvNxt(got) /\ a.wnd \in Nat
        BY <1>1, <3>1 DEF AcksArrived
      <4> QED BY <1>2, <1>3, <1>4, <4>1
    <3>2. CASE a.ack = RcvNxt(got') /\ a.wnd \in Nat
      BY <1>3, <3>2
    <3> QED BY <2>1, <3>1, <3>2
  <2> QED BY <2>1 DEF AcksArrived
<1>6. WithinWritten' /\ GotWritten'
  BY <1>1 DEF WithinWritten, GotWritten
<1>7. SenderInv(sk)' /\ sk'.una <= RcvNxt(got')
  BY <1>1, <1>2, <1>3, <1>4
<1>8. ConnInv'
  BY <1>5, <1>6, <1>7 DEF ConnInv
<1>9. [Stream!StreamNext]_(Stream!stream)
  <2>1. CASE RcvNxt(got') = RcvNxt(got)
    BY <2>1 DEF Stream!stream
  <2>2. CASE RcvNxt(got') > RcvNxt(got)
    <3>1. RcvNxt(got) < sk.wseq
      BY <1>2, <1>3, <2>2
    <3> QED BY <1>3, <2>2, <3>1 DEF Stream!StreamNext, Stream!Deliver
  <2> QED BY <1>2, <1>3, <1>4, <2>1, <2>2
<1> QED BY <1>8, <1>9

\* An acknowledgement that is taken is not below what is acknowledged already.
LEMMA AckInRange ==
  ASSUME SenderInv(sk), NEW ack, NEW wnd, NEW cwnd, NEW env,
         RecvAck(ack, wnd, cwnd, TRUE, env) \/ RecvSynAck(ack, wnd, cwnd, env)
  PROVE  ack \in sk.una .. sk.nxt
<1>1. sk.una \in Nat /\ sk.nxt \in Nat
  BY SocketFields DEF SenderInv, Good, GoodAt
<1>2. CASE RecvAck(ack, wnd, cwnd, TRUE, env)
  BY <1>2 DEF RecvAck
<1>3. CASE RecvSynAck(ack, wnd, cwnd, env)
  <2>1. sk.state = "SYN_SENT" /\ ack \in 1 .. sk.nxt
    BY <1>3 DEF RecvSynAck
  <2>2. sk.una = 0
    BY <2>1 DEF SenderInv, Phase
  <2> QED BY <1>1, <2>1, <2>2
<1> QED BY <1>2, <1>3

\* The connection is opened.
LEMMA OpenConn ==
  ASSUME ConnInv, Open
  PROVE  ConnInv' /\ [Stream!StreamNext]_(Stream!stream)
<1>1. SenderInv(sk)
  BY DEF ConnInv
<1>2. Connect(-1, TRUE) /\ net' = net \cup sk'.tx /\ got' = got /\ rwnd' = rwnd /\ acks' = acks
  BY DEF Open, Sent
<1>3. sk.wseq = 0
  BY <1>2 DEF Connect
<1>4. Moved(1, sk', 0, 1)
  <2> DEFINE m == -1
  <2>1. m \in FastOpenSizes \cup {-1} /\ TRUE \in BOOLEAN
    OBVIOUS
  <2> QED BY <1>1, <1>2, <2>1, ConnectStep
<1>5. sk.una = 0
  <2>1. Blank(Fresh(sk)) /\ sk.state = "CLOSE"
    BY <1>1, <1>2, <1>3, BlankIs DEF Connect
  <2>2. sk \in Sockets
    BY <1>1 DEF SenderInv, Good, GoodAt
  <2> QED BY <2>1, <2>2 DEF Blank, Fresh, Sockets
<1>6. 1 >= sk.wseq /\ 0 \in Nat /\ 1 \in Nat
  BY <1>3
<1> QED BY <1>2, <1>4, <1>5, <1>6, SenderSide

\* The application writes, uncorks or closes.
LEMMA AppConn ==
  ASSUME ConnInv, NEW env \in Env, AppCall(env)
  PROVE  ConnInv' /\ [Stream!StreamNext]_(Stream!stream)
<1>1. SenderInv(sk) /\ sk.una \in Nat /\ sk.wseq \in Nat
  BY StreamTypes DEF ConnInv, GotWritten
<1>2. /\ Application(env) /\ net' = net \cup sk'.tx /\ got' = got /\ rwnd' = rwnd
      /\ acks' = acks
  BY DEF AppCall, Sent
<1>3. \E e \in Nat : e >= sk.wseq /\ Moved(sk.nxt, sk', sk.una, e)
  <2>1. ASSUME NEW n \in WriteSizes, Sendmsg(n, env) PROVE Moved(sk.nxt, sk', sk.una, sk.wseq + n)
    BY <1>1, <2>1, SendmsgStep
  <2>2. ASSUME Uncork(env) PROVE Moved(sk.nxt, sk', sk.una, sk.wseq)
    BY <1>1, <2>2, UncorkStep
  <2>3. ASSUME NEW pressure \in BOOLEAN, NEW alloc \in BOOLEAN, SendFin(pressure, alloc, env)
        PROVE  Moved(sk.nxt, sk', sk.una, sk.wseq) \/ Moved(sk.nxt, sk', sk.una, sk.wseq + 1)
    BY <1>1, <2>3, SendFinStep
  <2>4. \A n \in WriteSizes : sk.wseq + n \in Nat /\ sk.wseq + n >= sk.wseq
    BY <1>1, SenderAssumption
  <2>5. sk.wseq + 1 \in Nat /\ sk.wseq + 1 >= sk.wseq /\ sk.wseq >= sk.wseq
    BY <1>1
  <2> QED BY <1>1, <1>2, <2>1, <2>2, <2>3, <2>4, <2>5 DEF Application
<1>4. PICK e \in Nat : e >= sk.wseq /\ Moved(sk.nxt, sk', sk.una, e)
  BY <1>3
<1> QED BY <1>1, <1>2, <1>4, SenderSide

\* A timer of the sender fires.
LEMMA TimerConn ==
  ASSUME ConnInv, NEW env \in Env, Timer(env)
  PROVE  ConnInv' /\ [Stream!StreamNext]_(Stream!stream)
<1>1. SenderInv(sk) /\ sk.una \in Nat /\ sk.wseq \in Nat
  BY StreamTypes DEF ConnInv, GotWritten
<1>2. /\ (\E all \in BOOLEAN : RtoFires(all, env)) \/ LossProbeFires(env) \/ Probe0Fires(env)
      /\ net' = net \cup sk'.tx /\ got' = got /\ rwnd' = rwnd /\ acks' = acks
  BY DEF Timer, Sent
<1>3. Moved(sk.nxt, sk', sk.una, sk.wseq)
  <2>1. ASSUME NEW all \in BOOLEAN, RtoFires(all, env) PROVE Moved(sk.nxt, sk', sk.una, sk.wseq)
    BY <1>1, <2>1, RtoStep
  <2>2. ASSUME LossProbeFires(env) PROVE Moved(sk.nxt, sk', sk.una, sk.wseq)
    BY <1>1, <2>2, LossProbeStep
  <2>3. ASSUME Probe0Fires(env) PROVE Moved(sk.nxt, sk', sk.una, sk.wseq)
    BY <1>1, <2>3, Probe0Step
  <2> QED BY <1>2, <2>1, <2>2, <2>3
<1>4. sk.wseq >= sk.wseq
  BY <1>1
<1> QED BY <1>1, <1>2, <1>3, <1>4, SenderSide

\* An acknowledgement arrives, new or old.
LEMMA AckConn ==
  ASSUME ConnInv, NEW env \in Env, NEW a \in acks, TakeAck(a, env)
  PROVE  ConnInv' /\ [Stream!StreamNext]_(Stream!stream)
<1>1. SenderInv(sk) /\ sk.una \in Nat /\ sk.nxt \in Nat /\ sk.wseq \in Nat
  BY StreamTypes DEF ConnInv, GotWritten
<1>2. a.ack \in Nat /\ a.ack <= RcvNxt(got) /\ a.wnd \in Nat
  BY DEF ConnInv, AcksArrived
<1>3. net' = net \cup sk'.tx /\ got' = got /\ rwnd' = rwnd /\ acks' \subseteq acks
  BY DEF TakeAck, Sent
<1>4. CASE a.ack < sk.una /\ UNCHANGED sk
  <2>1. Moved(sk.nxt, sk', sk.una, sk.wseq) /\ sk.wseq >= sk.wseq
    BY <1>1, <1>4 DEF Moved, NewIn
  <2> QED BY <1>1, <1>3, <2>1, SenderSide
<1>5. ASSUME NEW cwnd \in Cwnds,
             RecvAck(a.ack, a.wnd, cwnd, TRUE, env) \/ RecvSynAck(a.ack, a.wnd, cwnd, env)
      PROVE  ConnInv' /\ [Stream!StreamNext]_(Stream!stream)
  <2>1. a.ack \in sk.una .. sk.nxt
    BY <1>1, <1>5, AckInRange
  <2>2. Moved(sk.nxt, sk', a.ack, sk.wseq)
    <3>1. CASE RecvAck(a.ack, a.wnd, cwnd, TRUE, env)
      BY <1>1, <1>2, <2>1, <3>1, AckStep
    <3>2. CASE RecvSynAck(a.ack, a.wnd, cwnd, env)
      BY <1>1, <1>2, <2>1, <3>2, SynAckStep
    <3> QED BY <1>5, <3>1, <3>2
  <2>3. a.ack >= sk.una
    BY <1>1, <2>1
  <2> QED BY <1>1, <1>2, <1>3, <2>2, <2>3, SenderSide
<1> QED BY <1>4, <1>5 DEF TakeAck

\* A segment arrives at the peer.
LEMMA ArriveConn ==
  ASSUME ConnInv, NEW seg \in net, NEW again \in BOOLEAN, Arrive(seg, again)
  PROVE  ConnInv' /\ [Stream!StreamNext]_(Stream!stream)
<1>1. SenderInv(sk) /\ sk.wseq \in Nat /\ rwnd \in Nat /\ GotWritten
  BY StreamTypes DEF ConnInv, GotWritten
<1>2. seg.seq \in Int /\ seg.end \in Int /\ seg.end <= sk.wseq
  BY DEF ConnInv, WithinWritten
<1>3. /\ got' = got \cup {b \in seg.seq .. seg.end - 1 : b < RcvNxt(got) + rwnd \/ b = 0}
      /\ acks' = acks \cup {[ack |-> RcvNxt(got'), wnd |-> rwnd]}
      /\ net' \subseteq net /\ sk' = sk /\ rwnd' = rwnd
  BY DEF Arrive
<1>4. \A b \in got' : b \in Int /\ b < sk.wseq
  <2>1. ASSUME NEW b \in seg.seq .. seg.end - 1 PROVE b \in Int /\ b < sk.wseq
    BY <1>1, <1>2, <2>1
  <2> QED BY <1>1, <1>3, <2>1 DEF GotWritten
<1>5. \A a \in acks' : a \in acks \/ (a.ack = RcvNxt(got') /\ a.wnd \in Nat)
  BY <1>1, <1>3
<1>6. got \subseteq got' /\ rwnd' \in Nat
  BY <1>1, <1>3
<1> QED BY <1>3, <1>4, <1>5, <1>6, PeerSide

\* Something is lost, or the window of the peer changes.
LEMMA QuietConn ==
  ASSUME ConnInv, Lose \/ CloseWindow \/ OpenWindow
  PROVE  ConnInv' /\ [Stream!StreamNext]_(Stream!stream)
<1>1. Max(Windows) \in Nat
  <2>1. Windows \in SUBSET Nat
    BY SenderAssumption
  <2>2. Max(Windows) \in Windows
    BY <2>1, ConnAssumption, MaxIs
  <2> QED BY <2>1, <2>2
<1>2. sk' = sk /\ got' = got /\ net' \subseteq net /\ rwnd' \in Nat
  <2>1. rwnd \in Nat
    BY DEF ConnInv
  <2> QED BY <1>1, <2>1 DEF Lose, CloseWindow, OpenWindow
<1>3. \A a \in acks' : a \in acks \/ (a.ack = RcvNxt(got') /\ a.wnd \in Nat)
  <2>1. CASE Lose \/ CloseWindow
    BY <2>1 DEF Lose, CloseWindow
  <2>2. CASE OpenWindow
    <3>1. acks' = acks \cup {[ack |-> RcvNxt(got), wnd |-> rwnd']}
      BY <2>2 DEF OpenWindow
    <3> QED BY <1>2, <3>1
  <2> QED BY <2>1, <2>2
<1>4. \A b \in got' : b \in Int /\ b < sk.wseq
  BY <1>2 DEF ConnInv, GotWritten
<1> QED BY <1>2, <1>3, <1>4, PeerSide

\* Every step of the connection is a step of the stream, or none.
LEMMA ConnStep ==
  ASSUME ConnInv, [ConnNext]_conn
  PROVE  ConnInv' /\ [Stream!StreamNext]_(Stream!stream)
<1>1. CASE Open
  BY <1>1, OpenConn
<1>2. ASSUME NEW env \in Env, AppCall(env) PROVE ConnInv' /\ [Stream!StreamNext]_(Stream!stream)
  BY <1>2, AppConn
<1>3. ASSUME NEW env \in Env, Timer(env) PROVE ConnInv' /\ [Stream!StreamNext]_(Stream!stream)
  BY <1>3, TimerConn
<1>4. ASSUME NEW env \in Env, NEW a \in acks, TakeAck(a, env)
      PROVE  ConnInv' /\ [Stream!StreamNext]_(Stream!stream)
  BY <1>4, AckConn
<1>5. ASSUME NEW seg \in net, NEW again \in BOOLEAN, Arrive(seg, again)
      PROVE  ConnInv' /\ [Stream!StreamNext]_(Stream!stream)
  BY <1>5, ArriveConn
<1>6. CASE Lose \/ CloseWindow \/ OpenWindow
  BY <1>6, QuietConn
<1>7. CASE UNCHANGED conn
  <2>1. sk' = sk /\ net' = net /\ acks' = acks /\ got' = got /\ rwnd' = rwnd
    BY <1>7 DEF conn
  <2>2. ConnInv'
    BY <2>1 DEF ConnInv, WithinWritten, GotWritten, AcksArrived
  <2>3. UNCHANGED Stream!stream
    BY <2>1 DEF Stream!stream
  <2> QED BY <2>2, <2>3
<1> QED BY <1>1, <1>2, <1>3, <1>4, <1>5, <1>6, <1>7 DEF ConnNext

\* A connection starts with an empty stream.
LEMMA ConnStarts ==
  ASSUME ConnInit
  PROVE  ConnInv /\ Stream!StreamInit
<1>1. SenderInv(sk)
  BY SenderStarts DEF ConnInit
<1>2. sk.una = 0 /\ sk.wseq = 0
  BY DEF ConnInit, SenderInit, Closed
<1>3. RcvNxt({}) = 0
  <2>1. RcvNxt({}) \in Nat /\ 0 .. RcvNxt({}) - 1 \subseteq {}
    <3>1. 0 \in Nat /\ 0 <= MaxData + 2 /\ \A b \in {} : b < 0
      BY SenderAssumption
    <3> QED BY <3>1, RcvNxtIs
  <2>2. CASE RcvNxt({}) > 0
    <3>1. 0 \in 0 .. RcvNxt({}) - 1
      BY <2>1, <2>2
    <3> QED BY <2>1, <3>1
  <2> QED BY <2>1, <2>2
<1>4. net = {} /\ acks = {} /\ got = {} /\ rwnd = Max(Windows)
  BY DEF ConnInit
<1>5. rwnd \in Nat
  <2>1. Windows \in SUBSET Nat
    BY SenderAssumption
  <2>2. Max(Windows) \in Windows
    BY <2>1, ConnAssumption, MaxIs
  <2> QED BY <1>4, <2>1, <2>2
<1>6. ConnInv
  BY <1>1, <1>2, <1>3, <1>4, <1>5 DEF ConnInv, WithinWritten, GotWritten, AcksArrived
<1>7. Stream!StreamInit
  BY <1>2, <1>3, <1>4 DEF Stream!StreamInit
<1> QED BY <1>6, <1>7

\* TcpConnection implements SendStream: however the output functions cut, join,
\* repeat and probe, and whatever the network loses, repeats and reorders, the
\* bytes the peer has in order and the bytes acknowledged to the sender only
\* grow, one behind the other, within what was accepted.
THEOREM ConnectionIsStream == ConnSpec => ImplementsStream
<1>1. ConnInit => ConnInv /\ Stream!StreamInit
  BY ConnStarts
<1>2. ConnInv /\ [ConnNext]_conn => ConnInv' /\ [Stream!StreamNext]_(Stream!stream)
  BY ConnStep
<1> QED BY <1>1, <1>2, PTL DEF ConnSpec, ImplementsStream, Stream!StreamSafe
=============================================================================
