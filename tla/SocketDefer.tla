----------------------------- MODULE SocketDefer -----------------------------
(***************************************************************************)
(* Who may run a socket's output code, and when: TCP small queues, pacing, *)
(* the work softirqs leave behind while a process owns the socket, and     *)
(* delayed acknowledgements.                                               *)
(*                                                                         *)
(* The socket is free, held by its spinlock ("spin": a softirq, or         *)
(* release_sock near its end), or owned by a process ("user": the spinlock *)
(* is free, so softirqs get in, see the owner and set a flag).  Transmit   *)
(* completions (tcp_wfree) take no lock at all, so the sending loop is cut *)
(* at every read and write they race with: pc is where its holder stands.  *)
(*                                                                         *)
(* sk_wmem_alloc counts 1 for the socket, Truesize for a buffer below, and *)
(* 1 for a completed buffer whose last unit is not yet given back; the     *)
(* socket's memory goes when it reaches 0.  sk_refcnt counts the file, the *)
(* armed timers and the deferred work.  Times are what is left of them.    *)
(***************************************************************************)
EXTENDS Integers, FiniteSets

CONSTANTS
    Truesize,    \* skb->truesize of a data buffer, in units of wmem
    Limit,       \* Bytes allowed below, in units of wmem
    Writes,      \* Numbers of buffers the application writes at once
    MaxEvents,   \* Buffers written, arrivals, retransmissions and closes in a behaviour
    MaxBacklog,  \* Segments that fit in the backlog
    MaxFails,    \* Acknowledgements that cannot be allocated
    Atos,        \* Delays of an acknowledgement (icsk_ack.ato)
    DelackMin, DelackMax,
    RtoMax       \* TCP_RTO_MAX, the longest time a timer is set to

ASSUME DeferAssumption ==
    /\ Truesize \in Nat /\ Truesize > 3
    /\ Limit \in Nat /\ Limit >= Truesize
    /\ Writes \subseteq Nat \ {0}
    /\ {MaxEvents, MaxBacklog, MaxFails} \subseteq Nat
    /\ Atos \subseteq Nat \ {0}
    /\ DelackMin \in Nat \ {0} /\ DelackMax \in Nat /\ DelackMin <= DelackMax
    /\ RtoMax \in Nat /\ DelackMax <= RtoMax

VARIABLE sk

Deferred == {"tsq", "write", "delack", "mtu", "ack"}

Bit(b) == IF b THEN 1 ELSE 0
MinOf(a, b) == IF a < b THEN a ELSE b
MaxOf(a, b) == IF a > b THEN a ELSE b

-----------------------------------------------------------------------------
(* References *)

Hold(s) == [s EXCEPT !.refs = @ + 1, !.bug = @ \/ s.refs = 0]

\* The last reference gives back the socket's own unit of wmem
Put(s) == [s EXCEPT !.refs = @ - 1, !.wmem = @ - Bit(s.refs = 1)]

\* Slip: a reference for every attempt
DeferSlip(s, work) == Hold([s EXCEPT !.flags = @ \cup {work}])

\* Work for the owner: the first to set the flag takes the reference
Defer(s, work) ==
    IF work \in s.flags THEN s ELSE Hold([s EXCEPT !.flags = @ \cup {work}])

Arm(s, timer) ==
    IF timer \in s.timers THEN s ELSE Hold([s EXCEPT !.timers = @ \cup {timer}])

Disarm(s, timer) ==
    IF timer \in s.timers THEN Put([s EXCEPT !.timers = @ \ {timer}]) ELSE s

-----------------------------------------------------------------------------
(* Acknowledgements *)

DelackTimer(s, left) ==
    [Arm(s, "delack") EXCEPT !.pend = @ \cup {"timer"}, !.ackLeft = left, !.tmrLeft = left]

\* tcp_event_ack_sent: an acknowledgement has gone out, alone or with data (the
\* special ACKs of DCTCP, which do not count as one, are left out)
EventAckSent(s) == [Disarm(s, "compressed") EXCEPT !.pend = {}, !.retry = DelackMax]

\* sk.retry is the delay TCP_DELACK_MAX << icsk_ack.retry stands for
Failed(s) ==
    [s EXCEPT !.fails = @ + 1, !.retry = IF @ < RtoMax THEN 2 * @ ELSE @]

\* Slip: the buffer is not asked for again
SendAckSlip(s, ok) ==
    IF s.state = "CLOSE" THEN s
    ELSE IF ok THEN EventAckSent(s)
    ELSE Failed([s EXCEPT !.pend = @ \cup {"sched"}])

\* A buffer that cannot be had is asked for later, each time twice as late.
\* The two units a pure ACK is charged are left out: its destructor wakes nobody
SendAck(s, ok) ==
    IF s.state = "CLOSE" THEN s
    ELSE IF ok THEN EventAckSent(s)
    ELSE Failed(DelackTimer([s EXCEPT !.pend = @ \cup {"sched"}], MinOf(s.retry, RtoMax)))

\* The delay, bounded by the round trip when one was measured
Ato(ato, rtt) ==
    MinOf(DelackMax, IF ato > DelackMin /\ rtt > 0 THEN MinOf(ato, MaxOf(rtt, DelackMin))
                     ELSE ato)

\* Slip: new data sets the timer anew
SendDelayedAckSlip(s, ato, ok) ==
    IF "timer" \in s.pend /\ s.ackLeft <= ato \div 4 THEN SendAck(s, ok)
    ELSE [DelackTimer(s, ato) EXCEPT !.pend = @ \cup {"sched"}]

SendDelayedAck(s, ato, ok) ==
    IF "timer" \notin s.pend THEN [DelackTimer(s, ato) EXCEPT !.pend = @ \cup {"sched"}]
    ELSE IF s.ackLeft <= ato \div 4 THEN SendAck(s, ok)
    ELSE [DelackTimer(s, MinOf(ato, s.ackLeft)) EXCEPT !.pend = @ \cup {"sched"}]

-----------------------------------------------------------------------------
(* The sending loop *)

Go(s, pc) == [s EXCEPT !.pc = pc]

\* tcp_transmit_skb, which carries an acknowledgement along
Below(s) ==
    [Arm(EventAckSent(s), "write") EXCEPT !.dev = @ + 1, !.wmem = @ + Truesize]

SendNew(s, early) ==
    [Below(s) EXCEPT !.todo = @ - 1, !.rtx = @ + 1, !.early = early]

\* tcp_pacing_check, then the first half of tcp_small_queue_check
XmitStep(early) ==
    LET paced == Arm(sk, "pace")
    IN /\ sk.pc = "xmit"
       /\ sk' = IF sk.todo = 0 THEN Go(sk, "done")
                ELSE IF sk.early THEN Go(paced, "done")
                ELSE IF sk.wmem > Limit /\ sk.rtx > 1 THEN Go(sk, "throttle")
                ELSE SendNew(sk, early)

Throttle ==
    /\ sk.pc = "throttle"
    /\ sk' = Go([sk EXCEPT !.flags = @ \cup {"throttled"}], "recheck")

\* Slip: no second look after the flag
RecheckSlip(early) ==
    /\ sk.pc = "recheck"
    /\ sk' = Go(sk, "done")

\* A completion may have come before the flag was set
Recheck(early) ==
    /\ sk.pc = "recheck"
    /\ sk' = IF sk.wmem > Limit THEN Go(sk, "done") ELSE Go(SendNew(sk, early), "xmit")

\* Completions come in order: the first unacknowledged buffer is still below
\* when no fewer buffers are below than unacknowledged
HostBusy == sk.dev >= sk.rtx

\* The retransmission timer's handler resends the first buffer unless its
\* clone is still below (skb_still_in_host_queue)
Resend(to) ==
    IF sk.rtx = 0 \/ sk.state = "CLOSE" THEN Go(sk, "done")
    ELSE IF HostBusy THEN Go(IF to = "done" THEN Arm(sk, "write") ELSE sk, to)
    ELSE IF sk.events = MaxEvents THEN Go(sk, "done")
    ELSE Go([Below(sk) EXCEPT !.events = @ + 1], "done")

ResendStep ==
    \/ sk.pc = "resend" /\ sk' = Resend("host")
    \/ sk.pc = "host" /\ sk' = Go([sk EXCEPT !.flags = @ \cup {"throttled"}], "rehost")
    \/ sk.pc = "rehost" /\ sk' = Resend("done")

\* The order in which tcp_release_cb does what was left to the owner
JobOrder == <<"tsq", "write", "delack", "mtu", "ack">>

FirstJob(jobs) ==
    JobOrder[CHOOSE i \in 1 .. 5 : /\ JobOrder[i] \in jobs
                                   /\ \A j \in 1 .. i - 1 : JobOrder[j] \notin jobs]

\* The handler is through: the lock goes, and with it what kept the socket
Finish ==
    LET idle == Go(sk, "idle")
        free == [idle EXCEPT !.lock = "free"]
    IN /\ sk.pc = "done"
       /\ sk' = CASE sk.ctx = "user" -> idle
                  [] sk.ctx = "release" -> Put([idle EXCEPT !.jobs = @ \ {FirstJob(@)}])
                  [] sk.ctx = "tasklet" -> [free EXCEPT !.running = @ - 1, !.wmem = @ - 1]
                  [] sk.ctx = "timer" -> Put(free)
                  [] sk.ctx = "rcv" -> free

-----------------------------------------------------------------------------
(* Transmit completion and the tasklet *)

\* tcp_wfree, up to its look at the flags
Complete ==
    /\ sk.dev > 0
    /\ sk' = [sk EXCEPT !.dev = @ - 1, !.freeing = @ + 1, !.wmem = @ - (Truesize - 1)]

\* Slip: the unit of wmem that keeps the socket is given back
WfreeStepSlip(stress) ==
    LET queue == "throttled" \in sk.flags /\ "queued" \notin sk.flags
    IN /\ sk.freeing > 0
       /\ sk' = [sk EXCEPT !.freeing = @ - 1, !.wmem = @ - 1,
                           !.flags = IF queue THEN (@ \ {"throttled"}) \cup {"queued"}
                                     ELSE @,
                           !.listed = @ \/ queue]

\* and the rest of it.  Under stress it leaves the wakeup to a later one.
WfreeStep(stress) ==
    LET skips == stress /\ sk.wmem >= Truesize
        s     == [sk EXCEPT !.freeing = @ - 1]
    IN /\ sk.freeing > 0
       /\ sk' = IF skips \/ "throttled" \notin sk.flags \/ "queued" \in sk.flags
                THEN [s EXCEPT !.wmem = @ - 1]
                ELSE [s EXCEPT !.flags = (@ \ {"throttled"}) \cup {"queued"},
                               !.listed = TRUE]

\* tcp_tasklet_func: the socket leaves the list and may be queued again
TaskletTake ==
    /\ sk.listed
    /\ sk' = [sk EXCEPT !.listed = FALSE, !.flags = @ \ {"queued"}, !.running = @ + 1]

\* The loop runs here when no process owns the socket (tcp_tsq_handler)
Enter(s, ctx, pc) == [s EXCEPT !.lock = "spin", !.ctx = ctx, !.pc = pc]

TsqPc(s) == IF s.state = "CLOSE" THEN "done" ELSE "xmit"

TaskletRun ==
    /\ sk.running > 0 /\ sk.lock # "spin"
    /\ sk' = IF sk.lock = "free" THEN Enter(sk, "tasklet", TsqPc(sk))
             ELSE [Defer(sk, "tsq") EXCEPT !.running = @ - 1, !.wmem = @ - 1]

-----------------------------------------------------------------------------
(* Timers *)

Fired(timer) == [sk EXCEPT !.timers = @ \ {timer}]

\* Slip: the next departure time is not reached
PaceKickSlip ==
    /\ "pace" \in sk.timers /\ sk.lock # "spin"
    /\ sk' = IF sk.lock = "free" THEN Enter(Fired("pace"), "timer", TsqPc(sk))
             ELSE Put(Defer(Fired("pace"), "tsq"))

\* tcp_pace_kick: the time the next buffer was waiting for has come
PaceKick ==
    LET s == [Fired("pace") EXCEPT !.early = FALSE]
    IN /\ "pace" \in sk.timers /\ sk.lock # "spin"
       /\ sk' = IF sk.lock = "free" THEN Enter(s, "timer", TsqPc(sk))
                ELSE Put(Defer(s, "tsq"))

WriteTimer ==
    /\ "write" \in sk.timers /\ sk.lock # "spin"
    /\ sk' = IF sk.lock = "free" THEN Enter(Fired("write"), "timer", "resend")
             ELSE Put(Defer(Fired("write"), "write"))

\* tcp_delack_timer_handler, which also serves a compressed acknowledgement
\* whose timer found the socket owned
DelackHandler(s, ok) ==
    IF s.state = "CLOSE" THEN s
    ELSE IF "compressed" \in s.pend THEN SendAck(s, ok)
    ELSE IF "timer" \notin s.pend THEN s
    ELSE IF s.ackLeft > 0 THEN [Arm(s, "delack") EXCEPT !.tmrLeft = s.ackLeft]
    ELSE LET t == [s EXCEPT !.pend = @ \ {"timer"}]
         IN IF "sched" \in t.pend THEN SendAck(t, ok) ELSE t

DelackFires(ok) ==
    /\ "delack" \in sk.timers /\ sk.tmrLeft = 0 /\ sk.lock # "spin"
    /\ sk' = IF sk.lock = "free" THEN Put(DelackHandler(Fired("delack"), ok))
             ELSE Put(Defer(Fired("delack"), "delack"))

\* tcp_compressed_ack_kick
CompressedFires(ok) ==
    LET s == Fired("compressed")
    IN /\ "compressed" \in sk.timers /\ sk.lock # "spin"
       /\ sk' = IF sk.lock = "user" THEN Put(Defer(s, "delack"))
                ELSE Put(IF "compressed" \in s.pend THEN SendAck(s, ok) ELSE s)

Tick ==
    /\ sk.ackLeft > 0 \/ sk.tmrLeft > 0
    /\ sk' = [sk EXCEPT !.ackLeft = MaxOf(@ - 1, 0), !.tmrLeft = MaxOf(@ - 1, 0)]

-----------------------------------------------------------------------------
(* Packets *)

\* Data: an acknowledgement at once, delayed or compressed.  From the backlog,
\* at once means when the owner lets go, by a flag without a reference.
Data(s, how, ato, ok) ==
    LET t == [s EXCEPT !.pend = @ \cup {"sched"}]
    IN IF s.state = "CLOSE" THEN s
       ELSE CASE how = "now" /\ s.lock = "user" -> [t EXCEPT !.flags = @ \cup {"ack"}]
              [] how = "now" /\ s.lock # "user" -> SendAck(t, ok)
              [] how = "delay" -> SendDelayedAck(t, ato, ok)
              [] how = "compress" -> Arm([t EXCEPT !.pend = @ \cup {"compressed"}],
                                         "compressed")

\* tcp_v4_rcv: to the socket, or to the backlog of its owner, where it joins
\* the last segment, waits for itself, or is dropped when there is no room
RcvData(how, ato, joins, ok) ==
    LET s == [sk EXCEPT !.events = @ + 1]
    IN /\ sk.refs > 0 /\ sk.lock # "spin" /\ sk.events < MaxEvents
       /\ sk' = IF sk.lock = "free" THEN Data(s, how, ato, ok)
                ELSE IF (joins /\ sk.backlog > 0) \/ sk.backlog = MaxBacklog THEN s
                ELSE [s EXCEPT !.backlog = @ + 1]

RcvAck ==
    /\ sk.lock = "free" /\ sk.rtx > 0
    /\ sk' = LET left == [sk EXCEPT !.rtx = @ - 1]
             IN Enter(IF left.rtx = 0 THEN Disarm(left, "write") ELSE left, "rcv", "xmit")

\* tcp_v4_err, fragmentation needed
RcvFragNeeded ==
    LET s == [sk EXCEPT !.events = @ + 1]
    IN /\ sk.refs > 0 /\ sk.lock # "spin" /\ sk.state # "CLOSE" /\ sk.events < MaxEvents
       /\ sk' = IF sk.lock = "free" THEN s ELSE Defer(s, "mtu")

-----------------------------------------------------------------------------
(* The process *)

UserWrite(n) ==
    /\ sk.lock = "free" /\ sk.state # "CLOSE" /\ sk.events + n <= MaxEvents
    /\ sk' = [sk EXCEPT !.lock = "user", !.ctx = "user", !.pc = "xmit",
                        !.todo = @ + n, !.events = @ + n]

\* tcp_close, cut short: the queues are purged and the timers stopped
UserClose ==
    LET stopped == Disarm(Disarm(Disarm(Disarm(sk, "pace"), "write"), "delack"),
                          "compressed")
    IN /\ sk.lock = "free" /\ sk.state # "CLOSE" /\ sk.events < MaxEvents
       /\ sk' = [stopped EXCEPT !.state = "CLOSE", !.lock = "user", !.ctx = "user",
                                !.todo = 0, !.rtx = 0, !.early = FALSE, !.pend = {},
                                !.events = @ + 1]

\* release_sock: the backlog first, which may grow meanwhile
Backlog(how, ato, ok) ==
    /\ sk.lock = "user" /\ sk.pc = "idle" /\ sk.backlog > 0
    /\ sk' = Data([sk EXCEPT !.backlog = @ - 1], how, ato, ok)

\* then tcp_release_cb, under the spinlock, which takes all flags at once
Release ==
    /\ sk.lock = "user" /\ sk.pc = "idle" /\ sk.backlog = 0
    /\ sk' = [sk EXCEPT !.lock = "spin", !.ctx = "release",
                        !.jobs = sk.flags \cap Deferred, !.flags = @ \ Deferred]

\* and does them in turn, each reference put when its work is done
ReleaseJob(ok) ==
    LET job == FirstJob(sk.jobs)
        s   == [sk EXCEPT !.jobs = @ \ {job}]
    IN /\ sk.ctx = "release" /\ sk.lock = "spin" /\ sk.pc = "idle" /\ sk.jobs # {}
       /\ sk' = CASE job = "tsq" -> Go(sk, TsqPc(sk))
                  [] job = "write" -> Go(sk, "resend")
                  [] job = "delack" -> Put(DelackHandler(s, ok))
                  [] job = "mtu" -> Put(s)
                  [] job = "ack" -> IF "sched" \in s.pend THEN SendAck(s, ok) ELSE s

\* A closed socket loses the reference of its file
Unlock ==
    LET s == [sk EXCEPT !.lock = "free"]
    IN /\ sk.ctx = "release" /\ sk.lock = "spin" /\ sk.pc = "idle" /\ sk.jobs = {}
       /\ sk' = IF sk.state = "CLOSE" THEN Put(s) ELSE s

-----------------------------------------------------------------------------

DeferInit ==
    sk = [state |-> "ESTABLISHED", lock |-> "free", ctx |-> "rcv", pc |-> "idle",
          jobs |-> {}, flags |-> {}, refs |-> 1, wmem |-> 1, dev |-> 0, freeing |-> 0,
          listed |-> FALSE, running |-> 0, todo |-> 0, rtx |-> 0, timers |-> {},
          early |-> FALSE, pend |-> {}, ackLeft |-> 0, tmrLeft |-> 0, backlog |-> 0,
          retry |-> DelackMax, events |-> 0, fails |-> 0, bug |-> FALSE]

\* Whether a buffer for an acknowledgement can be had
Allocated == {TRUE, sk.fails = MaxFails}

Delays == {Ato(ato, rtt) : ato \in Atos, rtt \in 0 .. DelackMax}

\* What the holder of the lock does next
HolderStep ==
    \/ \E early \in BOOLEAN : XmitStep(early) \/ Recheck(early)
    \/ Throttle
    \/ ResendStep
    \/ Finish
    \/ \E ok \in Allocated :
         ReleaseJob(ok) \/ \E how \in {"now", "delay", "compress"}, ato \in Delays : Backlog(how, ato, ok)
    \/ Release
    \/ Unlock

CompletionStep == \E stress \in BOOLEAN : WfreeStep(stress)

Arrival ==
    \/ \E how \in {"now", "delay", "compress"}, ato \in Delays, joins \in BOOLEAN,
          ok \in Allocated : RcvData(how, ato, joins, ok)
    \/ RcvAck
    \/ RcvFragNeeded

\* What runs without the lock: devices complete what they were given, the
\* tasklet is scheduled and time passes
Unlocked == Complete \/ CompletionStep \/ TaskletTake \/ Tick

\* What waits for the lock: the tasklet and the timers
Softirq ==
    \/ TaskletRun
    \/ PaceKick
    \/ \E ok \in Allocated : DelackFires(ok) \/ CompressedFires(ok)

DeferNext ==
    \/ HolderStep
    \/ Unlocked
    \/ Softirq
    \/ WriteTimer
    \/ Arrival
    \/ \E n \in Writes : UserWrite(n)
    \/ UserClose

\* A lock is free again and again, so what waits for it gets it some time.
DeferFairness == WF_sk(HolderStep) /\ WF_sk(Unlocked) /\ SF_sk(Softirq)

DeferSpec == DeferInit /\ [][DeferNext]_sk /\ DeferFairness

-----------------------------------------------------------------------------
(* Properties *)

\* The counters stay in range and the flags are those of tsq_enum.
DeferTypeOK ==
    /\ sk.flags \subseteq Deferred \cup {"throttled", "queued"}
    /\ {sk.refs, sk.wmem, sk.dev, sk.freeing, sk.running, sk.todo, sk.rtx} \subseteq Nat
    /\ sk.pend \subseteq {"sched", "timer", "compressed"}
    /\ {sk.ackLeft, sk.tmrLeft} \subseteq 0 .. RtoMax

\* Every reference has exactly one reason: the file, an armed timer, a timer
\* whose handler runs, or work left to the owner.  Nothing is dropped twice
\* or kept for ever, whichever way the work was deferred.
RefsBalanced ==
    /\ DeferTypeOK
    /\ sk.refs = Bit(sk.state # "CLOSE" \/ sk.lock = "user"
                     \/ (sk.lock = "spin" /\ sk.ctx = "release"))
                 + Cardinality(sk.timers)
                 + Cardinality((sk.flags \cup sk.jobs) \cap (Deferred \ {"ack"}))
                 + Bit(sk.lock = "spin" /\ sk.ctx = "timer")

\* sk_wmem_alloc keeps the memory of the socket for as long as a buffer, a
\* completion, the tasklet's list or a reference may still lead to it, and no
\* longer; a reference is never taken on a socket that has none.
MemoryKept ==
    /\ sk.wmem = Bit(sk.refs > 0) + Truesize * sk.dev + sk.freeing
                 + Bit(sk.listed) + sk.running
    /\ "queued" \in sk.flags <=> sk.listed
    /\ ~sk.bug

\* Whenever the sending loop has stopped with buffers left, something is on
\* its way that starts it again: a completion that will find the throttled
\* flag, the tasklet, work left to the owner, or the pacing timer.
WakeupComing ==
    sk.pc = "idle" /\ sk.todo > 0 =>
        \/ "throttled" \in sk.flags /\ sk.dev + sk.freeing > 0
        \/ sk.listed \/ sk.running > 0
        \/ "tsq" \in sk.flags \cup sk.jobs
        \/ "pace" \in sk.timers

\* Everything written is sent, unless the socket is closed first.
EventuallySent == sk.todo > 0 ~> (sk.todo = 0)

\* An acknowledgement that was scheduled goes out, although its timer may find
\* the socket owned or its buffer cannot be allocated.
EventuallyAcked == "sched" \in sk.pend ~> "sched" \notin sk.pend

\* More data never postpones an acknowledgement that is already waiting for
\* its timer; only a failed allocation does.
NeverPostponed ==
    [][{"sched", "timer"} \subseteq sk.pend /\ "timer" \in sk'.pend /\ sk'.fails = sk.fails
         => sk'.ackLeft <= sk.ackLeft]_sk
=============================================================================
