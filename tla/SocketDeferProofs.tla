-------------------------- MODULE SocketDeferProofs --------------------------
(***************************************************************************)
(* References, memory and wakeups of a socket whose work is left to its    *)
(* owner, to timers and to transmit completions: for any sizes, limits,    *)
(* writes and delays, and any interleaving of the lock's holder with what  *)
(* runs without the lock.                                                  *)
(***************************************************************************)
EXTENDS SocketDefer, FiniteSetTheorems, TLAPS

Timers == {"pace", "write", "delack", "compressed"}
Counted == Deferred \ {"ack"}       \* work that holds a reference
Flags == Deferred \cup {"throttled", "queued"}
Pcs == {"idle", "xmit", "throttle", "recheck", "resend", "host", "rehost", "done"}

Jobs == SUBSET Deferred
FlagSets == SUBSET Flags
TimerSets == SUBSET Timers
Pends == SUBSET {"sched", "timer", "compressed"}
Left == 0 .. RtoMax
States == {"ESTABLISHED", "CLOSE"}
Locks == {"free", "spin", "user"}
Ctxs == {"user", "release", "tasklet", "timer", "rcv"}

Socks ==
    [state : States, lock : Locks, ctx : Ctxs, pc : Pcs, jobs : Jobs, flags : FlagSets,
     refs : Nat, wmem : Nat, dev : Nat, freeing : Nat, listed : BOOLEAN, running : Nat,
     todo : Nat, rtx : Nat, timers : TimerSets, early : BOOLEAN, pend : Pends,
     ackLeft : Left, tmrLeft : Left, backlog : Nat, retry : Nat, events : Nat,
     fails : Nat, bug : BOOLEAN]

\* References beyond those of the armed timers and of the work left behind
Slack(s) == s.refs - Cardinality(s.timers)
            - Cardinality((s.flags \cup s.jobs) \cap Counted)

\* The file's reference, and that of a timer whose handler runs
FileRef(s) == s.state # "CLOSE" \/ s.lock = "user"
              \/ (s.lock = "spin" /\ s.ctx = "release")
TimerRef(s) == s.lock = "spin" /\ s.ctx = "timer"
RefsInv(s) == Slack(s) = Bit(FileRef(s)) + Bit(TimerRef(s))

Units(s) == Bit(s.refs > 0) + Truesize * s.dev + s.freeing + Bit(s.listed) + s.running
MemInv(s) == s.wmem = Units(s) /\ ("queued" \in s.flags <=> s.listed) /\ ~s.bug

\* Who holds the lock stands somewhere in its code, and the work that is being
\* done is no longer flagged.
Sending == {"xmit", "throttle", "recheck", "host", "rehost"}
LockInv(s) ==
    /\ s.lock = "free" => s.pc = "idle"
    /\ s.lock = "user" => s.ctx = "user"
    /\ s.lock = "spin" => s.ctx # "user" /\ (s.ctx # "release" => s.pc # "idle")
    /\ s.jobs # {} => s.lock = "spin" /\ s.ctx = "release"
    /\ s.lock = "spin" /\ s.ctx = "release" => s.flags \cap Deferred = {}
    /\ s.lock = "spin" /\ s.ctx = "release" /\ s.pc # "idle" =>
         \/ "tsq" \in s.jobs /\ s.pc \notin {"resend", "host", "rehost"}
         \/ "tsq" \notin s.jobs /\ "write" \in s.jobs
            /\ s.pc \in {"resend", "host", "rehost", "done"}
    /\ s.lock = "spin" /\ s.ctx = "tasklet" => s.running > 0
    /\ s.pc \in {"resend", "host", "rehost"} => s.lock = "spin" /\ s.ctx \in {"timer", "release"}
    /\ s.pc \in Sending => s.state # "CLOSE"
    /\ s.state = "CLOSE" => s.todo = 0 /\ s.rtx = 0
    /\ s.pc \in {"throttle", "recheck"} => s.todo > 0

\* The tasklet that holds the lock is no wakeup to come, nor is the work that
\* is just being done.
Own(s) == Bit(s.lock = "spin" /\ s.ctx = "tasklet")
Queued(s) == s.listed \/ s.running > Own(s)
Wakeup(s) ==
    \/ "throttled" \in s.flags /\ s.dev + s.freeing > 0
    \/ Queued(s)
    \/ "tsq" \in s.flags
    \/ s.pc = "idle" /\ "tsq" \in s.jobs
    \/ "pace" \in s.timers
WakeInv(s) ==
    /\ s.pc = "recheck" => {"throttled", "tsq"} \cap s.flags # {} \/ Queued(s)
    /\ s.pc \in {"idle", "done", "resend", "host", "rehost"} /\ s.todo > 0 => Wakeup(s)

Inv(s) == s \in Socks /\ RefsInv(s) /\ MemInv(s) /\ LockInv(s) /\ WakeInv(s)
IInv == Inv(sk)

-----------------------------------------------------------------------------
(* Sets and counts *)

\* There are finitely many timers and holders of references to count.
LEMMA TimersFinite == IsFiniteSet(Timers) /\ IsFiniteSet(Counted)
<1>1. IsFiniteSet(Timers)
  <2>1. IsFiniteSet({"pace"})
    BY FS_Singleton
  <2>2. IsFiniteSet({"pace"} \cup {"write"})
    BY <2>1, FS_AddElement
  <2>3. IsFiniteSet(({"pace"} \cup {"write"}) \cup {"delack"})
    BY <2>2, FS_AddElement
  <2>4. IsFiniteSet((({"pace"} \cup {"write"}) \cup {"delack"}) \cup {"compressed"})
    BY <2>3, FS_AddElement
  <2>5. Timers = (({"pace"} \cup {"write"}) \cup {"delack"}) \cup {"compressed"}
    BY DEF Timers
  <2> QED BY <2>4, <2>5
<1>2. IsFiniteSet(Counted)
  <2>1. IsFiniteSet({"tsq"})
    BY FS_Singleton
  <2>2. IsFiniteSet({"tsq"} \cup {"write"})
    BY <2>1, FS_AddElement
  <2>3. IsFiniteSet(({"tsq"} \cup {"write"}) \cup {"delack"})
    BY <2>2, FS_AddElement
  <2>4. IsFiniteSet((({"tsq"} \cup {"write"}) \cup {"delack"}) \cup {"mtu"})
    BY <2>3, FS_AddElement
  <2>5. Counted = (({"tsq"} \cup {"write"}) \cup {"delack"}) \cup {"mtu"}
    BY DEF Counted, Deferred
  <2> QED BY <2>4, <2>5
<1> QED BY <1>1, <1>2

\* Adding to and taking from a set of timers, or of work that is counted
LEMMA CountSets ==
  ASSUME NEW U, U = Timers \/ U = Counted, NEW T \in SUBSET U, NEW x \in U
  PROVE  /\ Cardinality(T) \in Nat
         /\ x \notin T => Cardinality(T \cup {x}) = Cardinality(T) + 1
         /\ x \in T => Cardinality(T \ {x}) = Cardinality(T) - 1
<1>1. IsFiniteSet(T)
  BY TimersFinite, FS_Subset
<1>2. Cardinality(T) \in Nat
  BY <1>1, FS_CardinalityType
<1>3. x \notin T => Cardinality(T \cup {x}) = Cardinality(T) + 1
  BY <1>1, FS_AddElement
<1>4. x \in T => Cardinality(T \ {x}) = Cardinality(T) - 1
  BY <1>1, FS_RemoveElement
<1> QED BY <1>2, <1>3, <1>4

-----------------------------------------------------------------------------
(* References *)

\* A socket in order, and one that somebody keeps: the timers and the work left
\* behind do not account for all its references.
Sound(s) == s \in Socks /\ s.wmem = Units(s) /\ ~s.bug
Kept(s) == Sound(s) /\ Slack(s) \in Nat \ {0}

\* What the handling of timers and acknowledgements leaves alone
SameWork(s, t) ==
    /\ t.state = s.state /\ t.lock = s.lock /\ t.ctx = s.ctx /\ t.pc = s.pc
    /\ t.jobs = s.jobs /\ t.flags = s.flags /\ t.dev = s.dev
    /\ t.freeing = s.freeing /\ t.listed = s.listed /\ t.running = s.running
    /\ t.todo = s.todo /\ t.rtx = s.rtx

SameAcks(s, t) ==
    /\ t.pend = s.pend /\ t.ackLeft = s.ackLeft /\ t.tmrLeft = s.tmrLeft
    /\ t.retry = s.retry /\ t.fails = s.fails

\* The units of memory are a natural number.
LEMMA UnitsNat ==
  ASSUME NEW s \in Socks
  PROVE  Units(s) \in Nat /\ Truesize * s.dev \in Nat
BY DeferAssumption DEF Socks, Units, Bit

\* The counts of a socket are natural numbers.
LEMMA CountsNat ==
  ASSUME NEW s \in Socks
  PROVE  /\ Cardinality(s.timers) \in Nat
         /\ Cardinality((s.flags \cup s.jobs) \cap Counted) \in Nat
         /\ s.refs \in Nat /\ Slack(s) \in Int
<1>1. Cardinality(s.timers) \in Nat
  <2>1. s.timers \in SUBSET Timers /\ "pace" \in Timers
    BY DEF Socks, TimerSets, Timers
  <2> QED BY <2>1, CountSets
<1>2. Cardinality((s.flags \cup s.jobs) \cap Counted) \in Nat
  <2>1. (s.flags \cup s.jobs) \cap Counted \in SUBSET Counted
    OBVIOUS
  <2> QED BY <2>1, TimersFinite, FS_Subset, FS_CardinalityType
<1>3. s.refs \in Nat
  BY DEF Socks
<1> QED BY <1>1, <1>2, <1>3 DEF Slack

\* A socket that is kept has references.
LEMMA KeptRefs ==
  ASSUME NEW s, Kept(s)
  PROVE  s.refs > 0 /\ s.wmem > 0
<1>1. s \in Socks /\ Slack(s) \in Nat \ {0}
  BY DEF Kept, Sound
<1>3. s.refs \in Nat /\ s.refs > 0
  BY <1>1, CountsNat DEF Slack
<1>4. s.wmem > 0
  BY <1>1, <1>3, UnitsNat, DeferAssumption DEF Kept, Sound, Units, Bit, Socks
<1> QED BY <1>3, <1>4

\* What neither references nor memory depend on may change.
LEMMA SameCounts ==
  ASSUME NEW s, Sound(s), NEW t \in Socks,
         t.refs = s.refs, t.wmem = s.wmem, t.timers = s.timers, t.flags = s.flags,
         t.jobs = s.jobs, t.dev = s.dev, t.freeing = s.freeing, t.listed = s.listed,
         t.running = s.running, t.bug = s.bug
  PROVE  Sound(t) /\ Slack(t) = Slack(s)
BY DEF Sound, Slack, Units

\* An armed timer holds a reference of its own.
LEMMA ArmKept ==
  ASSUME NEW s, Kept(s), NEW x \in Timers
  PROVE  LET t == Arm(s, x)
         IN  /\ Kept(t) /\ Slack(t) = Slack(s) /\ SameWork(s, t) /\ SameAcks(s, t)
             /\ t.timers = s.timers \cup {x}
<1> DEFINE t == Arm(s, x)
<1>1. CASE x \in s.timers
  BY <1>1 DEF Arm, SameWork, SameAcks
<1>2. CASE x \notin s.timers
  <2>1. /\ s \in Socks /\ s.refs \in Nat /\ s.refs > 0 /\ ~s.bug /\ s.wmem = Units(s)
        /\ Cardinality(s.timers) \in Nat
        /\ Cardinality((s.flags \cup s.jobs) \cap Counted) \in Nat
    BY KeptRefs, CountsNat DEF Kept, Sound
  <2> DEFINE T == s.timers \cup {x}
             r == s.refs + 1
  <2>2. t = [s EXCEPT !.timers = T, !.refs = r, !.bug = FALSE]
    <3>1. (s.bug \/ s.refs = 0) = FALSE
      BY <2>1
    <3> QED BY <1>2, <2>1, <3>1 DEF Arm, Hold, Socks
  <2>a. T \in TimerSets /\ r \in Nat /\ r > 0
    BY <2>1 DEF Socks, TimerSets
  <2>b. r = s.refs + 1 /\ T = s.timers \cup {x}
    OBVIOUS
  <2> HIDE DEF t, T, r
  <2>3. t \in Socks
    BY <2>1, <2>2, <2>a DEF Socks
  <2>4. /\ SameWork(s, t) /\ SameAcks(s, t) /\ ~t.bug
        /\ t.timers = T /\ t.refs = r /\ t.wmem = s.wmem
    BY <2>1, <2>2 DEF Socks, SameWork, SameAcks
  <2>5. Cardinality(t.timers) = Cardinality(s.timers) + 1
    BY <1>2, <2>1, <2>4, <2>b, CountSets DEF Socks, TimerSets
  <2>6. Slack(t) = Slack(s)
    BY <2>1, <2>4, <2>5, <2>b DEF Slack, SameWork
  <2>7. Units(t) = Units(s)
    BY <2>1, <2>4, <2>a DEF Units, SameWork, Bit
  <2> QED BY <2>1, <2>3, <2>4, <2>6, <2>7, <2>b DEF Kept, Sound, t
<1> QED BY <1>1, <1>2

\* A reference is put; with the last one the socket's own unit of memory goes.
LEMMA PutKept ==
  ASSUME NEW s, Kept(s)
  PROVE  LET t == Put(s)
         IN  /\ Sound(t) /\ Slack(t) = Slack(s) - 1
             /\ SameWork(s, t) /\ SameAcks(s, t) /\ t.timers = s.timers
<1> DEFINE t == Put(s)
           r == s.refs - 1
           w == s.wmem - Bit(s.refs = 1)
<1>1. /\ s \in Socks /\ s.refs \in Nat /\ s.refs > 0 /\ ~s.bug /\ s.wmem = Units(s)
      /\ s.wmem \in Nat /\ s.wmem > 0
      /\ Cardinality(s.timers) \in Nat
      /\ Cardinality((s.flags \cup s.jobs) \cap Counted) \in Nat
  BY KeptRefs, CountsNat DEF Kept, Sound, Socks
<1>2. t = [s EXCEPT !.refs = r, !.wmem = w]
  BY DEF Put
<1>3. Bit(s.refs = 1) \in {0, 1} /\ r \in Nat /\ w \in Nat
  BY <1>1 DEF Bit
<1>a. r = s.refs - 1 /\ w = s.wmem - Bit(s.refs = 1)
  OBVIOUS
<1> HIDE DEF t, r, w
<1>4. t \in Socks
  BY <1>1, <1>2, <1>3 DEF Socks
<1>5. /\ SameWork(s, t) /\ SameAcks(s, t) /\ ~t.bug
      /\ t.timers = s.timers /\ t.refs = r /\ t.wmem = w
  BY <1>1, <1>2 DEF Socks, SameWork, SameAcks
<1>6. Slack(t) = Slack(s) - 1
  BY <1>1, <1>5, <1>a DEF Slack, SameWork
<1>7. Units(s) = Units(t) + Bit(s.refs = 1)
  BY <1>1, <1>5, <1>a, UnitsNat DEF Units, SameWork, Bit, Socks
<1>8. t.wmem = Units(t)
  BY <1>1, <1>3, <1>4, <1>5, <1>7, <1>a, UnitsNat
<1> QED BY <1>4, <1>5, <1>6, <1>8 DEF Sound, t

\* The reference of a timer that is gone is still there to be put.
LEMMA TimerGone ==
  ASSUME NEW s, Sound(s), Slack(s) \in Nat, NEW x \in s.timers
  PROVE  LET t == [s EXCEPT !.timers = @ \ {x}]
         IN  /\ Kept(t) /\ Slack(t) = Slack(s) + 1 /\ SameWork(s, t) /\ SameAcks(s, t)
             /\ t.timers = s.timers \ {x}
<1> DEFINE T == s.timers \ {x}
           t == [s EXCEPT !.timers = T]
<1>1. /\ s \in Socks /\ s.refs \in Nat /\ ~s.bug /\ s.wmem = Units(s)
      /\ Cardinality(s.timers) \in Nat
      /\ Cardinality((s.flags \cup s.jobs) \cap Counted) \in Nat
  BY CountsNat DEF Sound
<1>2. T \in TimerSets /\ x \in Timers /\ s.timers \in SUBSET Timers
  BY <1>1 DEF Socks, TimerSets
<1>a. T = s.timers \ {x}
  OBVIOUS
<1> HIDE DEF T
<1>3. t \in Socks
  BY <1>1, <1>2 DEF Socks
<1>4. /\ SameWork(s, t) /\ SameAcks(s, t) /\ ~t.bug
      /\ t.timers = T /\ t.refs = s.refs /\ t.wmem = s.wmem
  BY <1>1 DEF Socks, SameWork, SameAcks
<1> HIDE DEF t
<1>5. Cardinality(t.timers) = Cardinality(s.timers) - 1
  BY <1>2, <1>4, <1>a, CountSets
<1>6. Slack(t) = Slack(s) + 1
  BY <1>1, <1>4, <1>5 DEF Slack, SameWork
<1>7. Units(t) = Units(s)
  BY <1>4 DEF Units, SameWork
<1>8. Kept(t)
  BY <1>1, <1>3, <1>4, <1>6, <1>7 DEF Kept, Sound
<1> QED BY <1>4, <1>6, <1>8, <1>a DEF t, T

\* A timer that is stopped gives its reference back.
LEMMA DisarmKept ==
  ASSUME NEW s, Kept(s), NEW x
  PROVE  LET t == Disarm(s, x)
         IN  /\ Kept(t) /\ Slack(t) = Slack(s) /\ SameWork(s, t) /\ SameAcks(s, t)
             /\ t.timers = s.timers \ {x}
<1>1. CASE x \notin s.timers
  BY <1>1 DEF Disarm, SameWork, SameAcks
<1>2. CASE x \in s.timers
  <2> DEFINE u == [s EXCEPT !.timers = @ \ {x}]
             t == Put(u)
  <2>1. Sound(s) /\ Slack(s) \in Nat /\ Slack(s) > 0
    BY DEF Kept
  <2>2. /\ Kept(u) /\ Slack(u) = Slack(s) + 1 /\ SameWork(s, u) /\ SameAcks(s, u)
        /\ u.timers = s.timers \ {x}
    BY <1>2, <2>1, TimerGone
  <2>5. Disarm(s, x) = t
    BY <1>2 DEF Disarm
  <2> HIDE DEF u
  <2>3. /\ Sound(t) /\ Slack(t) = Slack(u) - 1
        /\ SameWork(u, t) /\ SameAcks(u, t) /\ t.timers = u.timers
    BY <2>2, PutKept
  <2> HIDE DEF t
  <2>4. SameWork(s, t) /\ SameAcks(s, t)
    BY <2>2, <2>3 DEF SameWork, SameAcks
  <2>6. Kept(t) /\ Slack(t) = Slack(s)
    BY <2>1, <2>2, <2>3 DEF Kept
  <2> QED BY <2>2, <2>3, <2>4, <2>5, <2>6
<1> QED BY <1>1, <1>2

\* What a softirq leaves behind when it defers work
SameButFlags(s, t) ==
    /\ t.state = s.state /\ t.lock = s.lock /\ t.ctx = s.ctx /\ t.pc = s.pc
    /\ t.jobs = s.jobs /\ t.dev = s.dev /\ t.freeing = s.freeing
    /\ t.listed = s.listed /\ t.running = s.running
    /\ t.todo = s.todo /\ t.rtx = s.rtx

\* Work left to the owner takes a reference, once.
LEMMA DeferKept ==
  ASSUME NEW s, Kept(s), s.jobs = {}, NEW w \in Counted
  PROVE  LET t == Defer(s, w)
         IN  /\ Kept(t) /\ Slack(t) = Slack(s) /\ SameButFlags(s, t) /\ SameAcks(s, t)
             /\ t.timers = s.timers /\ t.flags = s.flags \cup {w}
<1> DEFINE t == Defer(s, w)
<1>1. CASE w \in s.flags
  BY <1>1 DEF Defer, SameButFlags, SameAcks
<1>2. CASE w \notin s.flags
  <2>1. /\ s \in Socks /\ s.refs \in Nat /\ s.refs > 0 /\ ~s.bug /\ s.wmem = Units(s)
        /\ Cardinality(s.timers) \in Nat
        /\ Cardinality((s.flags \cup s.jobs) \cap Counted) \in Nat
    BY KeptRefs, CountsNat DEF Kept, Sound
  <2> DEFINE F == s.flags \cup {w}
             r == s.refs + 1
  <2>2. t = [s EXCEPT !.flags = F, !.refs = r, !.bug = FALSE]
    <3>1. (s.bug \/ s.refs = 0) = FALSE
      BY <2>1
    <3> QED BY <1>2, <2>1, <3>1 DEF Defer, Hold, Socks
  <2>a. F \in FlagSets /\ r \in Nat /\ r > 0
    BY <2>1 DEF Socks, FlagSets, Flags, Counted
  <2>b. r = s.refs + 1 /\ F = s.flags \cup {w}
    OBVIOUS
  <2> HIDE DEF t, F, r
  <2>3. t \in Socks
    BY <2>1, <2>2, <2>a DEF Socks
  <2>4. /\ SameButFlags(s, t) /\ SameAcks(s, t) /\ ~t.bug
        /\ t.timers = s.timers /\ t.flags = F /\ t.refs = r /\ t.wmem = s.wmem
    BY <2>1, <2>2 DEF Socks, SameButFlags, SameAcks
  <2>5. Cardinality((t.flags \cup t.jobs) \cap Counted)
          = Cardinality((s.flags \cup s.jobs) \cap Counted) + 1
    <3> DEFINE C == (s.flags \cup s.jobs) \cap Counted
    <3>1. C \in SUBSET Counted /\ w \notin C
      BY <1>2
    <3>2. (t.flags \cup t.jobs) \cap Counted = C \cup {w}
      BY <2>4, <2>b DEF SameButFlags
    <3> HIDE DEF C
    <3>3. Cardinality(C \cup {w}) = Cardinality(C) + 1
      BY <3>1, CountSets
    <3> QED BY <3>2, <3>3 DEF C
  <2>6. Slack(t) = Slack(s)
    BY <2>1, <2>4, <2>5, <2>b DEF Slack
  <2>7. Units(t) = Units(s)
    BY <2>1, <2>4, <2>a DEF Units, SameButFlags, Bit
  <2> QED BY <2>1, <2>3, <2>4, <2>6, <2>7, <2>b DEF Kept, Sound, t
<1> QED BY <1>1, <1>2

-----------------------------------------------------------------------------
(* Acknowledgements *)

\* Timers and acknowledgements were handled, and the pacing timer not stopped
Quiet(s, t) ==
    /\ Kept(t) /\ Slack(t) = Slack(s) /\ SameWork(s, t)
    /\ "pace" \in s.timers => "pace" \in t.timers

\* An acknowledgement that waited for its timer and still does, does so no
\* longer than before, unless its buffer could not be allocated
Prompt(s, t) ==
    "timer" \in s.pend /\ "timer" \in t.pend /\ t.fails = s.fails => t.ackLeft <= s.ackLeft

\* Nothing of the socket but its acknowledgements changed.
LEMMA QuietAcks ==
  ASSUME NEW s, Kept(s), NEW t \in Socks, SameWork(s, t), t.refs = s.refs,
         t.wmem = s.wmem, t.timers = s.timers, t.bug = s.bug
  PROVE  Quiet(s, t)
<1>1. Sound(t) /\ Slack(t) = Slack(s)
  BY SameCounts DEF SameWork, Kept
<1> QED BY <1>1 DEF Quiet, Kept

\* Quiet steps compose.
LEMMA QuietTwice ==
  ASSUME NEW s, NEW t, NEW u, Quiet(s, t), Quiet(t, u)
  PROVE  Quiet(s, u)
BY DEF Quiet, SameWork

\* Arming a timer, and stopping one other than the pacing timer, are quiet.
LEMMA QuietTimers ==
  ASSUME NEW s, Kept(s), NEW x \in Timers
  PROVE  /\ Quiet(s, Arm(s, x)) /\ SameAcks(s, Arm(s, x))
         /\ x # "pace" => Quiet(s, Disarm(s, x)) /\ SameAcks(s, Disarm(s, x))
<1>1. Quiet(s, Arm(s, x)) /\ SameAcks(s, Arm(s, x))
  BY ArmKept DEF Quiet
<1>2. x # "pace" => Quiet(s, Disarm(s, x)) /\ SameAcks(s, Disarm(s, x))
  BY DisarmKept DEF Quiet
<1> QED BY <1>1, <1>2

\* The delayed-acknowledgement timer is set.
LEMMA DelackTimerQuiet ==
  ASSUME NEW s, Kept(s), NEW left \in Left
  PROVE  LET t == DelackTimer(s, left)
         IN  /\ Quiet(s, t) /\ t.pend = s.pend \cup {"timer"} /\ t.ackLeft = left
             /\ t.fails = s.fails
<1> DEFINE a == Arm(s, "delack")
           P == a.pend \cup {"timer"}
           t == [a EXCEPT !.pend = P, !.ackLeft = left, !.tmrLeft = left]
<1>1. Quiet(s, a) /\ SameAcks(s, a)
  BY QuietTimers DEF Timers
<1>2. Kept(a) /\ a \in Socks
  BY <1>1 DEF Quiet, Kept, Sound
<1>3. DelackTimer(s, left) = t
  BY DEF DelackTimer
<1> HIDE DEF a
<1>4. P \in Pends
  BY <1>2 DEF Socks, Pends
<1>5. P = s.pend \cup {"timer"}
  BY <1>1 DEF SameAcks
<1> HIDE DEF P
<1>6. t \in Socks
  BY <1>2, <1>4 DEF Socks
<1>7. /\ SameWork(a, t) /\ t.refs = a.refs /\ t.wmem = a.wmem /\ t.timers = a.timers
      /\ t.bug = a.bug /\ t.pend = P /\ t.ackLeft = left /\ t.fails = a.fails
  BY <1>2 DEF Socks, SameWork
<1> HIDE DEF t
<1>8. Quiet(a, t)
  BY <1>2, <1>6, <1>7, QuietAcks
<1>9. Quiet(s, t)
  BY <1>1, <1>8, QuietTwice
<1> QED BY <1>1, <1>3, <1>5, <1>7, <1>9 DEF SameAcks

\* An acknowledgement has gone out.
LEMMA EventAckSentQuiet ==
  ASSUME NEW s, Kept(s)
  PROVE  LET t == EventAckSent(s)
         IN  Quiet(s, t) /\ t.pend = {} /\ t.fails = s.fails /\ t.ackLeft = s.ackLeft
<1> DEFINE a == Disarm(s, "compressed")
           t == [a EXCEPT !.pend = {}, !.retry = DelackMax]
<1>1. Quiet(s, a) /\ SameAcks(s, a)
  BY QuietTimers DEF Timers
<1>2. Kept(a) /\ a \in Socks
  BY <1>1 DEF Quiet, Kept, Sound
<1>3. EventAckSent(s) = t
  BY DEF EventAckSent
<1> HIDE DEF a
<1>4. {} \in Pends /\ DelackMax \in Nat
  BY DeferAssumption DEF Pends
<1>6. t \in Socks
  BY <1>2, <1>4 DEF Socks
<1>7. /\ SameWork(a, t) /\ t.refs = a.refs /\ t.wmem = a.wmem /\ t.timers = a.timers
      /\ t.bug = a.bug /\ t.pend = {} /\ t.ackLeft = a.ackLeft /\ t.fails = a.fails
  BY <1>2 DEF Socks, SameWork
<1> HIDE DEF t
<1>8. Quiet(a, t)
  BY <1>2, <1>6, <1>7, QuietAcks
<1>9. Quiet(s, t)
  BY <1>1, <1>8, QuietTwice
<1> QED BY <1>1, <1>3, <1>7, <1>9 DEF SameAcks

\* Another value for what an acknowledgement waits for
LEMMA PendQuiet ==
  ASSUME NEW s, Kept(s), NEW P \in Pends
  PROVE  LET t == [s EXCEPT !.pend = P]
         IN  /\ Quiet(s, t) /\ t.pend = P /\ t.fails = s.fails /\ t.ackLeft = s.ackLeft
             /\ t.retry = s.retry /\ t.timers = s.timers /\ t.refs = s.refs
<1> DEFINE t == [s EXCEPT !.pend = P]
<1>1. s \in Socks
  BY DEF Kept, Sound
<1>2. t \in Socks
  BY <1>1 DEF Socks
<1>3. /\ SameWork(s, t) /\ t.refs = s.refs /\ t.wmem = s.wmem /\ t.timers = s.timers
      /\ t.bug = s.bug /\ t.pend = P /\ t.ackLeft = s.ackLeft /\ t.fails = s.fails
      /\ t.retry = s.retry
  BY <1>1 DEF Socks, SameWork
<1> HIDE DEF t
<1>4. Quiet(s, t)
  BY <1>2, <1>3, QuietAcks
<1> QED BY <1>3, <1>4 DEF t

\* The failed allocation is counted and the next delay doubled.
LEMMA FailedQuiet ==
  ASSUME NEW s, Kept(s)
  PROVE  Quiet(s, Failed(s)) /\ Failed(s).fails = s.fails + 1
<1> DEFINE f == s.fails + 1
           r == IF s.retry < RtoMax THEN 2 * s.retry ELSE s.retry
           t == [s EXCEPT !.fails = f, !.retry = r]
<1>1. s \in Socks
  BY DEF Kept, Sound
<1>2. f \in Nat /\ r \in Nat
  BY <1>1 DEF Socks
<1>3. Failed(s) = t
  BY <1>1 DEF Failed, Socks
<1>a. f = s.fails + 1
  OBVIOUS
<1> HIDE DEF f, r
<1>4. t \in Socks
  BY <1>1, <1>2 DEF Socks
<1>5. /\ SameWork(s, t) /\ t.refs = s.refs /\ t.wmem = s.wmem /\ t.timers = s.timers
      /\ t.bug = s.bug /\ t.fails = f
  BY <1>1 DEF Socks, SameWork
<1> HIDE DEF t
<1>6. Quiet(s, t)
  BY <1>4, <1>5, QuietAcks
<1> QED BY <1>3, <1>5, <1>6, <1>a

\* An acknowledgement is sent, or asked for later when there is no buffer.
LEMMA SendAckQuiet ==
  ASSUME NEW s, Kept(s), NEW ok
  PROVE  LET t == SendAck(s, ok)
         IN  Quiet(s, t) /\ (t = s \/ t.pend = {} \/ t.fails = s.fails + 1)
<1>1. CASE s.state = "CLOSE"
  BY <1>1 DEF SendAck, Quiet, SameWork
<1>2. CASE s.state # "CLOSE" /\ ok
  BY <1>2, EventAckSentQuiet DEF SendAck
<1>3. CASE s.state # "CLOSE" /\ ~ok
  <2> DEFINE P == s.pend \cup {"sched"}
             a == [s EXCEPT !.pend = P]
             left == MinOf(s.retry, RtoMax)
             b == DelackTimer(a, left)
  <2>1. P \in Pends
    BY DEF Kept, Sound, Socks, Pends
  <2>2. left \in Left
    BY DeferAssumption DEF Kept, Sound, Socks, Left, MinOf
  <2>3. SendAck(s, ok) = Failed(b)
    BY <1>3 DEF SendAck
  <2> HIDE DEF P, left
  <2>4. Quiet(s, a) /\ a.fails = s.fails /\ Kept(a)
    BY <2>1, PendQuiet DEF Quiet
  <2> HIDE DEF a
  <2>5. Quiet(a, b) /\ b.fails = a.fails /\ Kept(b)
    BY <2>2, <2>4, DelackTimerQuiet DEF Quiet
  <2> HIDE DEF b
  <2>6. Quiet(b, Failed(b)) /\ Failed(b).fails = b.fails + 1
    BY <2>5, FailedQuiet
  <2>7. Quiet(s, Failed(b))
    BY <2>4, <2>5, <2>6, QuietTwice
  <2> QED BY <2>3, <2>4, <2>5, <2>6, <2>7
<1> QED BY <1>1, <1>2, <1>3

\* Data while a delayed acknowledgement waits never makes it wait longer.
LEMMA SendDelayedAckQuiet ==
  ASSUME NEW s, Kept(s), NEW ato \in Left, NEW ok
  PROVE  LET t == SendDelayedAck(s, ato, ok)
         IN  Quiet(s, t) /\ Prompt(s, t)
<1>0. s \in Socks /\ s.ackLeft \in Left /\ s.fails \in Nat /\ s.pend \in Pends
  BY DEF Kept, Sound, Socks
<1>1. ASSUME NEW left \in Left, "timer" \in s.pend => left <= s.ackLeft
      PROVE  LET t == [DelackTimer(s, left) EXCEPT !.pend = @ \cup {"sched"}]
             IN  Quiet(s, t) /\ Prompt(s, t)
  <2> DEFINE a == DelackTimer(s, left)
             P == a.pend \cup {"sched"}
             t == [a EXCEPT !.pend = P]
  <2>1. Quiet(s, a) /\ a.ackLeft = left /\ Kept(a)
    BY DelackTimerQuiet DEF Quiet
  <2> HIDE DEF a
  <2>2. P \in Pends
    BY <2>1 DEF Kept, Sound, Socks, Pends
  <2> HIDE DEF P
  <2>3. Quiet(a, t) /\ t.ackLeft = a.ackLeft
    BY <2>1, <2>2, PendQuiet
  <2>4. Prompt(s, t)
    BY <1>1, <2>1, <2>3 DEF Prompt
  <2> QED BY <2>1, <2>3, <2>4, QuietTwice DEF a, P
<1>2. CASE "timer" \notin s.pend
  BY <1>1, <1>2 DEF SendDelayedAck
<1>3. CASE "timer" \in s.pend /\ s.ackLeft <= ato \div 4
  <2> DEFINE t == SendAck(s, ok)
  <2>1. Quiet(s, t) /\ (t = s \/ t.pend = {} \/ t.fails = s.fails + 1)
    BY SendAckQuiet
  <2>2. SendDelayedAck(s, ato, ok) = t
    BY <1>3 DEF SendDelayedAck
  <2> HIDE DEF t
  <2>3. Prompt(s, t)
    BY <1>0, <2>1 DEF Prompt, Left
  <2> QED BY <2>1, <2>2, <2>3
<1>4. CASE "timer" \in s.pend /\ ~(s.ackLeft <= ato \div 4)
  <2>1. MinOf(ato, s.ackLeft) \in Left /\ MinOf(ato, s.ackLeft) <= s.ackLeft
    BY <1>0, DeferAssumption DEF MinOf, Left
  <2>2. SendDelayedAck(s, ato, ok)
          = [DelackTimer(s, MinOf(ato, s.ackLeft)) EXCEPT !.pend = @ \cup {"sched"}]
    BY <1>4 DEF SendDelayedAck
  <2> QED BY <1>1, <2>1, <2>2
<1> QED BY <1>2, <1>3, <1>4

\* What the delayed-acknowledgement timer does, at once or when the owner lets go
LEMMA DelackHandlerQuiet ==
  ASSUME NEW s, Kept(s), NEW ok
  PROVE  LET t == DelackHandler(s, ok)
         IN  Quiet(s, t) /\ Prompt(s, t)
<1>0. s \in Socks /\ s.ackLeft \in Left /\ s.fails \in Nat /\ s.pend \in Pends
  BY DEF Kept, Sound, Socks
<1>1. Quiet(s, s) /\ Prompt(s, s)
  BY <1>0, DeferAssumption DEF Quiet, SameWork, Prompt, Left
<1>2. Quiet(s, SendAck(s, ok)) /\ Prompt(s, SendAck(s, ok))
  <2> DEFINE t == SendAck(s, ok)
  <2>1. Quiet(s, t) /\ (t = s \/ t.pend = {} \/ t.fails = s.fails + 1)
    BY SendAckQuiet
  <2> HIDE DEF t
  <2>2. Prompt(s, t)
    BY <1>0, <1>1, <2>1 DEF Prompt
  <2> QED BY <2>1, <2>2 DEF t
<1>3. LET t == [Arm(s, "delack") EXCEPT !.tmrLeft = s.ackLeft]
      IN  Quiet(s, t) /\ Prompt(s, t)
  <2> DEFINE a == Arm(s, "delack")
             l == s.ackLeft
             t == [a EXCEPT !.tmrLeft = l]
  <2>1. Quiet(s, a) /\ SameAcks(s, a)
    BY QuietTimers DEF Timers
  <2>2. Kept(a) /\ a \in Socks /\ l \in Left
    BY <1>0, <2>1 DEF Quiet, Kept, Sound
  <2> HIDE DEF a, l
  <2>3. t \in Socks
    BY <2>2 DEF Socks
  <2>4. /\ SameWork(a, t) /\ t.refs = a.refs /\ t.wmem = a.wmem /\ t.timers = a.timers
        /\ t.bug = a.bug /\ t.ackLeft = a.ackLeft
    BY <2>2 DEF Socks, SameWork
  <2> HIDE DEF t
  <2>5. Quiet(s, t)
    BY <2>1, <2>2, <2>3, <2>4, QuietAcks, QuietTwice
  <2>6. Prompt(s, t)
    BY <1>0, <2>1, <2>4, DeferAssumption DEF Prompt, SameAcks, Left
  <2> QED BY <2>5, <2>6 DEF a, l, t
<1>4. LET u == [s EXCEPT !.pend = @ \ {"timer"}]
      IN  Quiet(s, u) /\ Prompt(s, u) /\ Quiet(s, SendAck(u, ok)) /\ Prompt(s, SendAck(u, ok))
  <2> DEFINE P == s.pend \ {"timer"}
             u == [s EXCEPT !.pend = P]
             t == SendAck(u, ok)
  <2>1. P \in Pends /\ "timer" \notin P
    BY <1>0 DEF Pends
  <2> HIDE DEF P
  <2>2. Quiet(s, u) /\ Kept(u) /\ u.pend = P /\ u.fails = s.fails
    BY <2>1, PendQuiet DEF Quiet
  <2> HIDE DEF u
  <2>3. Quiet(u, t) /\ (t = u \/ t.pend = {} \/ t.fails = u.fails + 1)
    BY <2>2, SendAckQuiet
  <2> HIDE DEF t
  <2>4. Quiet(s, t)
    BY <2>2, <2>3, QuietTwice
  <2>5. Prompt(s, u) /\ Prompt(s, t)
    BY <1>0, <2>1, <2>2, <2>3 DEF Prompt
  <2> QED BY <2>2, <2>4, <2>5 DEF P, u, t
<1> QED BY <1>1, <1>2, <1>3, <1>4 DEF DelackHandler

\* A segment with data: its acknowledgement goes out, waits, or is left to the
\* owner by a flag that holds no reference.
LEMMA DataKept ==
  ASSUME NEW s, Kept(s), s.state # "CLOSE", NEW how \in {"now", "delay", "compress"},
         NEW ato \in Left, NEW ok
  PROVE  LET t == Data(s, how, ato, ok)
         IN  \/ Quiet(s, t) /\ Prompt(s, t)
             \/ /\ s.lock = "user" /\ Kept(t) /\ Slack(t) = Slack(s) /\ SameButFlags(s, t)
                /\ t.timers = s.timers /\ t.flags = s.flags \cup {"ack"} /\ Prompt(s, t)
<1> DEFINE P == s.pend \cup {"sched"}
           u == [s EXCEPT !.pend = P]
<1>0. /\ s \in Socks /\ s.ackLeft \in Left /\ s.fails \in Nat /\ s.pend \in Pends
      /\ P \in Pends /\ s.ackLeft <= s.ackLeft
  BY DeferAssumption DEF Kept, Sound, Socks, Pends, Left
<1>a. P = s.pend \cup {"sched"}
  OBVIOUS
<1> HIDE DEF P
<1>1. /\ Quiet(s, u) /\ Kept(u) /\ u.pend = P /\ u.fails = s.fails /\ u.ackLeft = s.ackLeft
      /\ u.timers = s.timers /\ u.refs = s.refs
  BY <1>0, PendQuiet DEF Quiet
<1>2. Data(s, how, ato, ok) =
        CASE how = "now" /\ s.lock = "user" -> [u EXCEPT !.flags = @ \cup {"ack"}]
          [] how = "now" /\ s.lock # "user" -> SendAck(u, ok)
          [] how = "delay" -> SendDelayedAck(u, ato, ok)
          [] how = "compress" -> Arm([u EXCEPT !.pend = @ \cup {"compressed"}], "compressed")
  BY DEF Data, P
<1> HIDE DEF u
<1>3. CASE how = "now" /\ s.lock = "user"
  <2> DEFINE F == u.flags \cup {"ack"}
             t == [u EXCEPT !.flags = F]
  <2>1. u \in Socks /\ F \in FlagSets
    BY <1>1 DEF Kept, Sound, Socks, FlagSets, Flags, Deferred
  <2>a. F = u.flags \cup {"ack"}
    OBVIOUS
  <2> HIDE DEF F
  <2>2. t \in Socks
    BY <2>1 DEF Socks
  <2>3. /\ SameButFlags(u, t) /\ SameAcks(u, t) /\ t.timers = u.timers /\ t.flags = F
        /\ t.refs = u.refs /\ t.wmem = u.wmem /\ t.bug = u.bug
    BY <2>1 DEF Socks, SameButFlags, SameAcks
  <2>b. Data(s, how, ato, ok) = t
    BY <1>2, <1>3 DEF F
  <2> HIDE DEF t
  <2>4. (t.flags \cup t.jobs) \cap Counted = (u.flags \cup u.jobs) \cap Counted
    BY <2>3, <2>a DEF SameButFlags, Counted
  <2>5. Slack(t) = Slack(u) /\ Units(t) = Units(u)
    BY <2>3, <2>4 DEF Slack, Units, SameButFlags
  <2>6. Kept(t)
    BY <1>1, <2>2, <2>3, <2>5 DEF Kept, Sound
  <2>7. SameButFlags(s, t) /\ t.flags = s.flags \cup {"ack"} /\ Slack(t) = Slack(s)
    BY <1>1, <2>3, <2>5, <2>a DEF Quiet, SameWork, SameButFlags
  <2>8. Prompt(s, t)
    BY <1>0, <1>1, <2>3 DEF Prompt, SameAcks
  <2> QED BY <1>1, <1>3, <2>3, <2>6, <2>7, <2>8, <2>b
<1>4. CASE how = "now" /\ s.lock # "user"
  <2> DEFINE t == SendAck(u, ok)
  <2>1. Quiet(u, t) /\ (t = u \/ t.pend = {} \/ t.fails = u.fails + 1)
    BY <1>1, SendAckQuiet
  <2>2. Data(s, how, ato, ok) = t
    BY <1>2, <1>4
  <2> HIDE DEF t
  <2>3. Quiet(s, t)
    BY <1>1, <2>1, QuietTwice
  <2>4. Prompt(s, t)
    BY <1>0, <1>1, <2>1 DEF Prompt
  <2> QED BY <2>2, <2>3, <2>4
<1>5. CASE how = "delay"
  <2> DEFINE t == SendDelayedAck(u, ato, ok)
  <2>1. Quiet(u, t) /\ Prompt(u, t)
    BY <1>1, SendDelayedAckQuiet
  <2>2. Data(s, how, ato, ok) = t
    BY <1>2, <1>5
  <2> HIDE DEF t
  <2>3. Quiet(s, t)
    BY <1>1, <2>1, QuietTwice
  <2>4. Prompt(s, t)
    BY <1>1, <1>a, <2>1 DEF Prompt
  <2> QED BY <2>2, <2>3, <2>4
<1>6. CASE how = "compress"
  <2> DEFINE Q == u.pend \cup {"compressed"}
             v == [u EXCEPT !.pend = Q]
             t == Arm(v, "compressed")
  <2>1. Q \in Pends
    BY <1>1 DEF Kept, Sound, Socks, Pends
  <2>2. Data(s, how, ato, ok) = t
    BY <1>2, <1>6
  <2>a. "timer" \in Q => "timer" \in s.pend
    BY <1>1, <1>a
  <2> HIDE DEF Q
  <2>3. /\ Quiet(u, v) /\ Kept(v) /\ v.ackLeft = u.ackLeft /\ v.fails = u.fails
        /\ v.pend = Q
    BY <1>1, <2>1, PendQuiet DEF Quiet
  <2> HIDE DEF v
  <2>4. Quiet(v, t) /\ SameAcks(v, t)
    BY <2>3, QuietTimers DEF Timers
  <2> HIDE DEF t
  <2>5. Quiet(s, t)
    BY <1>1, <2>3, <2>4, QuietTwice
  <2>6. Prompt(s, t)
    BY <1>0, <1>1, <2>3, <2>4 DEF Prompt, SameAcks
  <2> QED BY <2>2, <2>5, <2>6
<1> QED BY <1>3, <1>4, <1>5, <1>6

-----------------------------------------------------------------------------
(* Sending *)

\* A buffer went below: memory is charged for it, and the retransmission timer
\* is armed
Sent(s, t) ==
    /\ Kept(t) /\ Slack(t) = Slack(s)
    /\ t.state = s.state /\ t.lock = s.lock /\ t.ctx = s.ctx
    /\ t.jobs = s.jobs /\ t.flags = s.flags /\ t.dev = s.dev + 1
    /\ t.freeing = s.freeing /\ t.listed = s.listed /\ t.running = s.running
    /\ "pace" \in s.timers => "pace" \in t.timers
    /\ t.pend = {}

\* A buffer is handed to the layers below.
LEMMA BelowSent ==
  ASSUME NEW s, Kept(s)
  PROVE  LET t == Below(s)
         IN  Sent(s, t) /\ t.todo = s.todo /\ t.rtx = s.rtx /\ t.pc = s.pc
<1> DEFINE a == EventAckSent(s)
           b == Arm(a, "write")
           d == b.dev + 1
           w == b.wmem + Truesize
           t == [b EXCEPT !.dev = d, !.wmem = w]
<1>1. Quiet(s, a) /\ a.pend = {} /\ Kept(a)
  BY EventAckSentQuiet DEF Quiet
<1> HIDE DEF a
<1>2. Quiet(a, b) /\ SameAcks(a, b)
  BY <1>1, QuietTimers DEF Timers
<1> HIDE DEF b
<1>3. Quiet(s, b) /\ b.pend = {} /\ Kept(b) /\ b \in Socks
  BY <1>1, <1>2, QuietTwice DEF SameAcks, Quiet, Kept, Sound
<1>4. d \in Nat /\ w \in Nat
  BY <1>3, DeferAssumption DEF Socks
<1>a. d = b.dev + 1 /\ w = b.wmem + Truesize
  OBVIOUS
<1>5. Below(s) = t
  BY DEF Below, a, b
<1> HIDE DEF d, w
<1>6. t \in Socks
  BY <1>3, <1>4 DEF Socks
<1>7. /\ t.state = b.state /\ t.lock = b.lock /\ t.ctx = b.ctx /\ t.pc = b.pc
      /\ t.jobs = b.jobs /\ t.flags = b.flags /\ t.dev = d
      /\ t.freeing = b.freeing /\ t.listed = b.listed /\ t.running = b.running
      /\ t.todo = b.todo /\ t.rtx = b.rtx /\ t.timers = b.timers /\ t.pend = b.pend
      /\ t.refs = b.refs /\ t.wmem = w /\ t.bug = b.bug
  BY <1>3 DEF Socks
<1> HIDE DEF t
<1>8. Slack(t) = Slack(b)
  BY <1>7 DEF Slack
<1>9. t.wmem = Units(t)
  <2>1. Truesize * t.dev = Truesize * b.dev + Truesize
    BY <1>3, <1>7, <1>a, DeferAssumption DEF Socks
  <2>2. b.wmem = Units(b) /\ Units(b) \in Nat /\ Truesize * b.dev \in Nat /\ Truesize \in Nat
    BY <1>3, UnitsNat, DeferAssumption DEF Kept, Sound
  <2> QED BY <1>3, <1>7, <1>a, <2>1, <2>2 DEF Units, Bit, Socks
<1>10. Kept(t)
  BY <1>3, <1>6, <1>7, <1>8, <1>9 DEF Kept, Sound
<1> QED BY <1>3, <1>5, <1>7, <1>8, <1>10, <1>a DEF Sent, Quiet, SameWork

\* The first buffer of the write queue goes below.
LEMMA SendNewSent ==
  ASSUME NEW s, Kept(s), s.todo > 0, NEW early \in BOOLEAN
  PROVE  LET t == SendNew(s, early)
         IN  Sent(s, t) /\ t.pc = s.pc
<1> DEFINE b == Below(s)
           n == b.todo - 1
           r == b.rtx + 1
           t == [b EXCEPT !.todo = n, !.rtx = r, !.early = early]
<1>1. Sent(s, b) /\ b.todo = s.todo /\ b.pc = s.pc
  BY BelowSent
<1>2. b \in Socks /\ Kept(b)
  BY <1>1 DEF Sent, Kept, Sound
<1>3. SendNew(s, early) = t
  BY DEF SendNew
<1> HIDE DEF b
<1>4. n \in Nat /\ r \in Nat
  BY <1>1, <1>2 DEF Socks
<1> HIDE DEF n, r
<1>5. t \in Socks
  BY <1>2, <1>4 DEF Socks
<1>6. /\ t.state = b.state /\ t.lock = b.lock /\ t.ctx = b.ctx /\ t.pc = b.pc
      /\ t.jobs = b.jobs /\ t.flags = b.flags /\ t.dev = b.dev
      /\ t.freeing = b.freeing /\ t.listed = b.listed /\ t.running = b.running
      /\ t.timers = b.timers /\ t.pend = b.pend
      /\ t.refs = b.refs /\ t.wmem = b.wmem /\ t.bug = b.bug
  BY <1>2 DEF Socks
<1> HIDE DEF t
<1>7. Sound(t) /\ Slack(t) = Slack(b)
  BY <1>2, <1>5, <1>6, SameCounts DEF Kept
<1> QED BY <1>1, <1>2, <1>3, <1>6, <1>7 DEF Sent, Kept

-----------------------------------------------------------------------------
(* The invariant *)

\* Somebody keeps a socket whose file is open or whose timer's handler runs.
LEMMA InvKept ==
  ASSUME NEW s, Inv(s)
  PROVE  /\ Sound(s) /\ s \in Socks /\ Slack(s) \in Nat
         /\ FileRef(s) \/ TimerRef(s) => Kept(s)
<1>1. Sound(s) /\ s \in Socks
  BY DEF Inv, MemInv, Sound
<1>2. Slack(s) \in Nat /\ (FileRef(s) \/ TimerRef(s) => Slack(s) > 0)
  BY DEF Inv, RefsInv, Bit
<1> QED BY <1>1, <1>2 DEF Kept

\* The invariant does not depend on how acknowledgements wait, nor on which
\* timers other than the pacing timer are armed.
LEMMA StillInv ==
  ASSUME NEW s, Inv(s), NEW t, Sound(t), Slack(t) = Slack(s), SameWork(s, t),
         "pace" \in s.timers => "pace" \in t.timers
  PROVE  Inv(t)
<1>1. t \in Socks /\ MemInv(t)
  BY DEF Inv, Sound, MemInv, SameWork
<1>2. RefsInv(t)
  BY DEF Inv, RefsInv, FileRef, TimerRef, SameWork
<1>3. LockInv(t)
  BY DEF Inv, LockInv, SameWork
<1>4. WakeInv(t)
  BY DEF Inv, WakeInv, Wakeup, Queued, Own, SameWork
<1> QED BY <1>1, <1>2, <1>3, <1>4 DEF Inv

\* Work that is left to the owner is found when it lets go.
LEMMA DeferredInv ==
  ASSUME NEW s, Inv(s), s.lock = "user", NEW t, Sound(t), Slack(t) = Slack(s),
         SameButFlags(s, t), NEW w \in Deferred, t.flags = s.flags \cup {w},
         w = "tsq" \/ ("pace" \in s.timers => "pace" \in t.timers)
  PROVE  Inv(t)
<1>0. w # "queued"
  BY DEF Deferred
<1>1. t \in Socks /\ MemInv(t)
  BY <1>0 DEF Inv, Sound, MemInv, SameButFlags
<1>2. RefsInv(t)
  BY DEF Inv, RefsInv, FileRef, TimerRef, SameButFlags
<1>3. LockInv(t)
  BY DEF Inv, LockInv, SameButFlags
<1>4. WakeInv(t)
  BY DEF Inv, WakeInv, Wakeup, Queued, Own, SameButFlags
<1> QED BY <1>1, <1>2, <1>3, <1>4 DEF Inv

\* The holder of the lock moves on in its code.
LEMMA GoSound ==
  ASSUME NEW s, Sound(s), NEW p \in Pcs
  PROVE  LET t == Go(s, p)
         IN  /\ Sound(t) /\ Slack(t) = Slack(s) /\ SameAcks(s, t) /\ t.timers = s.timers
             /\ t.state = s.state /\ t.lock = s.lock /\ t.ctx = s.ctx /\ t.pc = p
             /\ t.jobs = s.jobs /\ t.flags = s.flags /\ t.dev = s.dev
             /\ t.freeing = s.freeing /\ t.listed = s.listed /\ t.running = s.running
             /\ t.todo = s.todo /\ t.rtx = s.rtx
<1> DEFINE t == [s EXCEPT !.pc = p]
<1>1. s \in Socks
  BY DEF Sound
<1>2. t \in Socks
  BY <1>1 DEF Socks
<1>3. /\ SameAcks(s, t) /\ t.timers = s.timers
      /\ t.state = s.state /\ t.lock = s.lock /\ t.ctx = s.ctx /\ t.pc = p
      /\ t.jobs = s.jobs /\ t.flags = s.flags /\ t.dev = s.dev
      /\ t.freeing = s.freeing /\ t.listed = s.listed /\ t.running = s.running
      /\ t.todo = s.todo /\ t.rtx = s.rtx
      /\ t.refs = s.refs /\ t.wmem = s.wmem /\ t.bug = s.bug
  BY <1>1 DEF Socks, SameAcks
<1>4. Go(s, p) = t
  BY DEF Go
<1> HIDE DEF t
<1>5. Sound(t) /\ Slack(t) = Slack(s)
  BY <1>2, <1>3, SameCounts
<1> QED BY <1>3, <1>4, <1>5

\* What the sending loop does not touch
Loop(s, t) ==
    /\ Sound(t) /\ Slack(t) = Slack(s)
    /\ t.state = s.state /\ t.lock = s.lock /\ t.ctx = s.ctx /\ t.jobs = s.jobs
    /\ t.flags \in {s.flags, s.flags \cup {"throttled"}}
    /\ t.listed = s.listed /\ t.running = s.running

\* The sending loop stops with buffers left only when a wakeup is to come.
LEMMA LoopInv ==
  ASSUME NEW s, Inv(s), s.pc \in {"xmit", "throttle", "recheck"}, NEW t, Loop(s, t),
         t.pc \in {"xmit", "throttle", "recheck", "done"},
         t.pc \in {"throttle", "recheck"} => t.todo > 0,
         t.pc = "recheck" => "throttled" \in t.flags,
         t.pc = "done" /\ t.todo > 0 => Wakeup(t)
  PROVE  Inv(t)
<1>1. t \in Socks /\ MemInv(t)
  BY DEF Inv, Sound, MemInv, Loop
<1>2. RefsInv(t)
  BY DEF Inv, RefsInv, FileRef, TimerRef, Loop
<1>3. LockInv(t)
  <2>1. s.state # "CLOSE" /\ s.lock \in {"spin", "user"}
    BY DEF Inv, LockInv, Sending, Socks, Locks
  <2>2. t.flags \cap Deferred = s.flags \cap Deferred
    BY DEF Loop, Deferred
  <2> QED BY <2>1, <2>2 DEF Inv, LockInv, Loop, Sending
<1>4. WakeInv(t)
  BY DEF WakeInv
<1> QED BY <1>1, <1>2, <1>3, <1>4 DEF Inv

\* A retransmission leaves the wakeups as they are.
LEMMA ResendInv ==
  ASSUME NEW s, Inv(s), s.pc \in {"resend", "host", "rehost"}, NEW t, Loop(s, t),
         t.pc \in {"host", "rehost", "done"}, t.pc # "done" => t.state # "CLOSE",
         t.todo = s.todo, t.rtx = s.rtx, t.dev >= s.dev, t.freeing = s.freeing,
         "pace" \in s.timers => "pace" \in t.timers
  PROVE  Inv(t)
<1>0. s \in Socks /\ t \in Socks
  BY DEF Inv, Sound, Loop
<1>1. MemInv(t)
  BY DEF Inv, Sound, MemInv, Loop
<1>2. RefsInv(t)
  BY DEF Inv, RefsInv, FileRef, TimerRef, Loop
<1>3. LockInv(t)
  <2>1. s.lock = "spin"
    BY <1>0 DEF Inv, LockInv, Socks, Locks
  <2>2. t.flags \cap Deferred = s.flags \cap Deferred
    BY DEF Loop, Deferred
  <2> QED BY <2>1, <2>2 DEF Inv, LockInv, Loop, Sending
<1>4. WakeInv(t)
  <2>1. s.todo > 0 => Wakeup(s)
    BY DEF Inv, WakeInv
  <2>2. s.dev + s.freeing > 0 => t.dev + t.freeing > 0
    BY <1>0 DEF Socks
  <2>3. Wakeup(s) => Wakeup(t)
    BY <2>2 DEF Wakeup, Loop, Queued, Own
  <2> QED BY <2>1, <2>3 DEF WakeInv
<1> QED BY <1>0, <1>1, <1>2, <1>3, <1>4 DEF Inv

\* The loop and the retransmission run only while somebody keeps the socket.
LEMMA HolderKept ==
  ASSUME NEW s, Inv(s), s.pc # "idle"
  PROVE  (s.lock = "user" \/ s.ctx \in {"timer", "release"} \/ s.state # "CLOSE") => Kept(s)
<1>1. s.lock \in {"spin", "user"}
  BY DEF Inv, LockInv, Socks, Locks
<1> QED BY <1>1, InvKept DEF FileRef, TimerRef

\* One turn of the sending loop
LEMMA XmitStepInv ==
  ASSUME IInv, NEW early \in BOOLEAN, XmitStep(early)
  PROVE  IInv'
<1>0. Inv(sk) /\ sk.pc = "xmit" /\ sk \in Socks
  BY DEF IInv, XmitStep, Inv
<1>1. Kept(sk) /\ Sound(sk)
  <2>1. sk.state # "CLOSE"
    BY <1>0 DEF Inv, LockInv, Sending
  <2> QED BY <1>0, <2>1, HolderKept DEF Kept
<1>2. CASE sk.todo = 0
  <2>1. sk' = Go(sk, "done")
    BY <1>2 DEF XmitStep
  <2>2. /\ Loop(sk, sk') /\ sk'.pc = "done" /\ sk'.todo = 0
    BY <1>1, <1>2, <2>1, GoSound DEF Pcs, Loop
  <2> QED BY <1>0, <2>2, LoopInv DEF IInv
<1>3. CASE sk.todo # 0 /\ sk.early
  <2> DEFINE a == Arm(sk, "pace")
  <2>1. sk' = Go(a, "done")
    BY <1>3 DEF XmitStep
  <2>2. Quiet(sk, a) /\ Sound(a) /\ a.timers = sk.timers \cup {"pace"}
    BY <1>1, ArmKept DEF Timers, Quiet, Kept
  <2> HIDE DEF a
  <2>3. Loop(sk, sk') /\ sk'.pc = "done" /\ "pace" \in sk'.timers
    BY <2>1, <2>2, GoSound DEF Pcs, Loop, Quiet, SameWork
  <2> QED BY <1>0, <2>3, LoopInv DEF IInv, Wakeup
<1>4. CASE sk.todo # 0 /\ ~sk.early /\ sk.wmem > Limit /\ sk.rtx > 1
  <2>1. sk' = Go(sk, "throttle")
    BY <1>4 DEF XmitStep
  <2>2. Loop(sk, sk') /\ sk'.pc = "throttle" /\ sk'.todo > 0
    BY <1>0, <1>1, <1>4, <2>1, GoSound DEF Pcs, Loop, Socks
  <2> QED BY <1>0, <2>2, LoopInv DEF IInv
<1>5. CASE sk.todo # 0 /\ ~sk.early /\ ~(sk.wmem > Limit /\ sk.rtx > 1)
  <2>1. sk' = SendNew(sk, early)
    BY <1>5 DEF XmitStep
  <2>2. sk.todo > 0
    BY <1>0, <1>5 DEF Socks
  <2>3. Loop(sk, sk') /\ sk'.pc = "xmit"
    BY <1>0, <1>1, <2>1, <2>2, SendNewSent DEF Loop, Sent, Kept
  <2> QED BY <1>0, <2>3, LoopInv DEF IInv
<1> QED BY <1>2, <1>3, <1>4, <1>5

\* The loop or the retransmission raises the throttled flag.
LEMMA ThrottledFlag ==
  ASSUME NEW s, Sound(s), NEW p \in Pcs
  PROVE  LET t == Go([s EXCEPT !.flags = @ \cup {"throttled"}], p)
         IN  /\ Loop(s, t) /\ t.pc = p /\ t.timers = s.timers /\ t.dev = s.dev
             /\ t.freeing = s.freeing /\ t.todo = s.todo /\ t.rtx = s.rtx
             /\ "throttled" \in t.flags /\ SameAcks(s, t)
<1> DEFINE F == s.flags \cup {"throttled"}
           a == [s EXCEPT !.flags = F]
           t == Go(a, p)
<1>0. s \in Socks
  BY DEF Sound
<1>2. F \in FlagSets /\ F \cap Counted = s.flags \cap Counted /\ F = s.flags \cup {"throttled"}
  BY <1>0 DEF Socks, FlagSets, Flags, Counted, Deferred
<1> HIDE DEF F
<1>3. a \in Socks
  BY <1>0, <1>2 DEF Socks
<1>4. /\ SameButFlags(s, a) /\ a.flags = F /\ a.timers = s.timers /\ a.refs = s.refs
      /\ a.wmem = s.wmem /\ a.bug = s.bug /\ SameAcks(s, a)
  BY <1>0 DEF Socks, SameButFlags, SameAcks
<1> HIDE DEF a
<1>5. (a.flags \cup a.jobs) \cap Counted = (s.flags \cup s.jobs) \cap Counted
  BY <1>2, <1>4 DEF SameButFlags
<1>6. Sound(a) /\ Slack(a) = Slack(s)
  BY <1>0, <1>3, <1>4, <1>5 DEF Sound, Slack, Units, SameButFlags
<1>7. /\ Sound(t) /\ Slack(t) = Slack(a) /\ SameAcks(a, t) /\ t.timers = a.timers
      /\ t.state = a.state /\ t.lock = a.lock /\ t.ctx = a.ctx /\ t.pc = p
      /\ t.jobs = a.jobs /\ t.flags = a.flags /\ t.dev = a.dev
      /\ t.freeing = a.freeing /\ t.listed = a.listed /\ t.running = a.running
      /\ t.todo = a.todo /\ t.rtx = a.rtx
  BY <1>6, GoSound
<1> HIDE DEF t
<1> QED BY <1>2, <1>4, <1>6, <1>7 DEF Loop, SameButFlags, SameAcks, F, a, t

\* The loop says that it stopped.
LEMMA ThrottleInv ==
  ASSUME IInv, Throttle
  PROVE  IInv'
<1>0. Inv(sk) /\ sk.pc = "throttle" /\ sk.todo > 0 /\ Sound(sk)
  BY InvKept DEF IInv, Throttle, Inv, LockInv
<1>1. Loop(sk, sk') /\ sk'.pc = "recheck" /\ sk'.todo = sk.todo /\ "throttled" \in sk'.flags
  BY <1>0, ThrottledFlag DEF Pcs, Throttle
<1> QED BY <1>0, <1>1, LoopInv DEF IInv

\* The second look finds room, or buffers below whose completion will see the
\* flag.
LEMMA RecheckInv ==
  ASSUME IInv, NEW early \in BOOLEAN, Recheck(early)
  PROVE  IInv'
<1>0. Inv(sk) /\ sk.pc = "recheck" /\ sk \in Socks /\ sk.todo > 0
  BY DEF IInv, Recheck, Inv, LockInv
<1>1. Kept(sk) /\ Sound(sk)
  <2>1. sk.state # "CLOSE"
    BY <1>0 DEF Inv, LockInv, Sending
  <2> QED BY <1>0, <2>1, HolderKept DEF Kept
<1>2. CASE sk.wmem > Limit
  <2>1. sk' = Go(sk, "done")
    BY <1>2 DEF Recheck
  <2>2. Wakeup(sk)
    <3>1. {"throttled", "tsq"} \cap sk.flags # {} \/ Queued(sk)
      BY <1>0 DEF Inv, WakeInv
    <3>2. CASE sk.dev + sk.freeing > 0 \/ Queued(sk) \/ "tsq" \in sk.flags
      BY <3>1, <3>2 DEF Wakeup
    <3>3. CASE ~(sk.dev + sk.freeing > 0)
      <4>1. sk.dev = 0 /\ sk.freeing = 0
        BY <1>0, <3>3 DEF Socks
      <4>2. sk.wmem > 3 /\ sk.wmem = Units(sk) /\ Truesize * 0 = 0
        BY <1>0, <1>1, <1>2, DeferAssumption DEF Socks, Sound
      <4>3. sk.listed \/ sk.running > 1
        BY <1>0, <4>1, <4>2 DEF Units, Bit, Socks
      <4> QED BY <1>0, <4>3 DEF Wakeup, Queued, Own, Bit, Socks
    <3> QED BY <3>2, <3>3
  <2>3. /\ Loop(sk, sk') /\ sk'.pc = "done" /\ sk'.timers = sk.timers /\ sk'.flags = sk.flags
        /\ sk'.dev = sk.dev /\ sk'.freeing = sk.freeing
    BY <1>1, <2>1, GoSound DEF Pcs, Loop
  <2>4. Wakeup(sk')
    BY <1>0, <2>2, <2>3 DEF Loop, Wakeup, Queued, Own
  <2> QED BY <1>0, <2>3, <2>4, LoopInv DEF IInv
<1>3. CASE ~(sk.wmem > Limit)
  <2> DEFINE a == SendNew(sk, early)
  <2>1. sk' = Go(a, "xmit")
    BY <1>3 DEF Recheck
  <2>2. Sent(sk, a) /\ Sound(a)
    BY <1>0, <1>1, SendNewSent DEF Sent, Kept
  <2> HIDE DEF a
  <2>3. Loop(sk, sk') /\ sk'.pc = "xmit"
    BY <2>1, <2>2, GoSound DEF Pcs, Loop, Sent
  <2> QED BY <1>0, <2>3, LoopInv DEF IInv
<1> QED BY <1>2, <1>3

\* The retransmission timer's handler, step by step
LEMMA ResendStepInv ==
  ASSUME IInv, ResendStep
  PROVE  IInv'
<1>0. Inv(sk) /\ sk.pc \in {"resend", "host", "rehost"} /\ sk \in Socks /\ Sound(sk)
  BY InvKept DEF IInv, ResendStep, Inv
<1>1. Kept(sk)
  <2>1. sk.ctx \in {"timer", "release"}
    BY <1>0 DEF Inv, LockInv
  <2> QED BY <1>0, <2>1, HolderKept
<1> DEFINE Done(t) == /\ Loop(sk, t) /\ t.pc \in {"host", "rehost", "done"}
                      /\ (t.pc # "done" => t.state # "CLOSE")
                      /\ t.todo = sk.todo /\ t.rtx = sk.rtx /\ t.dev >= sk.dev
                      /\ t.freeing = sk.freeing
                      /\ ("pace" \in sk.timers => "pace" \in t.timers)
<1>2. ASSUME NEW to \in {"host", "done"}, sk' = Resend(to)
      PROVE  Done(sk')
  <2>1. CASE sk.rtx = 0 \/ sk.state = "CLOSE"
    <3>1. sk' = Go(sk, "done")
      BY <1>2, <2>1 DEF Resend
    <3> QED BY <1>0, <3>1, GoSound DEF Pcs, Loop, Socks
  <2>2. CASE sk.rtx # 0 /\ sk.state # "CLOSE" /\ HostBusy /\ to = "done"
    <3> DEFINE a == Arm(sk, "write")
    <3>1. sk' = Go(a, "done")
      BY <1>2, <2>2 DEF Resend
    <3>2. Quiet(sk, a) /\ Sound(a)
      BY <1>1, QuietTimers DEF Timers, Quiet, Kept
    <3> HIDE DEF a
    <3> QED BY <1>0, <3>1, <3>2, GoSound DEF Pcs, Loop, Quiet, SameWork, Socks
  <2>3. CASE sk.rtx # 0 /\ sk.state # "CLOSE" /\ HostBusy /\ to = "host"
    <3>1. sk' = Go(sk, "host")
      BY <1>2, <2>3 DEF Resend
    <3> QED BY <1>0, <2>3, <3>1, GoSound DEF Pcs, Loop, Socks
  <2>4. CASE sk.rtx # 0 /\ sk.state # "CLOSE" /\ ~HostBusy /\ sk.events = MaxEvents
    <3>1. sk' = Go(sk, "done")
      BY <1>2, <2>4 DEF Resend
    <3> QED BY <1>0, <3>1, GoSound DEF Pcs, Loop, Socks
  <2>5. CASE sk.rtx # 0 /\ sk.state # "CLOSE" /\ ~HostBusy /\ sk.events # MaxEvents
    <3> DEFINE b == Below(sk)
               n == b.events + 1
               c == [b EXCEPT !.events = n]
    <3>1. sk' = Go(c, "done")
      BY <1>2, <2>5 DEF Resend
    <3>2. Sent(sk, b) /\ b.todo = sk.todo /\ b.rtx = sk.rtx /\ b \in Socks /\ Sound(b)
      BY <1>1, BelowSent DEF Sent, Kept, Sound
    <3> HIDE DEF b
    <3>3. n \in Nat
      BY <3>2 DEF Socks
    <3> HIDE DEF n
    <3>4. c \in Socks
      BY <3>2, <3>3 DEF Socks
    <3>5. /\ SameWork(b, c) /\ c.timers = b.timers /\ c.refs = b.refs /\ c.wmem = b.wmem
          /\ c.bug = b.bug
      BY <3>2 DEF Socks, SameWork
    <3> HIDE DEF c
    <3>6. Sound(c) /\ Slack(c) = Slack(b)
      BY <3>2, <3>4, <3>5, SameCounts DEF SameWork
    <3>7. /\ Sound(sk') /\ Slack(sk') = Slack(c) /\ sk'.timers = c.timers
          /\ sk'.state = c.state /\ sk'.lock = c.lock /\ sk'.ctx = c.ctx /\ sk'.pc = "done"
          /\ sk'.jobs = c.jobs /\ sk'.flags = c.flags /\ sk'.dev = c.dev
          /\ sk'.freeing = c.freeing /\ sk'.listed = c.listed /\ sk'.running = c.running
          /\ sk'.todo = c.todo /\ sk'.rtx = c.rtx
      BY <3>1, <3>6, GoSound DEF Pcs
    <3>8. sk'.dev = sk.dev + 1 /\ sk'.dev >= sk.dev
      BY <1>0, <3>2, <3>5, <3>7 DEF Sent, SameWork, Socks
    <3> QED BY <3>2, <3>5, <3>6, <3>7, <3>8 DEF Loop, Sent, SameWork
  <2> QED BY <2>1, <2>2, <2>3, <2>4, <2>5
<1>3. CASE sk.pc = "resend" /\ sk' = Resend("host")
  <2>1. Done(sk')
    BY <1>2, <1>3
  <2> QED BY <1>0, <2>1, ResendInv DEF IInv
<1>4. CASE sk.pc = "host" /\ sk' = Go([sk EXCEPT !.flags = @ \cup {"throttled"}], "rehost")
  <2>0. sk.state # "CLOSE"
    BY <1>0, <1>4 DEF Inv, LockInv, Sending
  <2>1. /\ Loop(sk, sk') /\ sk'.pc = "rehost" /\ sk'.timers = sk.timers /\ sk'.dev = sk.dev
        /\ sk'.freeing = sk.freeing /\ sk'.todo = sk.todo /\ sk'.rtx = sk.rtx
    BY <1>0, <1>4, ThrottledFlag DEF Pcs
  <2>2. Done(sk')
    BY <1>0, <2>0, <2>1 DEF Socks, Loop
  <2> QED BY <1>0, <2>2, ResendInv DEF IInv
<1>5. CASE sk.pc = "rehost" /\ sk' = Resend("done")
  <2>1. Done(sk')
    BY <1>2, <1>5
  <2> QED BY <1>0, <2>1, ResendInv DEF IInv
<1> QED BY <1>3, <1>4, <1>5 DEF ResendStep

-----------------------------------------------------------------------------
(* The owner lets go *)

\* The work that was left is done in the order of tcp_release_cb.
LEMMA FirstJobIn ==
  ASSUME NEW jobs \in SUBSET Deferred, jobs # {}
  PROVE  /\ FirstJob(jobs) \in jobs
         /\ "tsq" \in jobs => FirstJob(jobs) = "tsq"
         /\ "tsq" \notin jobs /\ "write" \in jobs => FirstJob(jobs) = "write"
<1> DEFINE P(i) == JobOrder[i] \in jobs /\ \A j \in 1 .. i - 1 : JobOrder[j] \notin jobs
           k == CHOOSE i \in 1 .. 5 : P(i)
<1>0. /\ JobOrder[1] = "tsq" /\ JobOrder[2] = "write" /\ JobOrder[3] = "delack"
      /\ JobOrder[4] = "mtu" /\ JobOrder[5] = "ack"
  BY DEF JobOrder
<1>1. \E i \in 1 .. 5 : P(i)
  <2>1. CASE "tsq" \in jobs
    <3>1. P(1)
      BY <1>0, <2>1
    <3> QED BY <3>1
  <2>2. CASE "tsq" \notin jobs /\ "write" \in jobs
    <3>1. P(2)
      <4>1. \A j \in 1 .. 2 - 1 : j = 1
        OBVIOUS
      <4> QED BY <1>0, <2>2, <4>1
    <3> QED BY <3>1
  <2>3. CASE {"tsq", "write"} \cap jobs = {} /\ "delack" \in jobs
    <3>1. P(3)
      <4>1. \A j \in 1 .. 3 - 1 : j = 1 \/ j = 2
        OBVIOUS
      <4> QED BY <1>0, <2>3, <4>1
    <3> QED BY <3>1
  <2>4. CASE {"tsq", "write", "delack"} \cap jobs = {} /\ "mtu" \in jobs
    <3>1. P(4)
      <4>1. \A j \in 1 .. 4 - 1 : j = 1 \/ j = 2 \/ j = 3
        OBVIOUS
      <4> QED BY <1>0, <2>4, <4>1
    <3> QED BY <3>1
  <2>5. CASE {"tsq", "write", "delack", "mtu"} \cap jobs = {}
    <3>1. P(5)
      <4>1. \A j \in 1 .. 5 - 1 : j = 1 \/ j = 2 \/ j = 3 \/ j = 4
        OBVIOUS
      <4>2. "ack" \in jobs
        BY <2>5 DEF Deferred
      <4> QED BY <1>0, <2>5, <4>1, <4>2
    <3> QED BY <3>1
  <2> QED BY <2>1, <2>2, <2>3, <2>4, <2>5
<1>2. FirstJob(jobs) = JobOrder[k]
  BY DEF FirstJob
<1> HIDE DEF P
<1>3. k \in 1 .. 5 /\ P(k)
  BY <1>1
<1> HIDE DEF k
<1>4. JobOrder[k] \in jobs
  BY <1>3 DEF P
<1>5. "tsq" \in jobs => k = 1
  <2>1. k # 1 => 1 \in 1 .. k - 1
    BY <1>3
  <2> QED BY <1>0, <1>3, <2>1 DEF P
<1>6. "tsq" \notin jobs /\ "write" \in jobs => k = 2
  <2>1. k = 1 \/ k = 2 \/ 2 \in 1 .. k - 1
    BY <1>3
  <2> QED BY <1>0, <1>3, <2>1 DEF P
<1> QED BY <1>0, <1>2, <1>4, <1>5, <1>6

\* The reference of a job that is done is still there to be put.
LEMMA JobGone ==
  ASSUME NEW s, Sound(s), Slack(s) \in Nat, s.flags \cap Deferred = {}, NEW j \in s.jobs
  PROVE  LET t == [s EXCEPT !.jobs = @ \ {j}]
         IN  /\ Sound(t) /\ Slack(t) = Slack(s) + Bit(j # "ack") /\ SameAcks(s, t)
             /\ t.state = s.state /\ t.lock = s.lock /\ t.ctx = s.ctx /\ t.pc = s.pc
             /\ t.jobs = s.jobs \ {j} /\ t.flags = s.flags /\ t.dev = s.dev
             /\ t.freeing = s.freeing /\ t.listed = s.listed /\ t.running = s.running
             /\ t.todo = s.todo /\ t.rtx = s.rtx /\ t.timers = s.timers
<1> DEFINE J == s.jobs \ {j}
           t == [s EXCEPT !.jobs = J]
<1>1. /\ s \in Socks /\ s.refs \in Nat /\ ~s.bug /\ s.wmem = Units(s)
      /\ Cardinality(s.timers) \in Nat
      /\ Cardinality((s.flags \cup s.jobs) \cap Counted) \in Nat
  BY CountsNat DEF Sound
<1>2. J \in Jobs /\ j \in Deferred
  BY <1>1 DEF Socks, Jobs
<1>a. J = s.jobs \ {j}
  OBVIOUS
<1> HIDE DEF J
<1>3. t \in Socks
  BY <1>1, <1>2 DEF Socks
<1>4. /\ SameAcks(s, t) /\ t.state = s.state /\ t.lock = s.lock /\ t.ctx = s.ctx
      /\ t.pc = s.pc /\ t.jobs = J /\ t.flags = s.flags /\ t.dev = s.dev
      /\ t.freeing = s.freeing /\ t.listed = s.listed /\ t.running = s.running
      /\ t.todo = s.todo /\ t.rtx = s.rtx /\ t.timers = s.timers
      /\ t.refs = s.refs /\ t.wmem = s.wmem /\ t.bug = s.bug
  BY <1>1 DEF Socks, SameAcks
<1> HIDE DEF t
<1>5. Cardinality((t.flags \cup t.jobs) \cap Counted)
        = Cardinality((s.flags \cup s.jobs) \cap Counted) - Bit(j # "ack")
  <2> DEFINE C == (s.flags \cup s.jobs) \cap Counted
  <2>1. CASE j = "ack"
    <3>1. (t.flags \cup t.jobs) \cap Counted = C
      BY <1>4, <1>a, <2>1 DEF Counted
    <3>2. Bit(j # "ack") = 0
      BY <2>1 DEF Bit
    <3> QED BY <1>1, <3>1, <3>2
  <2>2. CASE j # "ack"
    <3>1. (t.flags \cup t.jobs) \cap Counted = C \ {j}
      BY <1>2, <1>4, <1>a
    <3>2. C \in SUBSET Counted /\ j \in C /\ j \in Counted
      BY <1>2, <2>2 DEF Counted
    <3>3. Bit(j # "ack") = 1
      BY <2>2 DEF Bit
    <3> HIDE DEF C
    <3>4. Cardinality(C \ {j}) = Cardinality(C) - 1
      BY <3>2, CountSets
    <3> QED BY <3>1, <3>3, <3>4 DEF C
  <2> QED BY <2>1, <2>2
<1>6. Slack(t) = Slack(s) + Bit(j # "ack")
  BY <1>1, <1>4, <1>5 DEF Slack, Bit
<1>7. Units(t) = Units(s)
  BY <1>4 DEF Units
<1>8. Sound(t)
  BY <1>1, <1>3, <1>4, <1>7 DEF Sound
<1> QED BY <1>4, <1>6, <1>8, <1>a DEF t, J

\* The owner's flags become the work of tcp_release_cb, references and all.
LEMMA ReleaseInv ==
  ASSUME IInv, Release
  PROVE  IInv'
<1> DEFINE J == sk.flags \cap Deferred
           F == sk.flags \ Deferred
<1>0. /\ Inv(sk) /\ sk \in Socks /\ Sound(sk) /\ sk.lock = "user" /\ sk.pc = "idle"
      /\ sk.ctx = "user" /\ sk.jobs = {}
  BY InvKept DEF IInv, Release, Inv, LockInv
<1>1. sk' = [sk EXCEPT !.lock = "spin", !.ctx = "release", !.jobs = J, !.flags = F]
  BY DEF Release
<1>2. J \in Jobs /\ F \in FlagSets /\ "spin" \in Locks /\ "release" \in Ctxs
  BY <1>0 DEF Socks, Jobs, FlagSets, Locks, Ctxs
<1>3. /\ J = sk.flags \cap Deferred /\ F = sk.flags \ Deferred
      /\ "queued" \notin Deferred /\ "throttled" \notin Deferred /\ "tsq" \in Deferred
  BY DEF Deferred
<1> HIDE DEF J, F
<1>4. sk' \in Socks
  BY <1>0, <1>1, <1>2 DEF Socks
<1>5. /\ sk'.state = sk.state /\ sk'.lock = "spin" /\ sk'.ctx = "release" /\ sk'.pc = "idle"
      /\ sk'.jobs = J /\ sk'.flags = F /\ sk'.dev = sk.dev
      /\ sk'.freeing = sk.freeing /\ sk'.listed = sk.listed /\ sk'.running = sk.running
      /\ sk'.todo = sk.todo /\ sk'.rtx = sk.rtx /\ sk'.timers = sk.timers
      /\ sk'.refs = sk.refs /\ sk'.wmem = sk.wmem /\ sk'.bug = sk.bug
  BY <1>0, <1>1 DEF Socks
<1>6. (sk'.flags \cup sk'.jobs) \cap Counted = (sk.flags \cup sk.jobs) \cap Counted
  BY <1>0, <1>3, <1>5
<1>7. Slack(sk') = Slack(sk) /\ Units(sk') = Units(sk)
  BY <1>5, <1>6 DEF Slack, Units
<1>8. MemInv(sk')
  BY <1>0, <1>3, <1>5, <1>7 DEF Inv, MemInv
<1>9. RefsInv(sk')
  BY <1>0, <1>5, <1>7 DEF Inv, RefsInv, FileRef, TimerRef
<1>10. LockInv(sk')
  BY <1>0, <1>3, <1>5 DEF Inv, LockInv, Sending
<1>11. WakeInv(sk')
  BY <1>0, <1>3, <1>5 DEF Inv, WakeInv, Wakeup, Queued, Own
<1> QED BY <1>4, <1>8, <1>9, <1>10, <1>11 DEF IInv, Inv

\* The lock goes, with pc and the units of memory as given.
LEMMA FreeSound ==
  ASSUME NEW s, Sound(s)
  PROVE  LET t == [s EXCEPT !.pc = "idle", !.lock = "free"]
         IN  /\ Sound(t) /\ Slack(t) = Slack(s) /\ SameAcks(s, t) /\ t.timers = s.timers
             /\ t.state = s.state /\ t.lock = "free" /\ t.ctx = s.ctx /\ t.pc = "idle"
             /\ t.jobs = s.jobs /\ t.flags = s.flags /\ t.dev = s.dev
             /\ t.freeing = s.freeing /\ t.listed = s.listed /\ t.running = s.running
             /\ t.todo = s.todo /\ t.rtx = s.rtx
<1> DEFINE t == [s EXCEPT !.pc = "idle", !.lock = "free"]
<1>1. s \in Socks /\ "idle" \in Pcs /\ "free" \in Locks
  BY DEF Sound, Pcs, Locks
<1>2. t \in Socks
  BY <1>1 DEF Socks
<1>3. /\ SameAcks(s, t) /\ t.timers = s.timers
      /\ t.state = s.state /\ t.lock = "free" /\ t.ctx = s.ctx /\ t.pc = "idle"
      /\ t.jobs = s.jobs /\ t.flags = s.flags /\ t.dev = s.dev
      /\ t.freeing = s.freeing /\ t.listed = s.listed /\ t.running = s.running
      /\ t.todo = s.todo /\ t.rtx = s.rtx
      /\ t.refs = s.refs /\ t.wmem = s.wmem /\ t.bug = s.bug
  BY <1>1 DEF Socks, SameAcks
<1> HIDE DEF t
<1>5. Sound(t) /\ Slack(t) = Slack(s)
  BY <1>2, <1>3, SameCounts
<1> QED BY <1>3, <1>5 DEF t

\* A lock that is free again leaves the socket in order when the references fit.
LEMMA FreeInv ==
  ASSUME NEW s, Inv(s), s.lock # "free", s.jobs = {},
         s.pc \in {"idle", "done"}, NEW t, Sound(t), RefsInv(t), t.lock = "free", t.pc = "idle",
         t.jobs = s.jobs, t.state = s.state, t.flags = s.flags, t.dev = s.dev,
         t.freeing = s.freeing, t.listed = s.listed, t.running = s.running - Own(s),
         t.todo = s.todo, t.rtx = s.rtx, t.timers = s.timers
  PROVE  Inv(t)
<1>0. s \in Socks /\ s.running \in Nat /\ Own(s) \in {0, 1}
  BY DEF Inv, Socks, Own, Bit
<1>1. t \in Socks /\ MemInv(t)
  BY DEF Inv, Sound, MemInv
<1>2. LockInv(t)
  BY DEF Inv, LockInv, Sending
<1>3. Queued(s) => Queued(t)
  <2>1. Own(t) = 0
    BY DEF Own, Bit
  <2> QED BY <1>0, <2>1 DEF Queued
<1>4. WakeInv(t)
  <2>1. s.todo > 0 => Wakeup(s)
    BY DEF Inv, WakeInv
  <2>2. Wakeup(s) => Wakeup(t)
    BY <1>3 DEF Wakeup
  <2> QED BY <2>1, <2>2 DEF WakeInv
<1> QED BY <1>1, <1>2, <1>4 DEF Inv

\* The lock is given back, and with a closed socket the reference of its file.
LEMMA UnlockInv ==
  ASSUME IInv, Unlock
  PROVE  IInv'
<1> DEFINE f == [sk EXCEPT !.pc = "idle", !.lock = "free"]
<1>0. /\ Inv(sk) /\ sk \in Socks /\ Sound(sk) /\ sk.lock = "spin" /\ sk.pc = "idle"
      /\ sk.ctx = "release" /\ sk.jobs = {} /\ Kept(sk) /\ sk.running \in Nat
  BY InvKept DEF IInv, Unlock, Inv, LockInv, FileRef, Socks
<1>1. [sk EXCEPT !.lock = "free"] = f
  BY <1>0 DEF Socks
<1>2. /\ Sound(f) /\ Slack(f) = Slack(sk) /\ f.timers = sk.timers
      /\ f.state = sk.state /\ f.lock = "free" /\ f.ctx = sk.ctx /\ f.pc = "idle"
      /\ f.jobs = sk.jobs /\ f.flags = sk.flags /\ f.dev = sk.dev
      /\ f.freeing = sk.freeing /\ f.listed = sk.listed /\ f.running = sk.running
      /\ f.todo = sk.todo /\ f.rtx = sk.rtx
  BY <1>0, FreeSound
<1>3. sk' = IF sk.state = "CLOSE" THEN Put(f) ELSE f
  BY <1>1 DEF Unlock
<1> HIDE DEF f
<1>4. Own(sk) = 0 /\ sk.running - 0 = sk.running
  BY <1>0 DEF Own, Bit
<1>5. Slack(sk) = 1
  BY <1>0 DEF Inv, RefsInv, FileRef, TimerRef, Bit
<1>6. CASE sk.state = "CLOSE"
  <2>1. Kept(f)
    BY <1>2, <1>5 DEF Kept
  <2>2. /\ Sound(sk') /\ Slack(sk') = Slack(f) - 1 /\ SameWork(f, sk')
        /\ sk'.timers = f.timers
    BY <1>3, <1>6, <2>1, PutKept
  <2>3. RefsInv(sk')
    BY <1>2, <1>5, <1>6, <2>2 DEF RefsInv, FileRef, TimerRef, SameWork, Bit
  <2> QED BY <1>0, <1>2, <1>4, <2>2, <2>3, FreeInv DEF SameWork, IInv
<1>7. CASE sk.state # "CLOSE"
  <2>1. sk' = f
    BY <1>3, <1>7
  <2>2. RefsInv(f)
    BY <1>2, <1>5, <1>7 DEF RefsInv, FileRef, TimerRef, Bit
  <2> QED BY <1>0, <1>2, <1>4, <2>1, <2>2, FreeInv DEF IInv
<1> QED BY <1>6, <1>7

\* A handler is through.
LEMMA FinishInv ==
  ASSUME IInv, Finish
  PROVE  IInv'
<1> DEFINE f == [sk EXCEPT !.pc = "idle", !.lock = "free"]
           idle == Go(sk, "idle")
<1>0. /\ Inv(sk) /\ sk \in Socks /\ Sound(sk) /\ sk.pc = "done" /\ sk.running \in Nat
      /\ sk.ctx \in Ctxs /\ sk.lock # "free"
  BY InvKept DEF IInv, Finish, Inv, LockInv, Socks
<1>1. /\ Sound(f) /\ Slack(f) = Slack(sk) /\ f.timers = sk.timers
      /\ f.state = sk.state /\ f.lock = "free" /\ f.ctx = sk.ctx /\ f.pc = "idle"
      /\ f.jobs = sk.jobs /\ f.flags = sk.flags /\ f.dev = sk.dev
      /\ f.freeing = sk.freeing /\ f.listed = sk.listed /\ f.running = sk.running
      /\ f.todo = sk.todo /\ f.rtx = sk.rtx
  BY <1>0, FreeSound
<1>2. [idle EXCEPT !.lock = "free"] = f
  BY <1>0 DEF Go
<1>3. /\ Sound(idle) /\ Slack(idle) = Slack(sk) /\ idle.timers = sk.timers
      /\ idle.state = sk.state /\ idle.lock = sk.lock /\ idle.ctx = sk.ctx /\ idle.pc = "idle"
      /\ idle.jobs = sk.jobs /\ idle.flags = sk.flags /\ idle.dev = sk.dev
      /\ idle.freeing = sk.freeing /\ idle.listed = sk.listed /\ idle.running = sk.running
      /\ idle.todo = sk.todo /\ idle.rtx = sk.rtx
  BY <1>0, GoSound DEF Pcs
<1>4. sk' = CASE sk.ctx = "user" -> idle
              [] sk.ctx = "release" -> Put([idle EXCEPT !.jobs = @ \ {FirstJob(@)}])
              [] sk.ctx = "tasklet" -> [f EXCEPT !.running = @ - 1, !.wmem = @ - 1]
              [] sk.ctx = "timer" -> Put(f)
              [] sk.ctx = "rcv" -> f
  BY <1>2 DEF Finish
<1> HIDE DEF f, idle
<1>5. sk.lock = IF sk.ctx = "user" THEN "user" ELSE "spin"
  BY <1>0 DEF Inv, LockInv, Socks, Locks
<1>6. sk.ctx # "release" => sk.jobs = {}
  BY <1>0 DEF Inv, LockInv
<1>7. CASE sk.ctx = "user"
  <2>1. sk' = idle
    BY <1>4, <1>7
  <2>2. MemInv(idle)
    BY <1>0, <1>3 DEF Inv, MemInv, Sound
  <2>3. RefsInv(idle)
    BY <1>0, <1>3 DEF Inv, RefsInv, FileRef, TimerRef
  <2>4. LockInv(idle)
    BY <1>0, <1>3, <1>5, <1>7 DEF Inv, LockInv, Sending
  <2>5. WakeInv(idle)
    BY <1>0, <1>3 DEF Inv, WakeInv, Wakeup, Queued, Own
  <2> QED BY <1>3, <2>1, <2>2, <2>3, <2>4, <2>5 DEF Inv, IInv, Sound
<1>8. CASE sk.ctx = "release"
  <2> DEFINE j == FirstJob(idle.jobs)
             a == [idle EXCEPT !.jobs = @ \ {j}]
  <2>0. /\ sk.lock = "spin" /\ sk.flags \cap Deferred = {}
        /\ ("tsq" \in sk.jobs \/ ("tsq" \notin sk.jobs /\ "write" \in sk.jobs))
    BY <1>0, <1>5, <1>8 DEF Inv, LockInv
  <2>1. sk' = Put(a)
    BY <1>3, <1>4, <1>8 DEF Sound, Socks
  <2>2. j \in idle.jobs /\ j \in {"tsq", "write"}
    <3>1. idle.jobs \in SUBSET Deferred /\ idle.jobs # {}
      BY <1>3, <2>0 DEF Sound, Socks, Jobs
    <3> QED BY <1>3, <2>0, <3>1, FirstJobIn
  <2> HIDE DEF j
  <2>3. Bit(j # "ack") = 1 /\ Slack(sk) = 1
    BY <1>0, <1>8, <2>0, <2>2 DEF Bit, Inv, RefsInv, FileRef, TimerRef
  <2>4. /\ Sound(a) /\ Slack(a) = 2
        /\ a.state = sk.state /\ a.lock = sk.lock /\ a.ctx = sk.ctx /\ a.pc = "idle"
        /\ a.jobs = sk.jobs \ {j} /\ a.flags = sk.flags /\ a.dev = sk.dev
        /\ a.freeing = sk.freeing /\ a.listed = sk.listed /\ a.running = sk.running
        /\ a.todo = sk.todo /\ a.rtx = sk.rtx /\ a.timers = sk.timers
    BY <1>3, <2>0, <2>2, <2>3, JobGone
  <2> HIDE DEF a
  <2>5. /\ Sound(sk') /\ Slack(sk') = 1 /\ SameWork(a, sk') /\ sk'.timers = a.timers
    BY <2>1, <2>4, PutKept DEF Kept
  <2>6. MemInv(sk')
    BY <1>0, <2>4, <2>5 DEF Inv, MemInv, Sound, SameWork
  <2>7. RefsInv(sk')
    BY <1>8, <2>0, <2>4, <2>5 DEF RefsInv, FileRef, TimerRef, SameWork, Bit
  <2>8. LockInv(sk')
    BY <1>0, <1>8, <2>0, <2>4, <2>5 DEF Inv, LockInv, Sending, SameWork
  <2>9. WakeInv(sk')
    BY <1>0, <2>4, <2>5 DEF Inv, WakeInv, Wakeup, Queued, Own, SameWork
  <2> QED BY <2>5, <2>6, <2>7, <2>8, <2>9 DEF Inv, IInv, Sound
<1>9. CASE sk.ctx = "tasklet"
  <2> DEFINE n == f.running - 1
             w == f.wmem - 1
  <2>1. sk' = [f EXCEPT !.running = n, !.wmem = w]
    BY <1>4, <1>9
  <2>2. f \in Socks /\ f.wmem = Units(f) /\ f.running > 0 /\ f.running \in Nat
    BY <1>0, <1>1, <1>5, <1>9 DEF Inv, LockInv, Sound, Socks
  <2>3. n \in Nat /\ w \in Nat /\ n = f.running - 1 /\ w = f.wmem - 1
    BY <2>2, UnitsNat, DeferAssumption DEF Units, Bit, Socks
  <2> HIDE DEF n, w
  <2>4. sk' \in Socks
    BY <2>1, <2>2, <2>3 DEF Socks
  <2>5. /\ sk'.state = f.state /\ sk'.lock = f.lock /\ sk'.ctx = f.ctx /\ sk'.pc = f.pc
        /\ sk'.jobs = f.jobs /\ sk'.flags = f.flags /\ sk'.dev = f.dev
        /\ sk'.freeing = f.freeing /\ sk'.listed = f.listed /\ sk'.running = n
        /\ sk'.todo = f.todo /\ sk'.rtx = f.rtx /\ sk'.timers = f.timers
        /\ sk'.refs = f.refs /\ sk'.wmem = w /\ sk'.bug = f.bug
    BY <2>1, <2>2 DEF Socks
  <2>6. Slack(sk') = Slack(f)
    BY <2>5 DEF Slack
  <2>7. sk'.wmem = Units(sk')
    BY <2>2, <2>3, <2>5, UnitsNat DEF Units, Bit, Socks
  <2>8. Sound(sk')
    BY <1>1, <2>4, <2>5, <2>7 DEF Sound
  <2>9. RefsInv(sk')
    BY <1>0, <1>1, <1>5, <1>9, <2>5, <2>6 DEF Inv, RefsInv, FileRef, TimerRef
  <2>10. Own(sk) = 1
    BY <1>5, <1>9 DEF Own, Bit
  <2> QED BY <1>0, <1>1, <1>6, <1>9, <2>3, <2>5, <2>8, <2>9, <2>10, FreeInv DEF IInv
<1>10. CASE sk.ctx = "timer"
  <2>1. sk' = Put(f)
    BY <1>4, <1>10
  <2>2. Slack(sk) = Bit(sk.state # "CLOSE") + 1 /\ Bit(sk.state # "CLOSE") \in {0, 1}
    BY <1>0, <1>5, <1>10 DEF Inv, RefsInv, FileRef, TimerRef, Bit
  <2>3. /\ Sound(sk') /\ Slack(sk') = Slack(f) - 1 /\ SameWork(f, sk') /\ sk'.timers = f.timers
    BY <1>1, <2>1, <2>2, PutKept DEF Kept
  <2>4. RefsInv(sk')
    BY <1>1, <1>10, <2>2, <2>3 DEF RefsInv, FileRef, TimerRef, SameWork, Bit
  <2>5. Own(sk) = 0 /\ sk.running - 0 = sk.running
    BY <1>0, <1>10 DEF Own, Bit
  <2> QED BY <1>0, <1>1, <1>6, <1>10, <2>3, <2>4, <2>5, FreeInv DEF IInv, SameWork
<1>11. CASE sk.ctx = "rcv"
  <2>1. sk' = f
    BY <1>4, <1>11
  <2>2. RefsInv(f)
    BY <1>0, <1>1, <1>5, <1>11 DEF Inv, RefsInv, FileRef, TimerRef
  <2>3. Own(sk) = 0 /\ sk.running - 0 = sk.running
    BY <1>0, <1>11 DEF Own, Bit
  <2> QED BY <1>0, <1>1, <1>6, <1>11, <2>1, <2>2, <2>3, FreeInv DEF IInv
<1> QED BY <1>0, <1>7, <1>8, <1>9, <1>10, <1>11 DEF Ctxs

\* The work that was left is done, each job's reference put after it.
LEMMA ReleaseJobInv ==
  ASSUME IInv, NEW ok, ReleaseJob(ok)
  PROVE  IInv'
<1> DEFINE j == FirstJob(sk.jobs)
           a == [sk EXCEPT !.jobs = @ \ {j}]
<1>0. /\ Inv(sk) /\ sk \in Socks /\ Sound(sk) /\ sk.ctx = "release" /\ sk.lock = "spin"
      /\ sk.pc = "idle" /\ sk.jobs # {} /\ sk.flags \cap Deferred = {}
      /\ sk.jobs \in SUBSET Deferred
  BY InvKept DEF IInv, ReleaseJob, Inv, LockInv, Socks, Jobs
<1>1. /\ j \in sk.jobs /\ ("tsq" \in sk.jobs => j = "tsq")
      /\ ("tsq" \notin sk.jobs /\ "write" \in sk.jobs => j = "write")
  BY <1>0, FirstJobIn
<1>2. Slack(sk) = 1 /\ j \in Deferred
  BY <1>0, <1>1 DEF Inv, RefsInv, FileRef, TimerRef, Bit
<1>3. sk' = CASE j = "tsq" -> Go(sk, TsqPc(sk))
              [] j = "write" -> Go(sk, "resend")
              [] j = "delack" -> Put(DelackHandler(a, ok))
              [] j = "mtu" -> Put(a)
              [] j = "ack" -> IF "sched" \in a.pend THEN SendAck(a, ok) ELSE a
  BY DEF ReleaseJob
<1>4. /\ Sound(a) /\ Slack(a) = Slack(sk) + Bit(j # "ack") /\ SameAcks(sk, a)
      /\ a.state = sk.state /\ a.lock = sk.lock /\ a.ctx = sk.ctx /\ a.pc = sk.pc
      /\ a.jobs = sk.jobs \ {j} /\ a.flags = sk.flags /\ a.dev = sk.dev
      /\ a.freeing = sk.freeing /\ a.listed = sk.listed /\ a.running = sk.running
      /\ a.todo = sk.todo /\ a.rtx = sk.rtx /\ a.timers = sk.timers
  BY <1>0, <1>1, <1>2, JobGone
<1> HIDE DEF j, a
<1>5. Kept(a)
  BY <1>2, <1>4 DEF Kept, Bit
<1>6. ASSUME NEW t, Sound(t), Slack(t) = 1, SameWork(a, t), j \notin {"tsq", "write"},
             "pace" \in a.timers => "pace" \in t.timers
      PROVE  Inv(t)
  <2>0. "tsq" \notin sk.jobs
    BY <1>1, <1>6
  <2>1. t \in Socks /\ MemInv(t)
    BY <1>0, <1>4, <1>6 DEF Inv, MemInv, Sound, SameWork
  <2>2. RefsInv(t)
    BY <1>0, <1>4, <1>6 DEF RefsInv, FileRef, TimerRef, SameWork, Bit
  <2>3. LockInv(t)
    BY <1>0, <1>4, <1>6 DEF Inv, LockInv, Sending, SameWork
  <2>4. WakeInv(t)
    BY <1>0, <1>4, <1>6, <2>0 DEF Inv, WakeInv, Wakeup, Queued, Own, SameWork
  <2> QED BY <2>1, <2>2, <2>3, <2>4 DEF Inv
<1>7. ASSUME NEW p \in {"xmit", "done", "resend"}, sk' = Go(sk, p),
             IF p = "resend" THEN j = "write" ELSE j = "tsq",
             p = "xmit" => sk.state # "CLOSE", p = "done" => sk.todo = 0
      PROVE  IInv'
  <2>1. /\ Sound(sk') /\ Slack(sk') = Slack(sk) /\ sk'.timers = sk.timers
        /\ sk'.state = sk.state /\ sk'.lock = sk.lock /\ sk'.ctx = sk.ctx /\ sk'.pc = p
        /\ sk'.jobs = sk.jobs /\ sk'.flags = sk.flags /\ sk'.dev = sk.dev
        /\ sk'.freeing = sk.freeing /\ sk'.listed = sk.listed /\ sk'.running = sk.running
        /\ sk'.todo = sk.todo /\ sk'.rtx = sk.rtx
    BY <1>0, <1>7, GoSound DEF Pcs
  <2>2. sk' \in Socks /\ MemInv(sk')
    BY <1>0, <2>1 DEF Inv, MemInv, Sound
  <2>3. RefsInv(sk')
    BY <1>0, <2>1 DEF Inv, RefsInv, FileRef, TimerRef
  <2>4. p = "resend" => "write" \in sk.jobs /\ "tsq" \notin sk.jobs
    BY <1>1, <1>7
  <2>5. p # "resend" => "tsq" \in sk.jobs
    BY <1>1, <1>7
  <2>6. LockInv(sk')
    BY <1>0, <1>7, <2>1, <2>4, <2>5 DEF Inv, LockInv, Sending
  <2>7. WakeInv(sk')
    BY <1>0, <1>7, <2>1, <2>4 DEF Inv, WakeInv, Wakeup, Queued, Own
  <2> QED BY <2>2, <2>3, <2>6, <2>7 DEF Inv, IInv
<1>8. CASE j = "tsq"
  <2>1. sk.state = "CLOSE" => sk.todo = 0
    BY <1>0 DEF Inv, LockInv
  <2> QED BY <1>3, <1>7, <1>8, <2>1 DEF TsqPc
<1>9. CASE j = "write"
  <2>1. sk' = Go(sk, "resend")
    BY <1>3, <1>9
  <2> QED BY <1>7, <1>9, <2>1
<1>10. CASE j = "delack"
  <2> DEFINE b == DelackHandler(a, ok)
  <2>1. sk' = Put(b)
    BY <1>3, <1>10
  <2>2. Quiet(a, b) /\ Kept(b) /\ Slack(a) = 2
    BY <1>2, <1>4, <1>5, <1>10, DelackHandlerQuiet DEF Quiet, Bit
  <2> HIDE DEF b
  <2>3. Sound(sk') /\ Slack(sk') = Slack(b) - 1 /\ SameWork(b, sk') /\ sk'.timers = b.timers
    BY <2>1, <2>2, PutKept
  <2>4. Slack(sk') = 1 /\ SameWork(a, sk') /\ ("pace" \in a.timers => "pace" \in sk'.timers)
    BY <2>2, <2>3 DEF Quiet, SameWork
  <2> QED BY <1>6, <1>10, <2>3, <2>4 DEF IInv
<1>11. CASE j = "mtu"
  <2>1. sk' = Put(a)
    BY <1>3, <1>11
  <2>2. Slack(a) = 2
    BY <1>2, <1>4, <1>11 DEF Bit
  <2>3. Sound(sk') /\ Slack(sk') = Slack(a) - 1 /\ SameWork(a, sk') /\ sk'.timers = a.timers
    BY <1>5, <2>1, PutKept
  <2> QED BY <1>6, <1>11, <2>2, <2>3 DEF IInv
<1>12. CASE j = "ack"
  <2>1. Slack(a) = 1 /\ sk' = IF "sched" \in a.pend THEN SendAck(a, ok) ELSE a
    BY <1>2, <1>3, <1>4, <1>12 DEF Bit
  <2>2. Quiet(a, SendAck(a, ok))
    BY <1>5, SendAckQuiet
  <2>3. Quiet(a, a)
    BY <1>5 DEF Quiet, SameWork
  <2>4. Quiet(a, sk')
    BY <2>1, <2>2, <2>3
  <2> QED BY <1>6, <1>12, <2>1, <2>4 DEF IInv, Quiet, Kept
<1> QED BY <1>2, <1>8, <1>9, <1>10, <1>11, <1>12 DEF Deferred

-----------------------------------------------------------------------------
(* Packets *)

\* The delay of an acknowledgement is one a timer can be set to.
LEMMA DelaysLeft == Delays \subseteq Left
<1> SUFFICES ASSUME NEW ato \in Atos, NEW rtt \in 0 .. DelackMax
             PROVE  Ato(ato, rtt) \in Left
  BY DEF Delays
<1>1. ato \in Nat /\ rtt \in Nat /\ DelackMax \in Nat /\ DelackMin \in Nat
  BY DeferAssumption
<1> QED BY <1>1, DeferAssumption DEF Ato, Left, MinOf, MaxOf

\* Counters that no part of the invariant depends on may change.
LEMMA CounterInv ==
  ASSUME NEW s, Inv(s), NEW e \in Nat, NEW b \in Nat
  PROVE  LET t == [s EXCEPT !.events = e, !.backlog = b]
         IN  /\ Inv(t) /\ SameWork(s, t) /\ SameAcks(s, t) /\ t.timers = s.timers
<1> DEFINE t == [s EXCEPT !.events = e, !.backlog = b]
<1>1. s \in Socks /\ Sound(s)
  BY InvKept
<1>2. t \in Socks
  BY <1>1 DEF Socks
<1>3. /\ SameWork(s, t) /\ SameAcks(s, t) /\ t.timers = s.timers /\ t.refs = s.refs
      /\ t.wmem = s.wmem /\ t.bug = s.bug
  BY <1>1 DEF Socks, SameWork, SameAcks
<1> HIDE DEF t
<1>4. Sound(t) /\ Slack(t) = Slack(s)
  BY <1>1, <1>2, <1>3, SameCounts DEF SameWork
<1>5. Inv(t)
  BY <1>3, <1>4, StillInv
<1> QED BY <1>3, <1>5 DEF t

\* A segment with data leaves the socket in order.
LEMMA DataInv ==
  ASSUME NEW s, Inv(s), NEW how \in {"now", "delay", "compress"}, NEW ato \in Left, NEW ok
  PROVE  Inv(Data(s, how, ato, ok)) /\ Prompt(s, Data(s, how, ato, ok))
<1> DEFINE t == Data(s, how, ato, ok)
<1>1. CASE s.state = "CLOSE"
  <2>1. t = s
    BY <1>1 DEF Data
  <2>2. Prompt(s, s)
    BY DEF Prompt, Inv, Socks, Left
  <2> QED BY <2>1, <2>2
<1>2. CASE s.state # "CLOSE"
  <2>1. Kept(s)
    BY <1>2, InvKept DEF FileRef
  <2>2. \/ Quiet(s, t) /\ Prompt(s, t)
        \/ /\ s.lock = "user" /\ Kept(t) /\ Slack(t) = Slack(s) /\ SameButFlags(s, t)
           /\ t.timers = s.timers /\ t.flags = s.flags \cup {"ack"} /\ Prompt(s, t)
    BY <1>2, <2>1, DataKept
  <2> HIDE DEF t
  <2>3. CASE Quiet(s, t) /\ Prompt(s, t)
    BY <2>3, StillInv DEF Quiet, Kept, t
  <2>4. CASE /\ s.lock = "user" /\ Kept(t) /\ Slack(t) = Slack(s) /\ SameButFlags(s, t)
             /\ t.timers = s.timers /\ t.flags = s.flags \cup {"ack"} /\ Prompt(s, t)
    <3>1. "ack" \in Deferred
      BY DEF Deferred
    <3> QED BY <2>4, <3>1, DeferredInv DEF Kept, t
  <2> QED BY <2>2, <2>3, <2>4
<1> QED BY <1>1, <1>2

\* The backlog is worked off.
LEMMA BacklogInv ==
  ASSUME IInv, NEW how \in {"now", "delay", "compress"}, NEW ato \in Left, NEW ok,
         Backlog(how, ato, ok)
  PROVE  IInv' /\ Prompt(sk, sk')
<1> DEFINE b == sk.backlog - 1
           e == sk.events
           t == [sk EXCEPT !.events = e, !.backlog = b]
<1>1. Inv(sk) /\ sk \in Socks /\ b \in Nat /\ e \in Nat
  BY DEF IInv, Inv, Backlog, Socks
<1>2. [sk EXCEPT !.backlog = @ - 1] = t
  BY <1>1 DEF Socks
<1>3. sk' = Data(t, how, ato, ok)
  BY <1>2 DEF Backlog
<1> HIDE DEF b, e
<1>4. Inv(t) /\ SameAcks(sk, t)
  BY <1>1, CounterInv
<1> HIDE DEF t
<1>5. Inv(sk') /\ Prompt(t, sk')
  BY <1>3, <1>4, DataInv
<1> QED BY <1>4, <1>5 DEF IInv, Prompt, SameAcks

\* A segment with data arrives.
LEMMA RcvDataInv ==
  ASSUME IInv, NEW how \in {"now", "delay", "compress"}, NEW ato \in Left, NEW ok, NEW joins,
         RcvData(how, ato, joins, ok)
  PROVE  IInv' /\ Prompt(sk, sk')
<1> DEFINE b == sk.backlog
           e == sk.events + 1
           t == [sk EXCEPT !.events = e, !.backlog = b]
           u == [sk EXCEPT !.events = e, !.backlog = b + 1]
<1>1. Inv(sk) /\ sk \in Socks /\ b \in Nat /\ e \in Nat /\ b + 1 \in Nat
  BY DEF IInv, Inv, RcvData, Socks
<1>2. /\ [sk EXCEPT !.events = @ + 1] = t
      /\ [[sk EXCEPT !.events = @ + 1] EXCEPT !.backlog = @ + 1] = u
  BY <1>1 DEF Socks
<1>3. sk' = Data(t, how, ato, ok) \/ sk' = t \/ sk' = u
  BY <1>2 DEF RcvData
<1> HIDE DEF b, e
<1>4. Inv(t) /\ SameAcks(sk, t) /\ Inv(u) /\ SameAcks(sk, u)
  BY <1>1, CounterInv
<1> HIDE DEF t, u
<1>5. CASE sk' = Data(t, how, ato, ok)
  <2>1. Inv(sk') /\ Prompt(t, sk')
    BY <1>4, <1>5, DataInv
  <2> QED BY <1>4, <2>1 DEF IInv, Prompt, SameAcks
<1>6. CASE sk' = t \/ sk' = u
  <2>1. sk.ackLeft <= sk.ackLeft
    BY <1>1 DEF Socks, Left
  <2> QED BY <1>4, <1>6, <2>1 DEF IInv, Prompt, SameAcks
<1> QED BY <1>3, <1>5, <1>6

\* A path MTU to be looked at when the owner lets go
LEMMA RcvFragNeededInv ==
  ASSUME IInv, RcvFragNeeded
  PROVE  IInv' /\ SameAcks(sk, sk')
<1> DEFINE b == sk.backlog
           e == sk.events + 1
           t == [sk EXCEPT !.events = e, !.backlog = b]
<1>1. Inv(sk) /\ sk \in Socks /\ b \in Nat /\ e \in Nat /\ sk.state # "CLOSE"
      /\ sk.lock # "spin"
  BY DEF IInv, Inv, RcvFragNeeded, Socks
<1>2. [sk EXCEPT !.events = @ + 1] = t
  BY <1>1 DEF Socks
<1>3. sk' = IF sk.lock = "free" THEN t ELSE Defer(t, "mtu")
  BY <1>2 DEF RcvFragNeeded
<1> HIDE DEF b, e
<1>4. Inv(t) /\ SameAcks(sk, t) /\ SameWork(sk, t)
  BY <1>1, CounterInv
<1> HIDE DEF t
<1>5. CASE sk.lock = "free"
  BY <1>3, <1>4, <1>5 DEF IInv
<1>6. CASE sk.lock # "free"
  <2>1. t.lock = "user" /\ t.state # "CLOSE"
    BY <1>1, <1>4, <1>6 DEF SameWork, Socks, Locks
  <2>2. Kept(t) /\ t.jobs = {}
    BY <1>4, <2>1, InvKept DEF FileRef, Inv, LockInv
  <2>3. sk' = Defer(t, "mtu") /\ "mtu" \in Counted /\ "mtu" \in Deferred
    BY <1>3, <1>6 DEF Counted, Deferred
  <2>4. /\ Kept(sk') /\ Slack(sk') = Slack(t) /\ SameButFlags(t, sk') /\ SameAcks(t, sk')
        /\ sk'.timers = t.timers /\ sk'.flags = t.flags \cup {"mtu"}
    BY <2>2, <2>3, DeferKept
  <2>5. Inv(sk')
    BY <1>4, <2>1, <2>3, <2>4, DeferredInv DEF Kept
  <2> QED BY <1>4, <2>4, <2>5 DEF IInv, SameAcks
<1> QED BY <1>5, <1>6

-----------------------------------------------------------------------------
(* Softirqs *)

\* A softirq takes the lock.
LEMMA EnterSound ==
  ASSUME NEW s, Sound(s), NEW c \in Ctxs, NEW p \in Pcs
  PROVE  LET t == Enter(s, c, p)
         IN  /\ Sound(t) /\ Slack(t) = Slack(s) /\ SameAcks(s, t) /\ t.timers = s.timers
             /\ t.state = s.state /\ t.lock = "spin" /\ t.ctx = c /\ t.pc = p
             /\ t.jobs = s.jobs /\ t.flags = s.flags /\ t.dev = s.dev
             /\ t.freeing = s.freeing /\ t.listed = s.listed /\ t.running = s.running
             /\ t.todo = s.todo /\ t.rtx = s.rtx
<1> DEFINE t == [s EXCEPT !.lock = "spin", !.ctx = c, !.pc = p]
<1>1. s \in Socks /\ "spin" \in Locks
  BY DEF Sound, Locks
<1>2. t \in Socks
  BY <1>1 DEF Socks
<1>3. /\ SameAcks(s, t) /\ t.timers = s.timers
      /\ t.state = s.state /\ t.lock = "spin" /\ t.ctx = c /\ t.pc = p
      /\ t.jobs = s.jobs /\ t.flags = s.flags /\ t.dev = s.dev
      /\ t.freeing = s.freeing /\ t.listed = s.listed /\ t.running = s.running
      /\ t.todo = s.todo /\ t.rtx = s.rtx
      /\ t.refs = s.refs /\ t.wmem = s.wmem /\ t.bug = s.bug
  BY <1>1 DEF Socks, SameAcks
<1>4. Enter(s, c, p) = t
  BY DEF Enter
<1> HIDE DEF t
<1>5. Sound(t) /\ Slack(t) = Slack(s)
  BY <1>2, <1>3, SameCounts
<1> QED BY <1>3, <1>4, <1>5

\* A softirq that takes a free lock finds the socket in order.
LEMMA EnterInv ==
  ASSUME NEW s, Inv(s), s.lock = "free", NEW t, Sound(t),
         t.lock = "spin", t.ctx \in {"tasklet", "timer", "rcv"},
         Slack(t) = Slack(s) + Bit(t.ctx = "timer"),
         t.pc \in {"xmit", "resend", "done"},
         t.jobs = s.jobs, t.state = s.state, t.flags = s.flags, t.dev = s.dev,
         t.freeing = s.freeing, t.listed = s.listed, t.running = s.running,
         t.todo = s.todo, t.state # "CLOSE" \/ t.rtx = s.rtx,
         t.pc = "xmit" => s.state # "CLOSE", t.pc = "done" => s.todo = 0,
         t.pc = "resend" => t.ctx = "timer" /\ ("pace" \in s.timers => "pace" \in t.timers),
         t.ctx = "tasklet" => s.running > 0
  PROVE  Inv(t)
<1>0. s.jobs = {} /\ s.pc = "idle"
  BY DEF Inv, LockInv
<1>1. t \in Socks /\ MemInv(t)
  BY DEF Inv, Sound, MemInv
<1>2. RefsInv(t)
  <2>1. Slack(s) = Bit(s.state # "CLOSE") + 0 /\ Bit(s.state # "CLOSE") \in {0, 1}
    BY DEF Inv, RefsInv, FileRef, TimerRef, Bit
  <2>2. Bit(FileRef(t)) = Bit(s.state # "CLOSE") /\ Bit(TimerRef(t)) = Bit(t.ctx = "timer")
    BY DEF FileRef, TimerRef, Bit
  <2> QED BY <2>1, <2>2 DEF RefsInv
<1>3. LockInv(t)
  BY <1>0 DEF Inv, LockInv, Sending
<1>4. WakeInv(t)
  <2>1. CASE t.pc = "xmit" \/ t.pc = "done"
    BY <2>1 DEF WakeInv, Inv, Socks
  <2>2. CASE t.pc = "resend"
    BY <1>0, <2>2 DEF Inv, WakeInv, Wakeup, Queued, Own
  <2> QED BY <2>1, <2>2
<1> QED BY <1>1, <1>2, <1>3, <1>4 DEF Inv

\* The device is through with a buffer: all but one of its units are given back.
LEMMA CompleteInv ==
  ASSUME IInv, Complete
  PROVE  IInv' /\ SameAcks(sk, sk')
<1> DEFINE d == sk.dev - 1
           f == sk.freeing + 1
           w == sk.wmem - (Truesize - 1)
<1>0. /\ Inv(sk) /\ sk \in Socks /\ Sound(sk) /\ sk.dev > 0 /\ sk.dev \in Nat
      /\ sk.freeing \in Nat /\ sk.wmem \in Nat /\ sk.wmem = Units(sk)
      /\ Truesize \in Nat /\ Truesize > 3
  BY InvKept, DeferAssumption DEF IInv, Complete, Inv, Socks, Sound
<1>1. sk' = [sk EXCEPT !.dev = d, !.freeing = f, !.wmem = w]
  BY DEF Complete
<1>2. Truesize * sk.dev = Truesize * d + Truesize /\ d \in Nat
  BY <1>0
<1>3. Truesize * d \in Nat
  BY <1>0, <1>2
<1>4. f \in Nat /\ w \in Nat
  BY <1>0, <1>2, <1>3 DEF Units, Bit, Socks
<1>a. d = sk.dev - 1 /\ f = sk.freeing + 1 /\ w = sk.wmem - (Truesize - 1)
  OBVIOUS
<1> HIDE DEF d, f, w
<1>5. sk' \in Socks
  BY <1>0, <1>1, <1>2, <1>4 DEF Socks
<1>6. /\ sk'.state = sk.state /\ sk'.lock = sk.lock /\ sk'.ctx = sk.ctx /\ sk'.pc = sk.pc
      /\ sk'.jobs = sk.jobs /\ sk'.flags = sk.flags /\ sk'.dev = d
      /\ sk'.freeing = f /\ sk'.listed = sk.listed /\ sk'.running = sk.running
      /\ sk'.todo = sk.todo /\ sk'.rtx = sk.rtx /\ sk'.timers = sk.timers
      /\ sk'.refs = sk.refs /\ sk'.wmem = w /\ sk'.bug = sk.bug /\ SameAcks(sk, sk')
  BY <1>0, <1>1 DEF Socks, SameAcks
<1>7. Slack(sk') = Slack(sk)
  BY <1>6 DEF Slack
<1>8. sk'.wmem = Units(sk')
  BY <1>0, <1>2, <1>3, <1>4, <1>6, <1>a DEF Units, Bit, Socks
<1>9. MemInv(sk')
  BY <1>0, <1>6, <1>8 DEF Inv, MemInv
<1>10. RefsInv(sk')
  BY <1>0, <1>6, <1>7 DEF Inv, RefsInv, FileRef, TimerRef
<1>11. LockInv(sk')
  BY <1>0, <1>6 DEF Inv, LockInv
<1>12. WakeInv(sk')
  <2>1. sk'.dev + sk'.freeing = sk.dev + sk.freeing
    BY <1>0, <1>6, <1>a
  <2>2. Wakeup(sk) => Wakeup(sk')
    BY <1>6, <2>1 DEF Wakeup, Queued, Own
  <2>3. Queued(sk) => Queued(sk')
    BY <1>6 DEF Queued, Own
  <2> QED BY <1>0, <1>6, <2>2, <2>3 DEF Inv, WakeInv
<1> QED BY <1>5, <1>6, <1>9, <1>10, <1>11, <1>12 DEF Inv, IInv

\* The tasklet takes the socket from its list.
LEMMA TaskletTakeInv ==
  ASSUME IInv, TaskletTake
  PROVE  IInv' /\ SameAcks(sk, sk')
<1> DEFINE F == sk.flags \ {"queued"}
           n == sk.running + 1
<1>0. /\ Inv(sk) /\ sk \in Socks /\ Sound(sk) /\ sk.listed /\ sk.running \in Nat
      /\ sk.wmem = Units(sk)
  BY InvKept DEF IInv, TaskletTake, Inv, Socks, Sound
<1>1. sk' = [sk EXCEPT !.listed = FALSE, !.flags = F, !.running = n]
  BY DEF TaskletTake
<1>2. /\ F \in FlagSets /\ n \in Nat /\ n = sk.running + 1 /\ F = sk.flags \ {"queued"}
      /\ F \cap Counted = sk.flags \cap Counted /\ F \cap Deferred = sk.flags \cap Deferred
  BY <1>0 DEF FlagSets, Socks, Counted, Deferred
<1> HIDE DEF F, n
<1>3. sk' \in Socks
  BY <1>0, <1>1, <1>2 DEF Socks
<1>4. /\ sk'.state = sk.state /\ sk'.lock = sk.lock /\ sk'.ctx = sk.ctx /\ sk'.pc = sk.pc
      /\ sk'.jobs = sk.jobs /\ sk'.flags = F /\ sk'.dev = sk.dev
      /\ sk'.freeing = sk.freeing /\ sk'.listed = FALSE /\ sk'.running = n
      /\ sk'.todo = sk.todo /\ sk'.rtx = sk.rtx /\ sk'.timers = sk.timers
      /\ sk'.refs = sk.refs /\ sk'.wmem = sk.wmem /\ sk'.bug = sk.bug /\ SameAcks(sk, sk')
  BY <1>0, <1>1 DEF Socks, SameAcks
<1>5. (sk'.flags \cup sk'.jobs) \cap Counted = (sk.flags \cup sk.jobs) \cap Counted
  BY <1>2, <1>4
<1>6. Slack(sk') = Slack(sk)
  BY <1>4, <1>5 DEF Slack
<1>7. sk'.wmem = Units(sk')
  BY <1>0, <1>2, <1>4, UnitsNat DEF Units, Bit, Socks
<1>8. MemInv(sk')
  BY <1>0, <1>2, <1>4, <1>7 DEF Inv, MemInv
<1>9. RefsInv(sk')
  BY <1>0, <1>4, <1>6 DEF Inv, RefsInv, FileRef, TimerRef
<1>10. LockInv(sk')
  BY <1>0, <1>2, <1>4 DEF Inv, LockInv
<1>11. WakeInv(sk')
  <2>1. sk'.running > Own(sk')
    BY <1>0, <1>2, <1>4 DEF Own, Bit, Inv, LockInv
  <2> QED BY <2>1 DEF WakeInv, Wakeup, Queued
<1> QED BY <1>3, <1>4, <1>8, <1>9, <1>10, <1>11 DEF Inv, IInv

\* The end of a completion: under stress it leaves the wakeup to another one
\* only while there is one, and otherwise it passes its unit of memory on to
\* the tasklet's list.
LEMMA WfreeStepInv ==
  ASSUME IInv, NEW stress \in BOOLEAN, WfreeStep(stress)
  PROVE  IInv' /\ SameAcks(sk, sk')
<1> DEFINE f == sk.freeing - 1
           w == sk.wmem - 1
           F == (sk.flags \ {"throttled"}) \cup {"queued"}
<1>0. /\ Inv(sk) /\ sk \in Socks /\ Sound(sk) /\ sk.freeing > 0 /\ sk.freeing \in Nat
      /\ sk.wmem \in Nat /\ sk.wmem = Units(sk) /\ sk.dev \in Nat /\ sk.running \in Nat
      /\ Truesize \in Nat /\ Truesize > 3 /\ Truesize * sk.dev \in Nat
  BY InvKept, UnitsNat, DeferAssumption DEF IInv, WfreeStep, Inv, Socks, Sound
<1>1. f \in Nat /\ f = sk.freeing - 1
  BY <1>0
<1>2. w \in Nat /\ w = sk.wmem - 1
  BY <1>0 DEF Units, Bit
<1>3. /\ F \in FlagSets /\ F \cap Counted = sk.flags \cap Counted
      /\ F \cap Deferred = sk.flags \cap Deferred /\ "queued" \in F
  BY <1>0 DEF FlagSets, Socks, Counted, Deferred, Flags
<1>4. \/ /\ (stress /\ sk.wmem >= Truesize) \/ "throttled" \notin sk.flags \/ "queued" \in sk.flags
         /\ sk' = [sk EXCEPT !.freeing = f, !.wmem = w]
      \/ /\ "throttled" \in sk.flags /\ "queued" \notin sk.flags
         /\ sk' = [sk EXCEPT !.freeing = f, !.flags = F, !.listed = TRUE]
  BY <1>0 DEF WfreeStep, Socks
<1> HIDE DEF f, w, F
<1>5. CASE /\ (stress /\ sk.wmem >= Truesize) \/ "throttled" \notin sk.flags \/ "queued" \in sk.flags
           /\ sk' = [sk EXCEPT !.freeing = f, !.wmem = w]
  <2>1. sk' \in Socks
    BY <1>0, <1>1, <1>2, <1>5 DEF Socks
  <2>2. /\ sk'.state = sk.state /\ sk'.lock = sk.lock /\ sk'.ctx = sk.ctx /\ sk'.pc = sk.pc
        /\ sk'.jobs = sk.jobs /\ sk'.flags = sk.flags /\ sk'.dev = sk.dev
        /\ sk'.freeing = f /\ sk'.listed = sk.listed /\ sk'.running = sk.running
        /\ sk'.todo = sk.todo /\ sk'.rtx = sk.rtx /\ sk'.timers = sk.timers
        /\ sk'.refs = sk.refs /\ sk'.wmem = w /\ sk'.bug = sk.bug /\ SameAcks(sk, sk')
    BY <1>0, <1>5 DEF Socks, SameAcks
  <2>3. Slack(sk') = Slack(sk)
    BY <2>2 DEF Slack
  <2>4. sk'.wmem = Units(sk')
    BY <1>0, <1>1, <1>2, <2>2 DEF Units, Bit
  <2>5. MemInv(sk')
    BY <1>0, <2>2, <2>4 DEF Inv, MemInv
  <2>6. RefsInv(sk')
    BY <1>0, <2>2, <2>3 DEF Inv, RefsInv, FileRef, TimerRef
  <2>7. LockInv(sk')
    BY <1>0, <2>2 DEF Inv, LockInv
  <2>8. Queued(sk) => Queued(sk')
    BY <2>2 DEF Queued, Own
  <2>9. Wakeup(sk) => Wakeup(sk')
    <3>1. CASE "throttled" \in sk.flags /\ sk.dev + f = 0
      <4>1. sk.dev = 0 /\ sk.freeing = 1 /\ Truesize * 0 = 0
        BY <1>0, <1>1, <3>1
      <4>2. "queued" \in sk.flags => sk.listed
        BY <1>0 DEF Inv, MemInv
      <4>3. sk.wmem >= Truesize => sk.listed \/ sk.running > 1
        BY <1>0, <4>1 DEF Units, Bit
      <4>4. Queued(sk)
        BY <1>0, <1>5, <3>1, <4>2, <4>3 DEF Queued, Own, Bit
      <4> QED BY <2>8, <4>4 DEF Wakeup
    <3>2. CASE ~("throttled" \in sk.flags /\ sk.dev + f = 0)
      <4>1. "throttled" \in sk.flags => sk.dev + f > 0
        BY <1>0, <1>1, <3>2
      <4> QED BY <2>2, <2>8, <4>1 DEF Wakeup
    <3> QED BY <3>1, <3>2
  <2>10. WakeInv(sk')
    BY <1>0, <2>2, <2>8, <2>9 DEF Inv, WakeInv
  <2> QED BY <2>1, <2>2, <2>5, <2>6, <2>7, <2>10 DEF Inv, IInv
<1>6. CASE /\ "throttled" \in sk.flags /\ "queued" \notin sk.flags
           /\ sk' = [sk EXCEPT !.freeing = f, !.flags = F, !.listed = TRUE]
  <2>1. sk' \in Socks
    BY <1>0, <1>1, <1>3, <1>6 DEF Socks
  <2>2. /\ sk'.state = sk.state /\ sk'.lock = sk.lock /\ sk'.ctx = sk.ctx /\ sk'.pc = sk.pc
        /\ sk'.jobs = sk.jobs /\ sk'.flags = F /\ sk'.dev = sk.dev
        /\ sk'.freeing = f /\ sk'.listed = TRUE /\ sk'.running = sk.running
        /\ sk'.todo = sk.todo /\ sk'.rtx = sk.rtx /\ sk'.timers = sk.timers
        /\ sk'.refs = sk.refs /\ sk'.wmem = sk.wmem /\ sk'.bug = sk.bug /\ SameAcks(sk, sk')
    BY <1>0, <1>6 DEF Socks, SameAcks
  <2>3. (sk'.flags \cup sk'.jobs) \cap Counted = (sk.flags \cup sk.jobs) \cap Counted
    BY <1>3, <2>2
  <2>4. Slack(sk') = Slack(sk)
    BY <2>2, <2>3 DEF Slack
  <2>5. ~sk.listed
    BY <1>0, <1>6 DEF Inv, MemInv
  <2>6. sk'.wmem = Units(sk')
    BY <1>0, <1>1, <2>2, <2>5 DEF Units, Bit
  <2>7. MemInv(sk')
    BY <1>0, <1>3, <2>2, <2>6 DEF Inv, MemInv
  <2>8. RefsInv(sk')
    BY <1>0, <2>2, <2>4 DEF Inv, RefsInv, FileRef, TimerRef
  <2>9. LockInv(sk')
    BY <1>0, <1>3, <2>2 DEF Inv, LockInv
  <2>10. WakeInv(sk')
    BY <2>2 DEF WakeInv, Wakeup, Queued
  <2> QED BY <2>1, <2>2, <2>7, <2>8, <2>9, <2>10 DEF Inv, IInv
<1> QED BY <1>4, <1>5, <1>6

\* The tasklet runs the loop, or leaves it to the owner.
LEMMA TaskletRunInv ==
  ASSUME IInv, TaskletRun
  PROVE  IInv' /\ SameAcks(sk, sk')
<1>0. /\ Inv(sk) /\ sk \in Socks /\ Sound(sk) /\ sk.running > 0 /\ sk.lock # "spin"
      /\ sk.jobs = {} /\ sk.pc \in Pcs
  BY InvKept DEF IInv, TaskletRun, Inv, LockInv, Socks
<1>1. CASE sk.lock = "free"
  <2> DEFINE p == TsqPc(sk)
  <2>1. sk' = Enter(sk, "tasklet", p)
    BY <1>1 DEF TaskletRun
  <2>2. /\ p \in {"xmit", "done"} /\ (p = "xmit" => sk.state # "CLOSE")
        /\ (p = "done" => sk.todo = 0)
    BY <1>0 DEF TsqPc, Inv, LockInv
  <2> HIDE DEF p
  <2>3. /\ Sound(sk') /\ Slack(sk') = Slack(sk) /\ SameAcks(sk, sk') /\ sk'.timers = sk.timers
        /\ sk'.state = sk.state /\ sk'.lock = "spin" /\ sk'.ctx = "tasklet" /\ sk'.pc = p
        /\ sk'.jobs = sk.jobs /\ sk'.flags = sk.flags /\ sk'.dev = sk.dev
        /\ sk'.freeing = sk.freeing /\ sk'.listed = sk.listed /\ sk'.running = sk.running
        /\ sk'.todo = sk.todo /\ sk'.rtx = sk.rtx
    BY <1>0, <2>1, <2>2, EnterSound DEF Ctxs, Pcs
  <2>4. Slack(sk') = Slack(sk) + Bit(sk'.ctx = "timer")
    <3>1. Slack(sk) \in Nat
      BY <1>0, InvKept
    <3>2. Bit(sk'.ctx = "timer") = 0
      BY <2>3 DEF Bit
    <3> QED BY <2>3, <3>1, <3>2
  <2> QED BY <1>0, <1>1, <2>2, <2>3, <2>4, EnterInv DEF IInv
<1>2. CASE sk.lock = "user"
  <2> DEFINE a == Defer(sk, "tsq")
             n == a.running - 1
             w == a.wmem - 1
  <2>1. sk' = [a EXCEPT !.running = n, !.wmem = w]
    BY <1>2 DEF TaskletRun
  <2>2. Kept(sk) /\ "tsq" \in Counted /\ "tsq" \in Deferred
    BY <1>0, <1>2, InvKept DEF FileRef, Counted, Deferred
  <2>3. /\ Kept(a) /\ Slack(a) = Slack(sk) /\ SameButFlags(sk, a) /\ SameAcks(sk, a)
        /\ a.timers = sk.timers /\ a.flags = sk.flags \cup {"tsq"}
    BY <1>0, <2>2, DeferKept
  <2> HIDE DEF a
  <2>4. /\ a \in Socks /\ a.wmem = Units(a) /\ a.running \in Nat /\ a.running > 0
        /\ Truesize * a.dev \in Nat
    BY <1>0, <2>3, UnitsNat DEF Kept, Sound, SameButFlags, Socks
  <2>5. n \in Nat /\ w \in Nat /\ n = a.running - 1 /\ w = a.wmem - 1
    BY <2>4 DEF Units, Bit, Socks
  <2> HIDE DEF n, w
  <2>6. sk' \in Socks
    BY <2>1, <2>4, <2>5 DEF Socks
  <2>7. /\ sk'.state = a.state /\ sk'.lock = a.lock /\ sk'.ctx = a.ctx /\ sk'.pc = a.pc
        /\ sk'.jobs = a.jobs /\ sk'.flags = a.flags /\ sk'.dev = a.dev
        /\ sk'.freeing = a.freeing /\ sk'.listed = a.listed /\ sk'.running = n
        /\ sk'.todo = a.todo /\ sk'.rtx = a.rtx /\ sk'.timers = a.timers
        /\ sk'.refs = a.refs /\ sk'.wmem = w /\ sk'.bug = a.bug /\ SameAcks(a, sk')
    BY <2>1, <2>4 DEF Socks, SameAcks
  <2>8. Slack(sk') = Slack(sk)
    BY <2>3, <2>7 DEF Slack
  <2>9. sk'.wmem = Units(sk')
    BY <2>4, <2>5, <2>7 DEF Units, Bit, Socks
  <2>10. MemInv(sk')
    BY <1>0, <2>3, <2>7, <2>9 DEF Inv, MemInv, Kept, Sound, SameButFlags
  <2>11. RefsInv(sk')
    BY <1>0, <2>3, <2>7, <2>8 DEF Inv, RefsInv, FileRef, TimerRef, SameButFlags
  <2>12. LockInv(sk')
    BY <1>0, <1>2, <2>3, <2>7 DEF Inv, LockInv, SameButFlags
  <2>13. WakeInv(sk')
    BY <2>3, <2>7 DEF WakeInv, Wakeup
  <2> QED BY <2>3, <2>6, <2>7, <2>10, <2>11, <2>12, <2>13 DEF Inv, IInv, SameAcks
<1> QED BY <1>0, <1>1, <1>2 DEF Socks, Locks

\* A timer's handler runs at once, or leaves its work to the owner.
LEMMA FiredInv ==
  ASSUME NEW s, Inv(s), s.lock # "spin", NEW x \in s.timers, NEW u, Kept(u),
         Slack(u) = Slack(s) + 1, SameWork(s, u), u.timers = s.timers \ {x},
         NEW p \in {"xmit", "done", "resend"},
         p = "xmit" => s.state # "CLOSE", p = "done" => s.todo = 0,
         p = "resend" => x # "pace", NEW w \in Counted, w = "tsq" \/ x # "pace"
  PROVE  /\ s.lock = "free" => /\ Inv(Enter(u, "timer", p))
                               /\ SameAcks(u, Enter(u, "timer", p))
         /\ s.lock = "user" => Inv(Put(Defer(u, w))) /\ SameAcks(u, Put(Defer(u, w)))
<1>0. Sound(u) /\ Slack(s) \in Nat /\ s \in Socks /\ s.jobs = {}
  BY InvKept DEF Kept, Inv, LockInv
<1>1. CASE s.lock = "free"
  <2> DEFINE t == Enter(u, "timer", p)
  <2>1. /\ Sound(t) /\ Slack(t) = Slack(u) /\ SameAcks(u, t) /\ t.timers = u.timers
        /\ t.state = u.state /\ t.lock = "spin" /\ t.ctx = "timer" /\ t.pc = p
        /\ t.jobs = u.jobs /\ t.flags = u.flags /\ t.dev = u.dev
        /\ t.freeing = u.freeing /\ t.listed = u.listed /\ t.running = u.running
        /\ t.todo = u.todo /\ t.rtx = u.rtx
    BY <1>0, EnterSound DEF Ctxs, Pcs
  <2> HIDE DEF t
  <2>2. Slack(t) = Slack(s) + Bit(t.ctx = "timer")
    BY <2>1 DEF Bit
  <2>3. Inv(t)
    BY <1>1, <2>1, <2>2, EnterInv DEF SameWork
  <2> QED BY <1>1, <2>1, <2>3 DEF t
<1>2. CASE s.lock = "user"
  <2> DEFINE a == Defer(u, w)
             t == Put(a)
  <2>1. u.jobs = {} /\ w \in Deferred
    BY <1>0 DEF SameWork, Counted
  <2>2. /\ Kept(a) /\ Slack(a) = Slack(u) /\ SameButFlags(u, a) /\ SameAcks(u, a)
        /\ a.timers = u.timers /\ a.flags = u.flags \cup {w}
    BY <2>1, DeferKept
  <2> HIDE DEF a
  <2>3. /\ Sound(t) /\ Slack(t) = Slack(a) - 1 /\ SameWork(a, t) /\ SameAcks(a, t)
        /\ t.timers = a.timers
    BY <2>2, PutKept
  <2> HIDE DEF t
  <2>4. Slack(t) = Slack(s) /\ SameButFlags(s, t) /\ t.flags = s.flags \cup {w}
    BY <1>0, <2>2, <2>3 DEF SameWork, SameButFlags
  <2>5. w = "tsq" \/ ("pace" \in s.timers => "pace" \in t.timers)
    BY <2>2, <2>3
  <2>6. Inv(t)
    BY <1>2, <2>1, <2>3, <2>4, <2>5, DeferredInv
  <2> QED BY <1>2, <2>2, <2>3, <2>6 DEF a, t, SameAcks
<1> QED BY <1>1, <1>2

\* A timer that has fired still holds its reference.
LEMMA FiredKept ==
  ASSUME IInv, NEW x \in sk.timers
  PROVE  /\ Kept(Fired(x)) /\ Slack(Fired(x)) = Slack(sk) + 1 /\ SameWork(sk, Fired(x))
         /\ SameAcks(sk, Fired(x)) /\ Fired(x).timers = sk.timers \ {x}
         /\ x \in Timers /\ Fired(x) \in Socks
<1>1. Sound(sk) /\ Slack(sk) \in Nat /\ x \in Timers
  BY InvKept DEF IInv, Inv, Socks, TimerSets
<1>2. /\ Kept(Fired(x)) /\ Slack(Fired(x)) = Slack(sk) + 1 /\ SameWork(sk, Fired(x))
      /\ SameAcks(sk, Fired(x)) /\ Fired(x).timers = sk.timers \ {x}
  BY <1>1, TimerGone DEF Fired
<1> QED BY <1>1, <1>2 DEF Kept, Sound

\* The pacing timer starts the loop again.
LEMMA PaceKickInv ==
  ASSUME IInv, PaceKick
  PROVE  IInv' /\ SameAcks(sk, sk')
<1> DEFINE f == Fired("pace")
           u == [f EXCEPT !.early = FALSE]
           p == TsqPc(sk)
<1>0. Inv(sk) /\ "pace" \in sk.timers /\ sk.lock # "spin" /\ sk \in Socks
  BY DEF IInv, PaceKick, Inv
<1>1. /\ Kept(f) /\ Slack(f) = Slack(sk) + 1 /\ SameWork(sk, f)
      /\ SameAcks(sk, f) /\ f.timers = sk.timers \ {"pace"} /\ f \in Socks
  BY <1>0, FiredKept
<1>2. sk' = IF sk.lock = "free" THEN Enter(u, "timer", p) ELSE Put(Defer(u, "tsq"))
  BY DEF PaceKick
<1>3. /\ p \in {"xmit", "done"} /\ (p = "xmit" => sk.state # "CLOSE")
      /\ (p = "done" => sk.todo = 0)
  BY <1>0 DEF TsqPc, Inv, LockInv
<1> HIDE DEF p, f
<1>4. u \in Socks
  BY <1>1 DEF Socks
<1>5. /\ SameWork(f, u) /\ SameAcks(f, u) /\ u.timers = f.timers /\ u.refs = f.refs
      /\ u.wmem = f.wmem /\ u.bug = f.bug
  BY <1>1 DEF Socks, SameWork, SameAcks
<1> HIDE DEF u
<1>6. Kept(u) /\ Slack(u) = Slack(sk) + 1
  BY <1>1, <1>4, <1>5, SameCounts DEF Kept, SameWork
<1>7. SameWork(sk, u) /\ SameAcks(sk, u) /\ u.timers = sk.timers \ {"pace"}
  BY <1>1, <1>5 DEF SameWork, SameAcks
<1>8. "tsq" \in Counted
  BY DEF Counted, Deferred
<1>9. /\ sk.lock = "free" => Inv(Enter(u, "timer", p)) /\ SameAcks(u, Enter(u, "timer", p))
      /\ sk.lock = "user" => Inv(Put(Defer(u, "tsq"))) /\ SameAcks(u, Put(Defer(u, "tsq")))
  BY <1>0, <1>3, <1>6, <1>7, <1>8, FiredInv
<1>10. Inv(sk') /\ SameAcks(u, sk')
  BY <1>0, <1>2, <1>9 DEF Socks, Locks
<1> QED BY <1>7, <1>10 DEF IInv, SameAcks

\* The retransmission timer
LEMMA WriteTimerInv ==
  ASSUME IInv, WriteTimer
  PROVE  IInv' /\ SameAcks(sk, sk')
<1> DEFINE u == Fired("write")
<1>0. Inv(sk) /\ "write" \in sk.timers /\ sk.lock # "spin" /\ sk \in Socks
  BY DEF IInv, WriteTimer, Inv
<1>1. /\ Kept(u) /\ Slack(u) = Slack(sk) + 1 /\ SameWork(sk, u)
      /\ SameAcks(sk, u) /\ u.timers = sk.timers \ {"write"}
  BY <1>0, FiredKept
<1>2. sk' = IF sk.lock = "free" THEN Enter(u, "timer", "resend") ELSE Put(Defer(u, "write"))
  BY DEF WriteTimer
<1> HIDE DEF u
<1>3. "write" \in Counted
  BY DEF Counted, Deferred
<1>4. /\ sk.lock = "free" => /\ Inv(Enter(u, "timer", "resend"))
                             /\ SameAcks(u, Enter(u, "timer", "resend"))
      /\ sk.lock = "user" => Inv(Put(Defer(u, "write"))) /\ SameAcks(u, Put(Defer(u, "write")))
  BY <1>0, <1>1, <1>3, FiredInv
<1>5. Inv(sk') /\ SameAcks(u, sk')
  BY <1>0, <1>2, <1>4 DEF Socks, Locks
<1> QED BY <1>1, <1>5 DEF IInv, SameAcks

\* A timer's handler that keeps the lock to itself puts the timer's reference
\* at its end.
LEMMA HandledInv ==
  ASSUME NEW s, Inv(s), NEW u, Slack(u) = Slack(s) + 1, SameWork(s, u), SameAcks(s, u),
         NEW x, x # "pace", u.timers = s.timers \ {x},
         NEW v, Quiet(u, v), Prompt(u, v)
  PROVE  Inv(Put(v)) /\ Prompt(s, Put(v))
<1> DEFINE t == Put(v)
<1>1. Kept(v) /\ Slack(s) \in Nat
  BY InvKept DEF Quiet
<1>2. /\ Sound(t) /\ Slack(t) = Slack(v) - 1 /\ SameWork(v, t) /\ SameAcks(v, t)
      /\ t.timers = v.timers
  BY <1>1, PutKept
<1> HIDE DEF t
<1>3. /\ Slack(t) = Slack(s) /\ SameWork(s, t)
      /\ ("pace" \in s.timers => "pace" \in t.timers)
  BY <1>1, <1>2 DEF Quiet, SameWork
<1>4. Inv(t)
  BY <1>2, <1>3, StillInv
<1>5. Prompt(s, t)
  BY <1>2 DEF Prompt, SameAcks
<1> QED BY <1>4, <1>5 DEF t

\* The delayed-acknowledgement timer
LEMMA DelackFiresInv ==
  ASSUME IInv, NEW ok, DelackFires(ok)
  PROVE  IInv' /\ Prompt(sk, sk')
<1> DEFINE u == Fired("delack")
           v == DelackHandler(u, ok)
<1>0. Inv(sk) /\ "delack" \in sk.timers /\ sk.lock # "spin" /\ sk \in Socks
  BY DEF IInv, DelackFires, Inv
<1>1. /\ Kept(u) /\ Slack(u) = Slack(sk) + 1 /\ SameWork(sk, u)
      /\ SameAcks(sk, u) /\ u.timers = sk.timers \ {"delack"}
  BY <1>0, FiredKept
<1>2. sk' = IF sk.lock = "free" THEN Put(v) ELSE Put(Defer(u, "delack"))
  BY DEF DelackFires
<1> HIDE DEF u
<1>3. CASE sk.lock = "free"
  <2>1. Quiet(u, v) /\ Prompt(u, v)
    BY <1>1, DelackHandlerQuiet
  <2> HIDE DEF v
  <2>2. Inv(Put(v)) /\ Prompt(sk, Put(v))
    BY <1>0, <1>1, <2>1, HandledInv
  <2> QED BY <1>2, <1>3, <2>2 DEF IInv
<1>4. CASE sk.lock = "user"
  <2>1. "delack" \in Counted
    BY DEF Counted, Deferred
  <2>3. Inv(Put(Defer(u, "delack"))) /\ SameAcks(u, Put(Defer(u, "delack")))
    <3>1. CASE sk.state = "CLOSE"
      <4>1. sk.todo = 0
        BY <1>0, <3>1 DEF Inv, LockInv
      <4> QED BY <1>0, <1>1, <1>4, <2>1, <4>1, FiredInv
    <3>2. CASE sk.state # "CLOSE"
      BY <1>0, <1>1, <1>4, <2>1, <3>2, FiredInv
    <3> QED BY <3>1, <3>2
  <2>4. Prompt(sk, sk')
    BY <1>0, <1>1, <1>2, <1>4, <2>3 DEF Prompt, SameAcks, Socks, Left
  <2> QED BY <1>2, <1>4, <2>3, <2>4 DEF IInv
<1> QED BY <1>0, <1>3, <1>4 DEF Socks, Locks

\* The timer of a compressed acknowledgement
LEMMA CompressedFiresInv ==
  ASSUME IInv, NEW ok, CompressedFires(ok)
  PROVE  IInv' /\ Prompt(sk, sk')
<1> DEFINE u == Fired("compressed")
           v == IF "compressed" \in u.pend THEN SendAck(u, ok) ELSE u
<1>0. Inv(sk) /\ "compressed" \in sk.timers /\ sk.lock # "spin" /\ sk \in Socks
  BY DEF IInv, CompressedFires, Inv
<1>1. /\ Kept(u) /\ Slack(u) = Slack(sk) + 1 /\ SameWork(sk, u)
      /\ SameAcks(sk, u) /\ u.timers = sk.timers \ {"compressed"} /\ u \in Socks
  BY <1>0, FiredKept
<1>2. sk' = IF sk.lock = "user" THEN Put(Defer(u, "delack")) ELSE Put(v)
  BY DEF CompressedFires
<1> HIDE DEF u
<1>3. CASE sk.lock = "free"
  <2>1. Quiet(u, u) /\ Prompt(u, u) /\ u.fails \in Nat
    BY <1>1 DEF Quiet, SameWork, Prompt, Socks, Left
  <2>2. /\ Quiet(u, SendAck(u, ok))
        /\ \/ SendAck(u, ok) = u \/ SendAck(u, ok).pend = {}
           \/ SendAck(u, ok).fails = u.fails + 1
    BY <1>1, SendAckQuiet
  <2>3. Prompt(u, SendAck(u, ok))
    BY <2>1, <2>2 DEF Prompt
  <2>4. Quiet(u, v) /\ Prompt(u, v)
    BY <2>1, <2>2, <2>3
  <2> HIDE DEF v
  <2>5. Inv(Put(v)) /\ Prompt(sk, Put(v))
    BY <1>0, <1>1, <2>4, HandledInv
  <2> QED BY <1>2, <1>3, <2>5 DEF IInv
<1>4. CASE sk.lock = "user"
  <2>1. "delack" \in Counted
    BY DEF Counted, Deferred
  <2>3. Inv(Put(Defer(u, "delack"))) /\ SameAcks(u, Put(Defer(u, "delack")))
    <3>1. CASE sk.state = "CLOSE"
      <4>1. sk.todo = 0
        BY <1>0, <3>1 DEF Inv, LockInv
      <4> QED BY <1>0, <1>1, <1>4, <2>1, <4>1, FiredInv
    <3>2. CASE sk.state # "CLOSE"
      BY <1>0, <1>1, <1>4, <2>1, <3>2, FiredInv
    <3> QED BY <3>1, <3>2
  <2>4. Prompt(sk, sk')
    BY <1>0, <1>1, <1>2, <1>4, <2>3 DEF Prompt, SameAcks, Socks, Left
  <2> QED BY <1>2, <1>4, <2>3, <2>4 DEF IInv
<1> QED BY <1>0, <1>3, <1>4 DEF Socks, Locks

\* Time passes.
LEMMA TickInv ==
  ASSUME IInv, Tick
  PROVE  IInv' /\ Prompt(sk, sk')
<1> DEFINE l == MaxOf(sk.ackLeft - 1, 0)
           m == MaxOf(sk.tmrLeft - 1, 0)
<1>0. Inv(sk) /\ sk \in Socks /\ Sound(sk)
  BY InvKept DEF IInv
<1>1. sk' = [sk EXCEPT !.ackLeft = l, !.tmrLeft = m]
  BY DEF Tick
<1>2. l \in Left /\ m \in Left /\ l <= sk.ackLeft
  BY <1>0, DeferAssumption DEF Socks, Left, MaxOf
<1> HIDE DEF l, m
<1>3. sk' \in Socks
  BY <1>0, <1>1, <1>2 DEF Socks
<1>4. /\ SameWork(sk, sk') /\ sk'.timers = sk.timers /\ sk'.refs = sk.refs
      /\ sk'.wmem = sk.wmem /\ sk'.bug = sk.bug /\ sk'.ackLeft = l
  BY <1>0, <1>1 DEF Socks, SameWork
<1>5. Sound(sk') /\ Slack(sk') = Slack(sk)
  BY <1>0, <1>3, <1>4, SameCounts DEF SameWork
<1>6. Inv(sk')
  BY <1>0, <1>4, <1>5, StillInv
<1> QED BY <1>2, <1>4, <1>6 DEF IInv, Prompt

\* An acknowledgement arrives and the loop goes on.
LEMMA RcvAckInv ==
  ASSUME IInv, RcvAck
  PROVE  IInv' /\ SameAcks(sk, sk')
<1> DEFINE r == sk.rtx - 1
           a == [sk EXCEPT !.rtx = r]
           b == IF a.rtx = 0 THEN Disarm(a, "write") ELSE a
<1>0. /\ Inv(sk) /\ sk \in Socks /\ sk.lock = "free" /\ sk.rtx > 0 /\ sk.rtx \in Nat
      /\ sk.state # "CLOSE" /\ Kept(sk)
  BY InvKept DEF IInv, RcvAck, Inv, LockInv, Socks, FileRef
<1>1. sk' = Enter(b, "rcv", "xmit")
  BY DEF RcvAck
<1>2. r \in Nat
  BY <1>0
<1> HIDE DEF r
<1>3. a \in Socks
  BY <1>0, <1>2 DEF Socks
<1>4. /\ a.state = sk.state /\ a.lock = sk.lock /\ a.ctx = sk.ctx /\ a.pc = sk.pc
      /\ a.jobs = sk.jobs /\ a.flags = sk.flags /\ a.dev = sk.dev
      /\ a.freeing = sk.freeing /\ a.listed = sk.listed /\ a.running = sk.running
      /\ a.todo = sk.todo /\ a.timers = sk.timers
      /\ a.refs = sk.refs /\ a.wmem = sk.wmem /\ a.bug = sk.bug /\ SameAcks(sk, a)
  BY <1>0 DEF Socks, SameAcks
<1> HIDE DEF a
<1>5. Kept(a) /\ Slack(a) = Slack(sk)
  BY <1>0, <1>3, <1>4, SameCounts DEF Kept
<1>6. /\ Kept(b) /\ Slack(b) = Slack(a) /\ SameWork(a, b) /\ SameAcks(a, b)
  BY <1>5, DisarmKept DEF SameWork, SameAcks
<1> HIDE DEF b
<1>7. /\ Sound(sk') /\ Slack(sk') = Slack(b) /\ SameAcks(b, sk')
      /\ sk'.state = b.state /\ sk'.lock = "spin" /\ sk'.ctx = "rcv" /\ sk'.pc = "xmit"
      /\ sk'.jobs = b.jobs /\ sk'.flags = b.flags /\ sk'.dev = b.dev
      /\ sk'.freeing = b.freeing /\ sk'.listed = b.listed /\ sk'.running = b.running
      /\ sk'.todo = b.todo
  BY <1>1, <1>6, EnterSound DEF Kept, Ctxs, Pcs
<1>8. Slack(sk') = Slack(sk) + Bit(sk'.ctx = "timer")
  <2>1. Bit(sk'.ctx = "timer") = 0
    BY <1>7 DEF Bit
  <2> QED BY <1>0, <1>5, <1>6, <1>7, <2>1 DEF Kept
<1>9. Inv(sk')
  BY <1>0, <1>4, <1>6, <1>7, <1>8, EnterInv DEF SameWork
<1> QED BY <1>4, <1>6, <1>7, <1>9 DEF SameAcks, IInv

-----------------------------------------------------------------------------
(* The process *)

\* The application writes, and sends as its owner.
LEMMA UserWriteInv ==
  ASSUME IInv, NEW n \in Writes, UserWrite(n)
  PROVE  IInv' /\ SameAcks(sk, sk')
<1> DEFINE d == sk.todo + n
           e == sk.events + n
<1>0. /\ Inv(sk) /\ sk \in Socks /\ sk.lock = "free" /\ sk.state # "CLOSE" /\ Sound(sk)
      /\ sk.jobs = {}
  BY InvKept DEF IInv, UserWrite, Inv, LockInv
<1>1. sk' = [sk EXCEPT !.lock = "user", !.ctx = "user", !.pc = "xmit", !.todo = d, !.events = e]
  BY DEF UserWrite
<1>2. /\ d \in Nat /\ e \in Nat /\ "user" \in Locks /\ "user" \in Ctxs /\ "xmit" \in Pcs
  BY <1>0, DeferAssumption DEF Socks, Locks, Ctxs, Pcs
<1> HIDE DEF d, e
<1>3. sk' \in Socks
  BY <1>0, <1>1, <1>2 DEF Socks
<1>4. /\ sk'.state = sk.state /\ sk'.lock = "user" /\ sk'.ctx = "user" /\ sk'.pc = "xmit"
      /\ sk'.jobs = sk.jobs /\ sk'.flags = sk.flags /\ sk'.dev = sk.dev
      /\ sk'.freeing = sk.freeing /\ sk'.listed = sk.listed /\ sk'.running = sk.running
      /\ sk'.rtx = sk.rtx /\ sk'.timers = sk.timers
      /\ sk'.refs = sk.refs /\ sk'.wmem = sk.wmem /\ sk'.bug = sk.bug /\ SameAcks(sk, sk')
  BY <1>0, <1>1 DEF Socks, SameAcks
<1>5. Sound(sk') /\ Slack(sk') = Slack(sk)
  BY <1>0, <1>3, <1>4, SameCounts
<1>6. MemInv(sk')
  BY <1>0, <1>4, <1>5 DEF Inv, MemInv, Sound
<1>7. RefsInv(sk')
  BY <1>0, <1>4, <1>5 DEF Inv, RefsInv, FileRef, TimerRef
<1>8. LockInv(sk')
  BY <1>0, <1>4 DEF Inv, LockInv
<1>9. WakeInv(sk')
  BY <1>4 DEF WakeInv
<1> QED BY <1>3, <1>4, <1>6, <1>7, <1>8, <1>9 DEF Inv, IInv

\* The application closes: timers stop, the references that are left are the
\* owner's and those of work still to be done.
LEMMA UserCloseInv ==
  ASSUME IInv, UserClose
  PROVE  IInv' /\ Prompt(sk, sk')
<1> DEFINE a == Disarm(sk, "pace")
           b == Disarm(a, "write")
           c == Disarm(b, "delack")
           d == Disarm(c, "compressed")
           e == d.events + 1
<1>0. /\ Inv(sk) /\ sk \in Socks /\ sk.lock = "free" /\ sk.state # "CLOSE" /\ Kept(sk)
      /\ sk.pc = "idle" /\ sk.jobs = {}
  BY InvKept DEF IInv, UserClose, Inv, LockInv, FileRef
<1>1. sk' = [d EXCEPT !.state = "CLOSE", !.lock = "user", !.ctx = "user",
                      !.todo = 0, !.rtx = 0, !.early = FALSE, !.pend = {}, !.events = e]
  BY DEF UserClose
<1>2. Kept(a) /\ Slack(a) = Slack(sk) /\ SameWork(sk, a)
  BY <1>0, DisarmKept
<1> HIDE DEF a
<1>3. Kept(b) /\ Slack(b) = Slack(sk) /\ SameWork(sk, b)
  BY <1>2, DisarmKept DEF SameWork
<1> HIDE DEF b
<1>4. Kept(c) /\ Slack(c) = Slack(sk) /\ SameWork(sk, c)
  BY <1>3, DisarmKept DEF SameWork
<1> HIDE DEF c
<1>5. Kept(d) /\ Slack(d) = Slack(sk) /\ SameWork(sk, d)
  BY <1>4, DisarmKept DEF SameWork
<1> HIDE DEF d
<1>6. d \in Socks /\ Sound(d)
  BY <1>5 DEF Kept, Sound
<1>7. /\ e \in Nat /\ "user" \in Locks /\ "user" \in Ctxs /\ "CLOSE" \in States
      /\ {} \in Pends /\ FALSE \in BOOLEAN /\ 0 \in Nat
  BY <1>6 DEF Socks, Locks, Ctxs, States, Pends
<1> HIDE DEF e
<1>8. sk' \in Socks
  BY <1>1, <1>6, <1>7 DEF Socks
<1>9. /\ sk'.state = "CLOSE" /\ sk'.lock = "user" /\ sk'.ctx = "user" /\ sk'.pc = d.pc
      /\ sk'.jobs = d.jobs /\ sk'.flags = d.flags /\ sk'.dev = d.dev
      /\ sk'.freeing = d.freeing /\ sk'.listed = d.listed /\ sk'.running = d.running
      /\ sk'.todo = 0 /\ sk'.rtx = 0 /\ sk'.timers = d.timers /\ sk'.pend = {}
      /\ sk'.refs = d.refs /\ sk'.wmem = d.wmem /\ sk'.bug = d.bug
  BY <1>1, <1>6 DEF Socks
<1>10. Sound(sk') /\ Slack(sk') = Slack(sk)
  BY <1>5, <1>6, <1>8, <1>9, SameCounts
<1>11. MemInv(sk')
  BY <1>0, <1>5, <1>9, <1>10 DEF Inv, MemInv, Sound, SameWork
<1>12. RefsInv(sk')
  BY <1>0, <1>9, <1>10 DEF Inv, RefsInv, FileRef, TimerRef, Bit
<1>13. LockInv(sk')
  BY <1>0, <1>5, <1>9 DEF Inv, LockInv, SameWork, Sending
<1>14. WakeInv(sk')
  BY <1>0, <1>5, <1>9 DEF WakeInv, SameWork
<1> QED BY <1>8, <1>9, <1>11, <1>12, <1>13, <1>14 DEF Inv, IInv, Prompt

-----------------------------------------------------------------------------
(* The holder of the lock and waiting acknowledgements *)

\* Acknowledgements that are left alone, or sent, are not postponed.
LEMMA PromptSame ==
  ASSUME NEW s \in Socks, NEW t, SameAcks(s, t) \/ t.pend = {}
  PROVE  Prompt(s, t)
BY DEF Prompt, SameAcks, Socks, Left

\* Sending never postpones an acknowledgement: it carries it along.
LEMMA LoopPrompt ==
  ASSUME IInv, NEW early \in BOOLEAN, XmitStep(early) \/ Recheck(early)
  PROVE  Prompt(sk, sk')
<1>0. /\ Inv(sk) /\ sk.pc \in {"xmit", "recheck"} /\ sk \in Socks /\ sk.state # "CLOSE"
      /\ (sk.pc = "recheck" => sk.todo > 0) /\ sk.todo \in Nat
  BY DEF IInv, XmitStep, Recheck, Inv, LockInv, Sending, Socks
<1>1. Kept(sk) /\ Sound(sk)
  BY <1>0, HolderKept DEF Kept
<1>2. SameAcks(sk, Go(sk, "done")) /\ SameAcks(sk, Go(sk, "throttle"))
  BY <1>1, GoSound DEF Pcs
<1>3. SameAcks(sk, Go(Arm(sk, "pace"), "done"))
  <2>1. SameAcks(sk, Arm(sk, "pace")) /\ Sound(Arm(sk, "pace"))
    BY <1>1, ArmKept DEF Timers, Kept
  <2>2. SameAcks(Arm(sk, "pace"), Go(Arm(sk, "pace"), "done"))
    BY <2>1, GoSound DEF Pcs
  <2> QED BY <2>1, <2>2 DEF SameAcks
<1>4. sk.todo # 0 => SendNew(sk, early).pend = {} /\ Go(SendNew(sk, early), "xmit").pend = {}
  <2> SUFFICES ASSUME sk.todo # 0
               PROVE  SendNew(sk, early).pend = {} /\ Go(SendNew(sk, early), "xmit").pend = {}
    OBVIOUS
  <2>0. sk.todo > 0
    BY <1>0
  <2>1. SendNew(sk, early).pend = {} /\ Sound(SendNew(sk, early))
    BY <1>1, <2>0, SendNewSent DEF Sent, Kept
  <2>2. SameAcks(SendNew(sk, early), Go(SendNew(sk, early), "xmit"))
    BY <2>1, GoSound DEF Pcs
  <2> QED BY <2>1, <2>2 DEF SameAcks
<1>5. CASE XmitStep(early)
  BY <1>0, <1>2, <1>3, <1>4, <1>5, PromptSame DEF XmitStep
<1>6. CASE Recheck(early)
  <2>1. sk.todo # 0
    BY <1>0, <1>6 DEF Recheck
  <2> QED BY <1>0, <1>2, <1>4, <1>6, <2>1, PromptSame DEF Recheck
<1> QED BY <1>5, <1>6

\* Nor does a retransmission.
LEMMA ResendPrompt ==
  ASSUME IInv, ResendStep
  PROVE  Prompt(sk, sk')
<1>0. Inv(sk) /\ sk \in Socks /\ Sound(sk) /\ sk.pc \in {"resend", "host", "rehost"}
  BY InvKept DEF IInv, ResendStep
<1>1. Kept(sk)
  <2>1. sk.ctx \in {"timer", "release"}
    BY <1>0 DEF Inv, LockInv
  <2> QED BY <1>0, <2>1, HolderKept
<1>2. SameAcks(sk, Go(sk, "done")) /\ SameAcks(sk, Go(sk, "host"))
  BY <1>1, GoSound DEF Pcs, Kept
<1>3. SameAcks(sk, Go(Arm(sk, "write"), "done"))
  <2>1. SameAcks(sk, Arm(sk, "write")) /\ Sound(Arm(sk, "write"))
    BY <1>1, ArmKept DEF Timers, Kept
  <2>2. SameAcks(Arm(sk, "write"), Go(Arm(sk, "write"), "done"))
    BY <2>1, GoSound DEF Pcs
  <2> QED BY <2>1, <2>2 DEF SameAcks
<1>4. Go([Below(sk) EXCEPT !.events = @ + 1], "done").pend = {}
  <2> DEFINE b == Below(sk)
  <2>1. b.pend = {} /\ b \in Socks
    BY <1>1, BelowSent DEF Sent, Kept, Sound
  <2> HIDE DEF b
  <2>2. Go([b EXCEPT !.events = @ + 1], "done").pend = {}
    BY <2>1 DEF Go, Socks
  <2> QED BY <2>2 DEF b
<1>5. SameAcks(sk, Go([sk EXCEPT !.flags = @ \cup {"throttled"}], "rehost"))
  BY <1>0, ThrottledFlag DEF Pcs
<1> QED BY <1>0, <1>2, <1>3, <1>4, <1>5, PromptSame DEF ResendStep, Resend

\* The end of a handler leaves acknowledgements alone.
LEMMA FinishPrompt ==
  ASSUME IInv, Finish \/ Release \/ Unlock \/ Throttle
  PROVE  Prompt(sk, sk')
<1>0. Inv(sk) /\ sk \in Socks /\ sk.ctx \in Ctxs /\ Sound(sk)
  BY InvKept DEF IInv, Inv, Socks
<1>1. CASE Throttle
  <2>1. SameAcks(sk, sk')
    BY <1>0, <1>1, ThrottledFlag DEF Throttle, Pcs
  <2> QED BY <1>0, <2>1, PromptSame
<1>2. CASE Release
  <2>1. SameAcks(sk, sk')
    BY <1>0, <1>2 DEF Release, SameAcks, Socks
  <2> QED BY <1>0, <2>1, PromptSame
<1>3. CASE Unlock
  <2>1. SameAcks(sk, sk')
    BY <1>0, <1>3 DEF Unlock, Put, SameAcks, Socks
  <2> QED BY <1>0, <2>1, PromptSame
<1>4. CASE Finish
  <2> DEFINE idle == Go(sk, "idle")
             j == FirstJob(idle.jobs)
             free == [idle EXCEPT !.lock = "free"]
  <2>1. idle \in Socks /\ SameAcks(sk, idle)
    BY <1>0, GoSound DEF Pcs, Sound
  <2>2. sk' = CASE sk.ctx = "user" -> idle
              [] sk.ctx = "release" -> Put([idle EXCEPT !.jobs = @ \ {j}])
              [] sk.ctx = "tasklet" -> [free EXCEPT !.running = @ - 1, !.wmem = @ - 1]
              [] sk.ctx = "timer" -> Put(free)
              [] sk.ctx = "rcv" -> free
    BY <1>4, <2>1 DEF Finish, Socks
  <2> HIDE DEF idle, j
  <2>3. /\ SameAcks(idle, idle)
        /\ SameAcks(idle, Put([idle EXCEPT !.jobs = @ \ {j}]))
        /\ SameAcks(idle, [free EXCEPT !.running = @ - 1, !.wmem = @ - 1])
        /\ SameAcks(idle, Put(free)) /\ SameAcks(idle, free)
    BY <2>1 DEF Put, SameAcks, Socks
  <2>4. SameAcks(idle, sk')
    BY <1>0, <2>2, <2>3 DEF Ctxs
  <2>5. SameAcks(sk, sk')
    BY <2>1, <2>4 DEF SameAcks
  <2> QED BY <1>0, <2>5, PromptSame
<1> QED BY <1>1, <1>2, <1>3, <1>4

\* Nor does the work that was left to the owner.
LEMMA ReleaseJobPrompt ==
  ASSUME IInv, NEW ok, ReleaseJob(ok)
  PROVE  Prompt(sk, sk')
<1> DEFINE j == FirstJob(sk.jobs)
           a == [sk EXCEPT !.jobs = @ \ {j}]
<1>0. /\ Inv(sk) /\ sk \in Socks /\ Sound(sk) /\ sk.ctx = "release" /\ sk.lock = "spin"
      /\ sk.jobs # {} /\ sk.flags \cap Deferred = {} /\ sk.jobs \in SUBSET Deferred
      /\ sk.fails \in Nat /\ Slack(sk) \in Nat /\ Slack(sk) > 0
  BY InvKept DEF IInv, ReleaseJob, Inv, LockInv, Socks, Jobs, FileRef, Kept
<1>1. j \in sk.jobs /\ j \in Deferred
  BY <1>0, FirstJobIn
<1>2. sk' = CASE j = "tsq" -> Go(sk, TsqPc(sk))
              [] j = "write" -> Go(sk, "resend")
              [] j = "delack" -> Put(DelackHandler(a, ok))
              [] j = "mtu" -> Put(a)
              [] j = "ack" -> IF "sched" \in a.pend THEN SendAck(a, ok) ELSE a
  BY DEF ReleaseJob
<1>3. Sound(a) /\ Slack(a) = Slack(sk) + Bit(j # "ack") /\ SameAcks(sk, a)
  BY <1>0, <1>1, JobGone
<1> HIDE DEF j, a
<1>4. Kept(a)
  BY <1>0, <1>3 DEF Kept, Bit
<1>5. SameAcks(sk, Go(sk, TsqPc(sk))) /\ SameAcks(sk, Go(sk, "resend"))
  <2>1. TsqPc(sk) \in Pcs
    BY DEF TsqPc, Pcs
  <2> QED BY <1>0, <2>1, GoSound DEF Pcs
<1>6. SameAcks(a, Put(a))
  BY <1>4, PutKept
<1>7. Prompt(a, Put(DelackHandler(a, ok)))
  <2>1. Quiet(a, DelackHandler(a, ok)) /\ Prompt(a, DelackHandler(a, ok))
    BY <1>4, DelackHandlerQuiet
  <2>2. SameAcks(DelackHandler(a, ok), Put(DelackHandler(a, ok)))
    BY <2>1, PutKept DEF Quiet
  <2> QED BY <2>1, <2>2 DEF Prompt, SameAcks
<1>8. Prompt(a, SendAck(a, ok))
  <2> DEFINE t == SendAck(a, ok)
  <2>1. t = a \/ t.pend = {} \/ t.fails = a.fails + 1
    BY <1>4, SendAckQuiet
  <2>2. a \in Socks /\ a.fails \in Nat /\ a.ackLeft <= a.ackLeft
    BY <1>3 DEF Sound, Socks, Left
  <2> HIDE DEF t
  <2>3. Prompt(a, t)
    BY <2>1, <2>2 DEF Prompt
  <2> QED BY <2>3 DEF t
<1>9. Prompt(sk, Go(sk, TsqPc(sk))) /\ Prompt(sk, Go(sk, "resend"))
  BY <1>0, <1>5, PromptSame
<1>10. /\ Prompt(sk, Put(DelackHandler(a, ok))) /\ Prompt(sk, SendAck(a, ok))
  BY <1>3, <1>7, <1>8 DEF Prompt, SameAcks
<1>11. Prompt(sk, a) /\ Prompt(sk, Put(a))
  <2>1. SameAcks(sk, Put(a))
    BY <1>3, <1>6 DEF SameAcks
  <2> QED BY <1>0, <1>3, <2>1, PromptSame
<1> QED BY <1>1, <1>2, <1>9, <1>10, <1>11 DEF Deferred

-----------------------------------------------------------------------------
(* The theorems *)

\* A new connection is in order.
LEMMA InitIInv == DeferInit => IInv
<1> SUFFICES ASSUME DeferInit
             PROVE  IInv
  OBVIOUS
<1>0. /\ DelackMax \in Nat /\ 0 \in Left /\ {} \in Jobs /\ {} \in FlagSets /\ {} \in TimerSets
      /\ {} \in Pends /\ "idle" \in Pcs /\ "ESTABLISHED" \in States /\ "free" \in Locks
      /\ "rcv" \in Ctxs /\ Truesize \in Nat
  BY DeferAssumption DEF Left, Jobs, FlagSets, TimerSets, Pends, Pcs, States, Locks, Ctxs
<1>1. sk \in Socks
  BY <1>0 DEF DeferInit, Socks
<1>2. /\ sk.state = "ESTABLISHED" /\ sk.lock = "free" /\ sk.ctx = "rcv" /\ sk.pc = "idle"
      /\ sk.jobs = {} /\ sk.flags = {} /\ sk.refs = 1 /\ sk.wmem = 1 /\ sk.dev = 0
      /\ sk.freeing = 0 /\ sk.listed = FALSE /\ sk.running = 0 /\ sk.todo = 0 /\ sk.rtx = 0
      /\ sk.timers = {} /\ sk.bug = FALSE
  BY DEF DeferInit
<1>3. RefsInv(sk)
  <2>1. (sk.flags \cup sk.jobs) \cap Counted = {} /\ Cardinality({}) = 0
    BY <1>2, FS_EmptySet
  <2> QED BY <1>2, <2>1 DEF RefsInv, Slack, FileRef, TimerRef, Bit
<1>4. MemInv(sk)
  BY <1>0, <1>2 DEF MemInv, Units, Bit
<1>5. LockInv(sk)
  BY <1>2 DEF LockInv, Sending
<1>6. WakeInv(sk)
  BY <1>2 DEF WakeInv
<1> QED BY <1>1, <1>3, <1>4, <1>5, <1>6 DEF IInv, Inv

\* Every step keeps the socket in order and postpones no acknowledgement.
LEMMA NextIInv ==
  ASSUME IInv, [DeferNext]_sk
  PROVE  IInv' /\ (sk' # sk => Prompt(sk, sk'))
<1>0. sk \in Socks
  BY DEF IInv, Inv
<1>1. CASE sk' = sk
  BY <1>1 DEF IInv
<1>2. CASE HolderStep
  <2>1. ASSUME NEW early \in BOOLEAN, XmitStep(early) \/ Recheck(early)
        PROVE  IInv' /\ Prompt(sk, sk')
    BY <2>1, XmitStepInv, RecheckInv, LoopPrompt
  <2>2. Throttle \/ Finish \/ Release \/ Unlock => IInv' /\ Prompt(sk, sk')
    BY ThrottleInv, FinishInv, ReleaseInv, UnlockInv, FinishPrompt
  <2>3. ResendStep => IInv' /\ Prompt(sk, sk')
    BY ResendStepInv, ResendPrompt
  <2>4. ASSUME NEW ok \in Allocated, ReleaseJob(ok)
        PROVE  IInv' /\ Prompt(sk, sk')
    BY <2>4, ReleaseJobInv, ReleaseJobPrompt
  <2>5. ASSUME NEW ok \in Allocated, NEW how \in {"now", "delay", "compress"},
               NEW ato \in Delays, Backlog(how, ato, ok)
        PROVE  IInv' /\ Prompt(sk, sk')
    BY <2>5, BacklogInv, DelaysLeft
  <2> QED BY <1>2, <2>1, <2>2, <2>3, <2>4, <2>5 DEF HolderStep
<1>3. CASE Unlocked
  <2>1. Complete \/ CompletionStep \/ TaskletTake => IInv' /\ SameAcks(sk, sk')
    BY CompleteInv, WfreeStepInv, TaskletTakeInv DEF CompletionStep
  <2>2. Tick => IInv' /\ Prompt(sk, sk')
    BY TickInv
  <2> QED BY <1>0, <1>3, <2>1, <2>2, PromptSame DEF Unlocked
<1>4. CASE Softirq
  <2>1. TaskletRun \/ PaceKick => IInv' /\ SameAcks(sk, sk')
    BY TaskletRunInv, PaceKickInv
  <2>2. ASSUME NEW ok \in Allocated, DelackFires(ok) \/ CompressedFires(ok)
        PROVE  IInv' /\ Prompt(sk, sk')
    BY <2>2, DelackFiresInv, CompressedFiresInv
  <2> QED BY <1>0, <1>4, <2>1, <2>2, PromptSame DEF Softirq
<1>5. CASE Arrival
  <2>1. ASSUME NEW how \in {"now", "delay", "compress"}, NEW ato \in Delays,
               NEW joins \in BOOLEAN, NEW ok \in Allocated, RcvData(how, ato, joins, ok)
        PROVE  IInv' /\ Prompt(sk, sk')
    BY <2>1, RcvDataInv, DelaysLeft
  <2>2. RcvAck \/ RcvFragNeeded => IInv' /\ SameAcks(sk, sk')
    BY RcvAckInv, RcvFragNeededInv
  <2> QED BY <1>0, <1>5, <2>1, <2>2, PromptSame DEF Arrival
<1>6. CASE WriteTimer
  BY <1>0, <1>6, WriteTimerInv, PromptSame
<1>7. CASE \E n \in Writes : UserWrite(n)
  BY <1>0, <1>7, UserWriteInv, PromptSame
<1>8. CASE UserClose
  BY <1>8, UserCloseInv
<1> QED BY <1>1, <1>2, <1>3, <1>4, <1>5, <1>6, <1>7, <1>8 DEF DeferNext

\* The invariant holds in every reachable state.
LEMMA SocketInvariant == DeferSpec => []IInv
<1>1. DeferInit => IInv
  BY InitIInv
<1>2. IInv /\ [DeferNext]_sk => IInv'
  BY NextIInv
<1> QED BY <1>1, <1>2, PTL DEF DeferSpec

\* Every reference to the socket has exactly one reason, so none is dropped
\* twice and none is kept for ever: sock_hold and sock_put around tsq_flags,
\* the timers and release_sock balance in every interleaving.
THEOREM ReferencesBalance == DeferSpec => []RefsBalanced
<1>1. IInv => RefsBalanced
  <2> SUFFICES ASSUME IInv
               PROVE  RefsBalanced
    OBVIOUS
  <2>0. Inv(sk) /\ sk \in Socks
    BY DEF IInv, Inv
  <2>1. DeferTypeOK
    BY <2>0 DEF DeferTypeOK, Socks, FlagSets, Flags, Pends, Left
  <2> DEFINE C == (sk.flags \cup sk.jobs) \cap (Deferred \ {"ack"})
  <2>2. /\ Cardinality(sk.timers) \in Nat /\ Cardinality(C) \in Nat /\ sk.refs \in Nat
        /\ sk.refs - Cardinality(sk.timers) - Cardinality(C)
             = Bit(FileRef(sk)) + Bit(TimerRef(sk))
        /\ Bit(FileRef(sk)) \in Nat /\ Bit(TimerRef(sk)) \in Nat
    BY <2>0, CountsNat DEF Counted, Inv, RefsInv, Slack, Bit
  <2>3. sk.refs = Bit(FileRef(sk)) + Cardinality(sk.timers) + Cardinality(C) + Bit(TimerRef(sk))
    <3> HIDE DEF C
    <3> QED BY <2>2
  <2> QED BY <2>1, <2>3 DEF RefsBalanced, FileRef, TimerRef
<1> QED BY <1>1, SocketInvariant, PTL

\* The memory of the socket is kept by sk_wmem_alloc for exactly as long as a
\* buffer, a completion, the tasklet's list or a reference may still lead to
\* it, although tcp_wfree takes no lock.
THEOREM MemoryIsKept == DeferSpec => []MemoryKept
<1>1. IInv => MemoryKept
  BY DEF IInv, Inv, MemInv, Units, MemoryKept
<1> QED BY <1>1, SocketInvariant, PTL

\* A sending loop that stopped with buffers left is started again: tcp_wfree
\* and tcp_small_queue_check cannot miss each other.
THEOREM WakeupNeverLost == DeferSpec => []WakeupComing
<1>1. IInv => WakeupComing
  <2> SUFFICES ASSUME IInv, sk.pc = "idle", sk.todo > 0
               PROVE  \/ "throttled" \in sk.flags /\ sk.dev + sk.freeing > 0
                      \/ sk.listed \/ sk.running > 0
                      \/ "tsq" \in sk.flags \cup sk.jobs
                      \/ "pace" \in sk.timers
    BY DEF WakeupComing
  <2>1. Wakeup(sk) /\ sk.running \in Nat
    BY DEF IInv, Inv, WakeInv, Socks
  <2> QED BY <2>1 DEF Wakeup, Queued, Own, Bit
<1> QED BY <1>1, SocketInvariant, PTL

\* More data never postpones an acknowledgement that waits for its timer
\* (tcp_send_delayed_ack), and neither does any other step that does not fail
\* to allocate.
THEOREM AcksNeverPostponed == DeferSpec => NeverPostponed
<1> DEFINE Later == {"sched", "timer"} \subseteq sk.pend /\ "timer" \in sk'.pend
                    /\ sk'.fails = sk.fails => sk'.ackLeft <= sk.ackLeft
<1>1. IInv /\ [DeferNext]_sk => [Later]_sk
  <2> SUFFICES ASSUME IInv, [DeferNext]_sk, sk' # sk
               PROVE  Later
    OBVIOUS
  <2>1. Prompt(sk, sk')
    BY NextIInv
  <2> QED BY <2>1 DEF Prompt
<1> QED BY <1>1, SocketInvariant, PTL DEF DeferSpec, NeverPostponed
=============================================================================
