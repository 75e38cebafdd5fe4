----------------------------- MODULE AutoMonitor -----------------------------
(***************************************************************************)
(* The control loop of bin/redhat_monitor/redhat_auto_monitor.py with      *)
(* --manage-enable: it learns the handover period from concurrent pings,   *)
(* programs the kernel's sysctls, confirms the prediction, suspends its    *)
(* probes, validates from time to time, and goes back to learning.         *)
(*                                                                         *)
(* Each `sysctl -w' is a process of its own, so the kernel sees the writes *)
(* of one handler one by one (todo), and each may fail: sysctl_write then  *)
(* raises, nothing catches it, and the monitor ends.  What the estimators  *)
(* return (a period fit, a phase error, the targets worth keeping, the     *)
(* prediction guard) is an input of the loop.  Deadlines are kept as the   *)
(* time left.  Times are in ticks, Resolution of them to a millisecond.    *)
(***************************************************************************)
EXTENDS LeoSysctl, Sequences, FiniteSets

CONSTANTS
    Targets, MinTargets,        \* probe targets, --min-targets
    Resolution,                 \* ticks in a millisecond
    Periods,                    \* periods estimate_period may return
    PhaseErrors,                \* signed errors of events on the lattice
    Anchors,                    \* phase anchors the events may suggest
    AnalysisEvery, FirstAnalysis, AnalysisWindow, LearnTime, ValidationInterval,
    ConfirmCycles, ValidationCycles, CooldownCycles, ResyncCycles,
    LockWindow, LockMinFits, RelearnThreshold, RelearnCount,
    ConsensusWindow, ConsensusMin, ConsensusPercent, ResyncThreshold,
    AlphaPercent,               \* --phase-resync-alpha
    ConfirmMin, ValidationMin,  \* valid events a session needs
    AutoGuard, GuardValues, GuardMinSamples, GuardStep,
    InitSysctl,                 \* the settings the monitor finds
    CanFail                     \* whether sysctl and ping can fail

\* The windows and counts as parse_args normalises them: min_targets is lowered
\* to the number of targets, and a window holds at least one sample
ASSUME MonitorAssumption ==
    /\ IsFiniteSet(Targets) /\ MinTargets \in 1..Cardinality(Targets)
    /\ {Resolution, LockWindow, ConsensusWindow} \subseteq Nat \ {0}
    /\ Periods \subseteq Nat \ {0} /\ PhaseErrors \subseteq Int
    /\ Anchors \subseteq Nat /\ GuardValues \subseteq Nat
    /\ {AnalysisEvery, FirstAnalysis, AnalysisWindow, LearnTime, ValidationInterval,
        ConfirmCycles, ValidationCycles, CooldownCycles, ResyncCycles,
        ConfirmMin, ValidationMin, GuardMinSamples} \subseteq Nat
    /\ {RelearnCount, AlphaPercent} \subseteq Int
    /\ InitSysctl \in Sysctls /\ {AutoGuard, CanFail} \subseteq BOOLEAN

VARIABLES
    sysctl,     \* the kernel's settings
    alive,      \* the monitor process runs
    todo,       \* sysctl writes the current handler has still to make
    m,          \* the controller state of main()
    timer,      \* time left until each deadline
    procs       \* targets whose ping process runs

vars == <<sysctl, alive, todo, m, timer, procs>>

LEARNING == "LEARNING"
CONFIRM  == "ACTIVE_CONFIRM"
SLEEP    == "ACTIVE_SLEEP"
VALIDATE == "ACTIVE_VALIDATE"
Sessions == {CONFIRM, VALIDATE}

Timers == {"analysis", "window", "learn", "cooldown", "session", "resync", "validation"}

\* main() at the start; locked is 0 while no period is locked, and guard while
\* no prediction guard has been written
FreshState ==
    [active |-> FALSE, mode |-> LEARNING, locked |-> 0, anchor |-> 0,
     targets |-> Targets, fits |-> <<>>, errors |-> <<>>, samples |-> 0,
     guard |-> 0, mismatch |-> 0, valid |-> 0]

-----------------------------------------------------------------------------
(* Numbers.                                                                *)

Abs(x) == IF x < 0 THEN -x ELSE x

\* The k-th smallest element of a sequence
Ranked(s, k) ==
    LET below(x)   == Cardinality({i \in DOMAIN s : s[i] < x})
        upto(x)    == Cardinality({i \in DOMAIN s : s[i] <= x})
    IN  CHOOSE x \in {s[i] : i \in DOMAIN s} : below(x) < k /\ k <= upto(x)

\* statistics.median, to the resolution of a tick
Median(s) ==
    (Ranked(s, (Len(s) + 1) \div 2) + Ranked(s, Len(s) \div 2 + 1)) \div 2

\* collections.deque(maxlen=n).append
Push(s, x, n) == IF Len(s) < n THEN Append(s, x) ELSE Append(Tail(s), x)

\* int(round(t * 1000.0)): to the nearest millisecond, ties to the even one
ToMs(t) ==
    LET q == t \div Resolution
        r == 2 * (t % Resolution)
    IN  IF r < Resolution \/ (r = Resolution /\ q % 2 = 0) THEN q ELSE q + 1

PeriodMs(period) == IF ToMs(period) < 1 THEN 1 ELSE ToMs(period)
OffsetMs(period, anchor) == ToMs(anchor) % PeriodMs(period)

-----------------------------------------------------------------------------
(* Programming the kernel.                                                 *)

DisableWrites == <<<<"rwnd_enable", 0>>, <<"dynamic_enable", 0>>>>

\* Slip: the enables are written before the timing
EnableFirst(period, anchor) ==
    <<<<"rwnd_enable", 1>>, <<"dynamic_enable", 1>>,
      <<"rwnd_period_ms", PeriodMs(period)>>,
      <<"rwnd_offset_ms", OffsetMs(period, anchor)>>>>

ProgramWrites(period, anchor) ==
    <<<<"rwnd_period_ms", PeriodMs(period)>>,
      <<"rwnd_offset_ms", OffsetMs(period, anchor)>>,
      <<"rwnd_enable", 1>>, <<"dynamic_enable", 1>>>>

PhaseWrites(period, anchor) == <<<<"rwnd_offset_ms", OffsetMs(period, anchor)>>>>

Write ==
    /\ alive /\ todo # <<>>
    /\ LET name == todo[1][1]
           v    == todo[1][2]
       IN  /\ SysctlAccepts(name, v)
           /\ sysctl' = [sysctl EXCEPT ![name] = v]
    /\ todo' = Tail(todo)
    /\ UNCHANGED <<alive, m, timer, procs>>

\* The `finally' of main stops the probes; the kernel is left as it is
Exit ==
    /\ alive' = FALSE /\ todo' = <<>> /\ procs' = {}
    /\ m' = FreshState /\ timer' = [n \in Timers |-> 0]
    /\ UNCHANGED sysctl

WriteFails ==
    /\ alive /\ todo # <<>>
    /\ CanFail \/ ~SysctlAccepts(todo[1][1], todo[1][2])
    /\ Exit

\* SIGINT or SIGTERM is noticed at the head of the loop
Stop == alive /\ todo = <<>> /\ CanFail /\ Exit

-----------------------------------------------------------------------------
(* Modes.                                                                  *)

\* start_probe_processes for a set of targets: any of them may fail to start
Started(ts) == IF CanFail THEN SUBSET ts ELSE {ts}

\* Slip: the kernel is not switched off
RelearnEnabled(writes) ==
    /\ todo' = writes
    /\ m' = FreshState
    /\ timer' = [timer EXCEPT !.learn = LearnTime, !.analysis = AnalysisEvery,
                    !.cooldown = IF m.locked = 0 THEN @ ELSE CooldownCycles * m.locked]
    /\ procs' \in Started(Targets)

\* enter_learning, after the writes the handler has made before
EnterLearning(writes) ==
    /\ todo' = writes \o DisableWrites
    /\ m' = FreshState
    /\ timer' = [timer EXCEPT !.learn = LearnTime, !.analysis = AnalysisEvery,
                    !.cooldown = IF m.locked = 0 THEN @ ELSE CooldownCycles * m.locked]
    /\ procs' \in Started(Targets)

\* enter_sleep, with the state and the timers (left) the handler has come to.
\* No analysis happens in ACTIVE_SLEEP, so what is left until one is dropped
EnterSleep(s, left, writes) ==
    /\ todo' = writes
    /\ m' = [s EXCEPT !.mode = SLEEP, !.valid = 0]
    /\ timer' = [left EXCEPT !.validation = ValidationInterval, !.analysis = 0]
    /\ procs' = {}

\* Slip: a session that is too short of events is left open
LeaveOpen(s, left, writes) ==
    \/ /\ s.valid >= (IF s.mode = CONFIRM THEN ConfirmMin ELSE ValidationMin)
       /\ EnterSleep(s, left, writes)
    \/ /\ s.valid < (IF s.mode = CONFIRM THEN ConfirmMin ELSE ValidationMin)
       /\ m' = s /\ todo' = writes
       /\ timer' = [left EXCEPT !.analysis = AnalysisEvery] /\ UNCHANGED procs

\* The deadline of a confirmation or a validation
CloseSession(s, left, writes) ==
    LET needed == IF s.mode = CONFIRM THEN ConfirmMin ELSE ValidationMin
    IN  \/ s.valid >= needed /\ EnterSleep(s, left, writes)
        \/ s.valid < needed /\ EnterLearning(writes)

\* Slip: the timer is looked at only when a probe has answered
WakeOnReply ==
    /\ alive /\ todo = <<>> /\ m.active /\ m.mode = SLEEP /\ timer.validation = 0
    /\ procs # {}
    /\ EnterLearning(<<>>)
    /\ UNCHANGED <<sysctl, alive>>

\* start_validation, at the head of the loop
StartValidation ==
    /\ alive /\ todo = <<>>
    /\ m.active /\ m.mode = SLEEP /\ timer.validation = 0
    /\ \/ \E started \in Started(m.targets) :
            /\ m.locked # 0 /\ Cardinality(started) >= MinTargets
            /\ procs' = started
            /\ m' = [m EXCEPT !.mode = VALIDATE, !.valid = 0,
                              !.errors = <<>>, !.samples = 0]
            /\ timer' = [timer EXCEPT !.session = ValidationCycles * m.locked,
                                      !.analysis = FirstAnalysis]
            /\ UNCHANGED todo
       \/ /\ \/ m.locked = 0
             \/ \E started \in Started(m.targets) : Cardinality(started) < MinTargets
          /\ EnterLearning(<<>>)
    /\ UNCHANGED <<sysctl, alive>>

-----------------------------------------------------------------------------
(* One analysis.                                                           *)

NoFit == [period |-> 0, quality |-> "none"]
Fits  == [period : Periods, quality : {"poor", "structure", "good"}]

\* Common events need MinTargets probes, now or within the analysis window
Observing == timer.window # 0
Observed  == {NoFit} \cup (IF Observing THEN Fits ELSE {})

Structural(fit) == fit.quality \in {"structure", "good"}

Analysing == alive /\ todo = <<>> /\ m.mode # SLEEP /\ timer.analysis = 0

\* In LEARNING the good fits are collected ...
Learned(fit) ==
    IF fit.quality = "good" THEN Push(m.fits, fit.period, LockWindow) ELSE m.fits

MayActivate(fit) ==
    /\ fit.quality = "good" /\ timer.learn = 0 /\ timer.cooldown = 0
    /\ Len(Learned(fit)) >= LockMinFits

Learn(fit) ==
    /\ Analysing /\ ~m.active /\ ~MayActivate(fit)
    /\ m' = [m EXCEPT !.fits = Learned(fit)]
    /\ timer' = [timer EXCEPT !.analysis = AnalysisEvery]
    /\ UNCHANGED <<sysctl, alive, todo, procs>>

\* ... and their median is locked and programmed
Activate(fit, anchor, chosen) ==
    LET period == Median(Learned(fit))
    IN  /\ Analysing /\ ~m.active /\ MayActivate(fit)
        /\ m' = [m EXCEPT !.active = TRUE, !.mode = CONFIRM, !.fits = Learned(fit),
                    !.locked = period, !.anchor = anchor, !.mismatch = 0,
                    !.errors = <<>>, !.samples = 0, !.valid = 0,
                    !.targets = IF Cardinality(chosen) >= MinTargets
                                THEN chosen ELSE Targets]
        /\ todo' = ProgramWrites(period, anchor)
        /\ timer' = [timer EXCEPT !.analysis = AnalysisEvery,
                                  !.session = ConfirmCycles * period,
                                  !.resync = ResyncCycles * period]
        /\ UNCHANGED <<sysctl, alive, procs>>

\* A structurally good fit of another period counts towards relearning
Judge(s, fit) ==
    IF ~Structural(fit) THEN s
    ELSE IF Abs(fit.period - s.locked) >= RelearnThreshold
    THEN [s EXCEPT !.mismatch = @ + 1]
    ELSE [s EXCEPT !.mismatch = 0]

\* The newest event on the lattice, if there is one since the last
TakeEvent(s, seen, err) ==
    IF ~seen THEN s
    ELSE [s EXCEPT !.errors = Push(@, err, ConsensusWindow),
                   !.samples = IF @ < GuardMinSamples THEN @ + 1 ELSE @,
                   !.valid = IF @ < ConfirmMin + ValidationMin THEN @ + 1 ELSE @]

ResyncDue(s) ==
    LET mid  == Median(s.errors)
        same == {i \in DOMAIN s.errors : s.errors[i] * mid > 0}
    IN  /\ Len(s.errors) >= ConsensusMin
        /\ Abs(mid) >= ResyncThreshold
        /\ 100 * Cardinality(same) >= ConsensusPercent * Len(s.errors)
        /\ timer.resync = 0

\* The anchor is kept modulo two programmed periods: only its offset is used
Resync(s) ==
    LET span == 2 * Resolution * PeriodMs(s.locked)
    IN  [s EXCEPT !.anchor = (@ + (Median(s.errors) * AlphaPercent) \div 100) % span,
                  !.errors = <<>>]

GuardDue(s, guard) ==
    /\ AutoGuard /\ s.samples >= GuardMinSamples
    /\ s.guard = 0 \/ Abs(guard - s.guard) >= GuardStep

Running == Cardinality(m.targets \cap procs)

AnalyseActive(fit, seen, err, guard) ==
    LET judged  == Judge(m, fit)
        taken   == TakeEvent(judged, seen, err)
        resync  == seen /\ ResyncDue(taken)
        phased  == IF resync THEN Resync(taken) ELSE taken
        guarded == seen /\ GuardDue(phased, guard)
        final   == IF guarded THEN [phased EXCEPT !.guard = guard] ELSE phased
        left    == IF resync THEN [timer EXCEPT !.resync = ResyncCycles * m.locked]
                   ELSE timer
        writes  == (IF resync THEN PhaseWrites(final.locked, final.anchor) ELSE <<>>)
                   \o (IF guarded THEN <<<<"prediction_guard_ms", guard>>>> ELSE <<>>)
    IN  /\ Analysing /\ m.active
        /\ \/ judged.mismatch >= RelearnCount /\ EnterLearning(<<>>)
           \/ /\ judged.mismatch < RelearnCount /\ timer.session = 0
              /\ CloseSession(final, left, writes)
           \/ /\ judged.mismatch < RelearnCount /\ timer.session # 0
              /\ Running < MinTargets
              /\ EnterLearning(writes)
           \/ /\ judged.mismatch < RelearnCount /\ timer.session # 0
              /\ Running >= MinTargets
              /\ m' = final /\ todo' = writes
              /\ timer' = [left EXCEPT !.analysis = AnalysisEvery]
              /\ UNCHANGED procs
        /\ UNCHANGED <<sysctl, alive>>

\* The deadline of a session is also enforced between two analyses
BetweenAnalyses ==
    /\ alive /\ todo = <<>>
    /\ m.active /\ m.mode \in Sessions
    /\ timer.analysis # 0 /\ timer.session = 0
    /\ CloseSession(m, timer, <<>>)
    /\ UNCHANGED <<sysctl, alive>>

-----------------------------------------------------------------------------
(* The rest of the world.                                                  *)

Tick ==
    /\ timer' = [n \in Timers |->
                    IF n = "window" /\ Cardinality(procs) >= MinTargets
                    THEN AnalysisWindow
                    ELSE IF timer[n] = 0 THEN 0 ELSE timer[n] - 1]
    /\ UNCHANGED <<sysctl, alive, todo, m, procs>>

\* A ping process ends; the loop unregisters it and goes on
PingDies(t) ==
    /\ t \in procs
    /\ procs' = procs \ {t}
    /\ UNCHANGED <<sysctl, alive, todo, m, timer>>

\* The monitor is started
Start ==
    /\ ~alive
    /\ alive' = TRUE /\ todo' = DisableWrites
    /\ procs' \in Started(Targets) \ {{}}
    /\ m' = FreshState
    /\ timer' = [[n \in Timers |-> 0] EXCEPT !.analysis = AnalysisEvery,
                                             !.learn = LearnTime]
    /\ UNCHANGED sysctl

\* No ping process starts: the monitor has switched the kernel off and gives up
StartWithoutProbes ==
    /\ ~alive /\ {} \in Started(Targets)
    /\ sysctl' = [sysctl EXCEPT !.rwnd_enable = 0, !.dynamic_enable = 0]
    /\ UNCHANGED <<alive, todo, m, timer, procs>>

Init ==
    /\ sysctl = InitSysctl /\ alive = FALSE /\ todo = <<>>
    /\ m = FreshState /\ timer = [n \in Timers |-> 0]
    /\ procs = {}

Loop ==
    \/ StartValidation
    \/ BetweenAnalyses
    \/ \E fit \in Observed : Learn(fit)
    \/ \E fit \in Observed, anchor \in Anchors, chosen \in SUBSET Targets :
            Activate(fit, anchor, chosen)
    \/ \E fit \in Observed, seen \in {FALSE, Observing}, err \in PhaseErrors,
          guard \in GuardValues : AnalyseActive(fit, seen, err, guard)

Next ==
    \/ Start \/ StartWithoutProbes \/ Stop \/ Write \/ WriteFails
    \/ Loop
    \/ Tick
    \/ \E t \in Targets : PingDies(t)

\* select() returns at least every 250 ms and each sysctl process ends: the
\* loop, its writes and time go on while the monitor runs.
Fairness == WF_vars(Loop) /\ WF_vars(Write) /\ WF_vars(Tick)

Spec == Init /\ [][Next]_vars /\ Fairness

-----------------------------------------------------------------------------
(* Properties.                                                             *)

BoundedSeq(S, n) == {<<>>} \cup UNION {[1..k -> S] : k \in 1..n}

\* The types of the monitor's state; its histories stay within their windows,
\* and enough targets are always chosen for events to be cross-checked.
MonitorTypeOK ==
    /\ sysctl \in Sysctls /\ alive \in BOOLEAN
    /\ \A i \in DOMAIN todo : todo[i] \in SysctlNames \X Nat
    /\ m.active \in BOOLEAN /\ m.mode \in {LEARNING, CONFIRM, SLEEP, VALIDATE}
    /\ m.locked \in Nat /\ m.anchor \in Nat /\ m.targets \subseteq Targets
    /\ m.fits \in BoundedSeq(Periods, LockWindow)
    /\ m.errors \in BoundedSeq(PhaseErrors, ConsensusWindow)
    /\ m.mismatch \in Nat /\ (m.mismatch # 0 => m.mismatch < RelearnCount)
    /\ m.valid \in Nat
    /\ timer \in [Timers -> Nat] /\ procs \subseteq Targets
    /\ m.active => Cardinality(m.targets) >= MinTargets

\* program_redhat, program_redhat_phase_only and enter_learning: whenever the
\* loop is at its head, the kernel is switched on exactly in the ACTIVE modes,
\* and then predicts with the period and the phase the monitor has locked.
KernelFollows ==
    /\ MonitorTypeOK
    /\ alive /\ todo = <<>> =>
        /\ sysctl.rwnd_enable = (IF m.active THEN 1 ELSE 0)
        /\ sysctl.dynamic_enable = sysctl.rwnd_enable
        /\ m.active => /\ sysctl.rwnd_period_ms = PeriodMs(m.locked)
                       /\ sysctl.rwnd_offset_ms = OffsetMs(m.locked, m.anchor)

\* "Never rewrite period_ms while ACTIVE": the period of a kernel that is
\* switched on never changes, through relearning, crashes and restarts.
PeriodFixedWhileOn ==
    [][ sysctl'.rwnd_period_ms # sysctl.rwnd_period_ms => sysctl.rwnd_enable = 0 ]_vars

\* "Initial confirmation / periodic validation is time-bounded": a session
\* ends, in ACTIVE_SLEEP or in LEARNING.
SessionsEnd == alive /\ m.mode \in Sessions ~> ~alive \/ m.mode \notin Sessions

\* A prediction the kernel acts on is checked again: an active monitor does
\* not stay suspended.
ValidatedAgain == alive /\ m.active ~> ~alive \/ m.mode \in {VALIDATE, LEARNING}
=============================================================================
