------------------------ MODULE AutoExperimentProofs ------------------------
(***************************************************************************)
(* The measurement script keeps its NORMAL runs free of the controller,    *)
(* counts no aborted run and leaves no monitor behind it can still reach:  *)
(* for any number of pairs and attempts, in any order of the modes,        *)
(* whenever processes end, the watcher strikes or the user interrupts.     *)
(***************************************************************************)
EXTENDS AutoExperiment, TLAPS

\* Where an attempt of the current mode is under way ...
Attempting == {"health", "launch", "pidfile", "reap", "ready", "validate",
               "start", "locate", "wait", "judge"}

\* ... which is one of the attempts that are allowed.
AttemptInv ==
    /\ pc \in Attempting => order # <<>> /\ attempt <= MaxAttempt
    /\ pc = "attempt" => order # <<>>
    /\ pc \in {"cleanup", "stop_monitor"} /\ after = "attempt" => order # <<>>

\* Only the monitor of the current attempt runs.  The script can stop it as
\* soon as it has read the pid file, and a monitor it cannot stop is one it
\* still waits for, or was interrupted waiting for.
MonitorInv ==
    /\ pc \in {"plan", "attempt", "health", "launch"} => ~MonitorRuns
    /\ MonitorRuns /\ ~pgid => pc \in {"pidfile", "reap", "exit", "ended"}

\* The monitor of a NORMAL attempt does not touch the kernel, which the
\* attempt has switched off.
KernelInv ==
    pc \in Attempting /\ Mode = "normal" =>
        kernel = "off" /\ (MonitorRuns => ~mon.manage)

\* The watcher lives while its experiment is waited for, and the flag file is
\* there before the experiment is killed and until the next attempt.
FlagInv ==
    /\ watcher # "none" => pc \in {"wait", "exit"}
    /\ watcher = "flagged" => flag
    /\ aborted => flag \/ pc \in {"exit", "ended"}

IInv == ScriptTypeOK /\ AttemptInv /\ MonitorInv /\ KernelInv /\ FlagInv

-----------------------------------------------------------------------------
OrderSet == {<<>>, <<"normal">>, <<"redhat">>, <<"normal", "redhat">>,
             <<"redhat", "normal">>}

\* What is left of a pair after a mode is again something the plan may hold.
LEMMA OrderTail ==
  ASSUME NEW o \in {<<>>, <<"normal">>, <<"redhat">>} \cup Orders, o # <<>>
  PROVE  /\ Tail(o) \in {<<>>, <<"normal">>, <<"redhat">>}
         /\ Head(o) \in {"normal", "redhat"}
<1>1. o \in OrderSet
  BY DEF Orders, OrderSet
<1>2. CASE o = <<"normal">>
  BY <1>2
<1>3. CASE o = <<"redhat">>
  BY <1>3
<1>4. CASE o = <<"normal", "redhat">>
  <2>1. Tail(o) = <<"redhat">>
    BY <1>4
  <2> QED BY <1>4, <2>1
<1>5. CASE o = <<"redhat", "normal">>
  <2>1. Tail(o) = <<"normal">>
    BY <1>5
  <2> QED BY <1>5, <2>1
<1> QED BY <1>1, <1>2, <1>3, <1>4, <1>5 DEF OrderSet

Monitors == [state : {"none", "starting", "up", "dead"}, manage : BOOLEAN,
             active : BOOLEAN, slept : BOOLEAN]

\* A monitor that has ended, or has not started, is one the script may see.
LEMMA EndedMonitor ==
  /\ NoMonitor \in Monitors
  /\ [NoMonitor EXCEPT !.state = "dead"] \in Monitors
BY DEF NoMonitor, Monitors

\* Switching a monitor changes nothing else of it.
LEMMA SwitchedMonitor ==
  ASSUME NEW r \in Monitors
  PROVE  [r EXCEPT !.active = ~r.active] \in Monitors
<1>1. (~r.active) \in BOOLEAN
  OBVIOUS
<1> QED BY <1>1 DEF Monitors

\* The script starts with no monitor, no child and nothing counted.
LEMMA InitIInv == Init => IInv
<1> SUFFICES ASSUME Init PROVE IInv
  OBVIOUS
<1> USE PlanAssumption DEF Init, Places, Attempting, NoMonitor, MonitorRuns
<1>1. ScriptTypeOK
  <2>1. mon \in Monitors
    BY EndedMonitor
  <2>2. {flag, pgid, cur, aborted} \subseteq BOOLEAN
    OBVIOUS
  <2> QED BY <2>1, <2>2 DEF ScriptTypeOK, Monitors
<1>2. AttemptInv /\ MonitorInv /\ KernelInv /\ FlagInv
  BY DEF AttemptInv, MonitorInv, KernelInv, FlagInv
<1> QED BY <1>1, <1>2 DEF IInv

\* Every step of the script, the monitor, the watcher and the experiment
\* keeps the invariant.
LEMMA NextIInv == IInv /\ [Next]_vars => IInv'
<1> SUFFICES ASSUME IInv, [Next]_vars PROVE IInv'
  OBVIOUS
<1> USE PlanAssumption
    DEF IInv, ScriptTypeOK, AttemptInv, MonitorInv, KernelInv, FlagInv, Places,
        Attempting, NoMonitor, MonitorRuns, Mode, Go, plan, others
<1>1. CASE NextPair
  BY <1>1 DEF NextPair, Orders
<1>2. CASE NextMode
  BY <1>2 DEF NextMode
<1>3. CASE Finished
  BY <1>3 DEF Finished
<1>4. CASE StartAttempt
  BY <1>4 DEF StartAttempt
<1>5. CASE PrepareFails
  <2>1. ScriptTypeOK'
    BY <1>5 DEF PrepareFails
  <2>2. AttemptInv'
    BY <1>5 DEF PrepareFails
  <2>3. MonitorInv'
    BY <1>5 DEF PrepareFails
  <2>4. KernelInv'
    BY <1>5 DEF PrepareFails
  <2>5. FlagInv'
    BY <1>5 DEF PrepareFails
  <2> QED BY <2>1, <2>2, <2>3, <2>4, <2>5 DEF IInv
<1>6. CASE GiveUp
  BY <1>6 DEF GiveUp
<1>7. CASE HealthCheck
  BY <1>7 DEF HealthCheck, Retry
<1>8. CASE LaunchMonitor
  BY <1>8 DEF LaunchMonitor
<1>9. CASE ReadPidFile
  BY <1>9 DEF ReadPidFile
<1>10. CASE NoPidFile
  BY <1>10 DEF NoPidFile
<1>11. CASE Reap
  BY <1>11 DEF Reap, Retry
<1>12. CASE WaitReady
  BY <1>12 DEF WaitReady, Retry
<1>13. CASE ValidateKernelMode
  BY <1>13 DEF ValidateKernelMode, Retry
<1>14. CASE StartExperiment
  BY <1>14 DEF StartExperiment
<1>15. CASE Located
  BY <1>15 DEF Located
<1>16. CASE NotLocated
  BY <1>16 DEF NotLocated, Retry
<1>17. CASE WaitExperiment
  <2>1. ScriptTypeOK'
    BY <1>17 DEF WaitExperiment
  <2>2. AttemptInv'
    BY <1>17 DEF WaitExperiment
  <2>3. MonitorInv'
    BY <1>17 DEF WaitExperiment
  <2>4. KernelInv'
    BY <1>17 DEF WaitExperiment
  <2>5. FlagInv'
    BY <1>17 DEF WaitExperiment
  <2> QED BY <2>1, <2>2, <2>3, <2>4, <2>5 DEF IInv
<1>18. CASE Judge
  <2>1. ScriptTypeOK'
    <3>1. CASE ~flag /\ exper = "ok" /\ order' = Tail(order) /\ after' = "plan"
               /\ pc' = "cleanup" /\ UNCHANGED <<pair, attempt>>
      <4>1. order' \in {<<>>, <<"normal">>, <<"redhat">>}
        BY <1>18, <3>1, OrderTail DEF Judge
      <4> QED BY <1>18, <3>1, <4>1 DEF Judge
    <3>2. CASE Retry
      BY <1>18, <3>2 DEF Judge, Retry
    <3> QED BY <1>18, <3>1, <3>2 DEF Judge
  <2>2. AttemptInv'
    BY <1>18, OrderTail DEF Judge, Retry
  <2>3. MonitorInv'
    BY <1>18, OrderTail DEF Judge, Retry
  <2>4. KernelInv'
    BY <1>18, OrderTail DEF Judge, Retry
  <2>5. FlagInv'
    BY <1>18, OrderTail DEF Judge, Retry
  <2> QED BY <2>1, <2>2, <2>3, <2>4, <2>5 DEF IInv
<1>19. CASE Cleanup
  <2>1. ScriptTypeOK'
    BY <1>19 DEF Cleanup, StopWatcherAndExperiment
  <2>2. AttemptInv' /\ MonitorInv' /\ KernelInv' /\ FlagInv'
    BY <1>19 DEF Cleanup, StopWatcherAndExperiment
  <2> QED BY <2>1, <2>2 DEF IInv
<1>20. CASE CleanupMonitor
  <2>1. ScriptTypeOK'
    BY <1>20 DEF CleanupMonitor, StopMonitor
  <2>2. AttemptInv'
    BY <1>20 DEF CleanupMonitor, StopMonitor
  <2>3. MonitorInv'
    BY <1>20 DEF CleanupMonitor, StopMonitor
  <2>4. KernelInv'
    BY <1>20 DEF CleanupMonitor, StopMonitor
  <2>5. FlagInv'
    BY <1>20 DEF CleanupMonitor, StopMonitor
  <2> QED BY <2>1, <2>2, <2>3, <2>4, <2>5 DEF IInv
<1>21. CASE OnExit
  BY <1>21 DEF OnExit, StopWatcherAndExperiment, StopMonitor
<1>22. CASE Interrupt
  BY <1>22 DEF Interrupt
<1>23. CASE MonitorUp
  BY <1>23 DEF MonitorUp
<1>24. CASE MonitorDies
  <2>1. ScriptTypeOK'
    <3>1. \/ mon' = [NoMonitor EXCEPT !.state = "dead"]
          \/ mon' = NoMonitor
      BY <1>24 DEF MonitorDies
    <3>2. mon' \in Monitors
      BY <3>1, EndedMonitor
    <3> QED BY <1>24, <3>2 DEF MonitorDies, Monitors
  <2>2. AttemptInv'
    BY <1>24 DEF MonitorDies
  <2>3. MonitorInv'
    BY <1>24 DEF MonitorDies
  <2>4. KernelInv'
    BY <1>24 DEF MonitorDies
  <2>5. FlagInv'
    BY <1>24 DEF MonitorDies
  <2> QED BY <2>1, <2>2, <2>3, <2>4, <2>5 DEF IInv
<1>25. CASE MonitorWrites
  BY <1>25 DEF MonitorWrites, Settled, Goal
<1>26. CASE MonitorSwitches
  <2>1. ScriptTypeOK'
    <3>1. mon' \in Monitors
      BY <1>26, SwitchedMonitor DEF MonitorSwitches, Monitors
    <3> QED BY <1>26, <3>1 DEF MonitorSwitches, Monitors
  <2>2. AttemptInv'
    BY <1>26 DEF MonitorSwitches, Settled
  <2>3. MonitorInv'
    BY <1>26 DEF MonitorSwitches, Settled
  <2>4. KernelInv'
    BY <1>26 DEF MonitorSwitches, Settled
  <2>5. FlagInv'
    BY <1>26 DEF MonitorSwitches, Settled
  <2> QED BY <2>1, <2>2, <2>3, <2>4, <2>5 DEF IInv
<1>27. CASE MonitorSleeps
  <2>1. ScriptTypeOK'
    BY <1>27 DEF MonitorSleeps, Settled
  <2>2. AttemptInv'
    BY <1>27 DEF MonitorSleeps, Settled
  <2>3. MonitorInv'
    BY <1>27 DEF MonitorSleeps, Settled
  <2>4. KernelInv'
    BY <1>27 DEF MonitorSleeps, Settled
  <2>5. FlagInv'
    BY <1>27 DEF MonitorSleeps, Settled
  <2> QED BY <2>1, <2>2, <2>3, <2>4, <2>5 DEF IInv
<1>28. CASE Flag
  BY <1>28 DEF Flag
<1>29. CASE Abort
  BY <1>29 DEF Abort
<1>30. CASE ExperimentEnds
  BY <1>30 DEF ExperimentEnds
<1>31. CASE UNCHANGED vars
  BY <1>31 DEF vars
<1> QED
  BY <1>1, <1>2, <1>3, <1>4, <1>5, <1>6, <1>7, <1>8, <1>9, <1>10, <1>11, <1>12, <1>13, <1>14, <1>15, <1>16, <1>17, <1>18, <1>19, <1>20, <1>21, <1>22, <1>23, <1>24, <1>25, <1>26, <1>27, <1>28, <1>29, <1>30, <1>31
     DEF Next, Script, Monitor

-----------------------------------------------------------------------------
\* The inductive invariant holds in every state of the script.
LEMMA ScriptInvariant == Spec => []IInv
BY InitIInv, NextIInv, PTL DEF Spec

\* prepare_normal_kernel, stop_monitor and validate_kernel_mode: while a NORMAL
\* measurement runs the controller is off, for any number of pairs, attempts
\* and failures before it.
THEOREM NormalMeasuredOff == Spec => []NormalStaysOff
<1>1. IInv => NormalStaysOff
  BY DEF IInv, NormalStaysOff, KernelInv, Attempting
<1> QED BY <1>1, ScriptInvariant, PTL

\* run_one: an experiment that the watcher killed is judged by the flag file,
\* which is there by then, and so never counted as a success.
THEOREM AbortedRunsRepeated == Spec => AbortedNotCounted
<1> DEFINE Counted == pc = "judge" /\ pc' = "cleanup" /\ after' = "plan"
<1>1. ASSUME IInv, [Next]_vars, Counted PROVE ~aborted
  <2> USE <1>1 DEF Go, Counted
  <2>1. CASE Judge
    <3>1. ~flag
      BY <2>1 DEF Judge, Retry
    <3> QED BY <3>1 DEF IInv, FlagInv
  <2>2. pc' # pc
    OBVIOUS
  <2>3. ASSUME Script, ~Judge PROVE FALSE
    BY <2>3 DEF Script, NextPair, NextMode, Finished, StartAttempt, PrepareFails,
        GiveUp, HealthCheck, LaunchMonitor, ReadPidFile, NoPidFile, Reap, WaitReady,
        ValidateKernelMode, StartExperiment, Located, NotLocated, WaitExperiment,
        Cleanup, CleanupMonitor, OnExit
  <2>4. ASSUME Interrupt \/ Monitor \/ Flag \/ Abort \/ ExperimentEnds \/ UNCHANGED vars
        PROVE  FALSE
    BY <2>2, <2>4 DEF Interrupt, Monitor, MonitorUp, MonitorDies, MonitorWrites,
        MonitorSwitches, MonitorSleeps, Flag, Abort, ExperimentEnds, vars
  <2> QED BY <2>1, <2>3, <2>4 DEF Next
<1>2. IInv /\ [Next]_vars => [Counted => ~aborted]_vars
  BY <1>1
<1> HIDE DEF Counted
<1>3. Spec => [][Counted => ~aborted]_vars
  BY <1>2, ScriptInvariant, PTL DEF Spec
<1> QED BY <1>3 DEF AbortedNotCounted, Counted

\* start_redhat_monitor: a monitor is launched only when the one before it has
\* ended, so two of them never write the kernel's settings at once.
THEOREM MonitorsAlternate == Spec => OneMonitor
<1> DEFINE Launched == pc = "launch" /\ pc' = "pidfile"
<1>1. IInv /\ [Next]_vars => [Launched => ~MonitorRuns]_vars
  BY DEF IInv, MonitorInv
<1> HIDE DEF Launched
<1>2. Spec => [][Launched => ~MonitorRuns]_vars
  BY <1>1, ScriptInvariant, PTL DEF Spec
<1> QED BY <1>2 DEF OneMonitor, Launched

\* stop_monitor and the traps: a monitor the script cannot stop is one whose
\* pid file it has not read yet, also when the script ends there.
THEOREM OrphansBeforePidFile == Spec => OrphanOnlyBeforePidFile
<1> DEFINE Orphan == MonitorRuns' /\ ~pgid'
           Allowed == \/ pc' \in {"pidfile", "reap"}
                      \/ MonitorRuns /\ ~pgid /\ pc \in {"pidfile", "reap", "exit", "ended"}
<1>1. ASSUME IInv, IInv', [Next]_vars, Orphan PROVE Allowed
  <2>1. pc' \in {"pidfile", "reap", "exit", "ended"}
    BY <1>1 DEF IInv, MonitorInv
  <2>2. CASE pc' \in {"exit", "ended"}
    <3> USE <1>1, <2>2 DEF Go, MonitorRuns
    <3>1. ASSUME Script PROVE MonitorRuns /\ ~pgid
      BY <3>1 DEF Script, NextPair, NextMode, Finished, StartAttempt, PrepareFails,
        GiveUp, HealthCheck, LaunchMonitor, ReadPidFile, NoPidFile, Reap, WaitReady,
        ValidateKernelMode, StartExperiment, Located, NotLocated, WaitExperiment,
        Judge, Retry, Cleanup, CleanupMonitor, OnExit, StopMonitor, NoMonitor, others,
        IInv, ScriptTypeOK
    <3>2. ASSUME Interrupt \/ Monitor \/ Flag \/ Abort \/ ExperimentEnds \/ UNCHANGED vars
          PROVE  MonitorRuns /\ ~pgid
      BY <3>2 DEF Interrupt, Monitor, MonitorUp, MonitorDies, MonitorWrites,
        MonitorSwitches, MonitorSleeps, Flag, Abort, ExperimentEnds, vars, NoMonitor,
        others, IInv, ScriptTypeOK
    <3>3. MonitorRuns /\ ~pgid
      BY <3>1, <3>2 DEF Next
    <3> QED BY <3>3 DEF IInv, MonitorInv
  <2> QED BY <2>1, <2>2
<1>2. IInv /\ IInv' /\ [Next]_vars => [Orphan => Allowed]_vars
  BY <1>1
<1> HIDE DEF Orphan, Allowed
<1>3. Spec => [][Orphan => Allowed]_vars
  BY <1>2, ScriptInvariant, PTL DEF Spec
<1> QED BY <1>3 DEF OrphanOnlyBeforePidFile, Orphan, Allowed
=============================================================================
