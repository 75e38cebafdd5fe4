--------------------------- MODULE AutoExperiment ---------------------------
(***************************************************************************)
(* bin/run_auto_exp.sh: pairs of NORMAL and REDHAT measurement runs, each  *)
(* retried up to MAX_ATTEMPT times.                                        *)
(*                                                                         *)
(* Four processes run at once: the script itself (pc), the RedHAT monitor  *)
(* it launches in a session of its own (mon), the experiment               *)
(* run_experiment.sh (exper) and the background health watcher (watcher),  *)
(* which shares a flag file with the script.  The script knows the process *)
(* groups it has to kill by two variables, MONITOR_PGID and CURRENT_PGID.  *)
(* What the monitor does is taken from AutoMonitor: it switches the kernel *)
(* one sysctl at a time, and only if started with --manage-enable.         *)
(***************************************************************************)
EXTENDS Naturals, Sequences

CONSTANTS
    PairRuns,       \* PAIR_RUNS
    MaxAttempt,     \* MAX_ATTEMPT
    Randomize,      \* RANDOMIZE_PAIR_ORDER
    SlowStart,      \* the pid file may appear after the 5 seconds waited for it
    CanInterrupt    \* Ctrl-C or SIGTERM may arrive

ASSUME PlanAssumption ==
    /\ PairRuns \in Nat /\ MaxAttempt \in Nat \ {0}
    /\ {Randomize, SlowStart, CanInterrupt} \subseteq BOOLEAN

VARIABLES
    pc,         \* where the script is
    after,      \* where a cleanup goes on: to the next attempt, or the plan
    pair, order,    \* the current pair and the modes it has still to run
    attempt,
    kernel,     \* the two enable sysctls: "off", "mixed" or "on"
    mon,        \* the monitor process
    exper,      \* the experiment: "none", "running", "killed", "ok" or "bad"
    watcher,    \* "none", "watching" or "flagged" (flag written, not yet killed)
    flag,       \* the flag file exists
    pgid,       \* MONITOR_PGID is set
    cur,        \* CURRENT_PGID is set
    aborted     \* history: the watcher has aborted the current experiment

vars == <<pc, after, pair, order, attempt, kernel, mon, exper, watcher, flag,
          pgid, cur, aborted>>

plan == <<pair, order, attempt>>
others == <<kernel, mon, exper, watcher, flag>>     \* processes and files

Mode == Head(order)
NoMonitor == [state |-> "none", manage |-> FALSE, active |-> FALSE, slept |-> FALSE]
Orders == IF Randomize THEN {<<"normal", "redhat">>, <<"redhat", "normal">>}
          ELSE {<<"normal", "redhat">>}

Go(place) == pc' = place

-----------------------------------------------------------------------------
(* The plan and the start of an attempt.                                   *)

NextPair ==
    /\ pc = "plan" /\ order = <<>> /\ pair < PairRuns
    /\ pair' = pair + 1 /\ order' \in Orders
    /\ UNCHANGED <<pc, after, attempt, others, pgid, cur, aborted>>

NextMode ==
    /\ pc = "plan" /\ order # <<>>
    /\ attempt' = 1 /\ Go("attempt")
    /\ UNCHANGED <<after, pair, order, others, pgid, cur, aborted>>

Finished ==
    /\ pc = "plan" /\ order = <<>> /\ pair = PairRuns
    /\ Go("exit")
    /\ UNCHANGED <<after, plan, others, pgid, cur, aborted>>

\* "Every condition begins from known OFF state."
StartAttempt ==
    /\ pc = "attempt" /\ attempt <= MaxAttempt
    /\ flag' = FALSE /\ aborted' = FALSE
    /\ kernel' = "off"                      \* prepare_normal_kernel
    /\ Go("health")
    /\ UNCHANGED <<after, plan, mon, exper, watcher, pgid, cur>>

\* One of the two sysctl writes fails, and under set -e the script exits
PrepareFails ==
    /\ pc = "attempt" /\ attempt <= MaxAttempt
    /\ kernel' \in {kernel, IF kernel = "on" THEN "mixed" ELSE "off"}
    /\ flag' = FALSE /\ Go("exit")
    /\ UNCHANGED <<after, plan, mon, exper, watcher, pgid, cur, aborted>>

\* run_one returns 1, and under set -e the script exits
GiveUp ==
    /\ pc = "attempt" /\ attempt > MaxAttempt
    /\ Go("exit")
    /\ UNCHANGED <<after, plan, others, pgid, cur, aborted>>

\* Slip: a failed attempt is not counted
RetryUncounted ==
    /\ Go("cleanup") /\ after' = "attempt"
    /\ UNCHANGED plan

\* A failed attempt is cleaned up and counted
Retry ==
    /\ Go("cleanup") /\ after' = "attempt"
    /\ attempt' = attempt + 1
    /\ UNCHANGED <<pair, order>>

HealthCheck ==
    /\ pc = "health"
    /\ \/ Go("launch") /\ UNCHANGED <<after, plan>>
       \/ Retry
    /\ UNCHANGED <<others, pgid, cur, aborted>>

-----------------------------------------------------------------------------
(* start_redhat_monitor and wait_for_monitor_ready                         *)

\* Slip: the monitor manages the kernel whatever the mode
LaunchManaging ==
    /\ pc = "launch"
    /\ mon' = [NoMonitor EXCEPT !.state = "starting", !.manage = TRUE]
    /\ Go("pidfile")
    /\ UNCHANGED <<after, plan, kernel, exper, watcher, flag, pgid, cur, aborted>>

LaunchMonitor ==
    /\ pc = "launch"
    /\ mon' = [NoMonitor EXCEPT !.state = "starting", !.manage = (Mode = "redhat")]
    /\ Go("pidfile")
    /\ UNCHANGED <<after, plan, kernel, exper, watcher, flag, pgid, cur, aborted>>

\* A monitor that is up has written the pid file
ReadPidFile ==
    /\ pc = "pidfile" /\ mon.state \in {"up", "dead"}
    /\ pgid' = TRUE /\ Go("ready")
    /\ UNCHANGED <<after, plan, others, cur, aborted>>

\* Five seconds without a pid file: the script waits for the launcher, which
\* ends when the monitor does, and then fails the attempt
NoPidFile ==
    /\ pc = "pidfile"
    /\ mon.state = "none" \/ (SlowStart /\ mon.state = "starting")
    /\ Go("reap")
    /\ UNCHANGED <<after, plan, others, pgid, cur, aborted>>

Reap ==
    /\ pc = "reap" /\ mon.state \in {"none", "dead"}
    /\ Retry
    /\ UNCHANGED <<others, pgid, cur, aborted>>

\* The monitor has to log ACTIVE_SLEEP before the timeout, and to be alive
WaitReady ==
    /\ pc = "ready"
    /\ \/ mon.state = "up" /\ mon.slept /\ Go("validate") /\ UNCHANGED <<after, plan>>
       \/ Retry
    /\ UNCHANGED <<others, pgid, cur, aborted>>

ValidateKernelMode ==
    /\ pc = "validate"
    /\ IF kernel = (IF Mode = "redhat" THEN "on" ELSE "off")
       THEN Go("start") /\ UNCHANGED <<after, plan>>
       ELSE Retry
    /\ UNCHANGED <<others, pgid, cur, aborted>>

-----------------------------------------------------------------------------
(* The experiment and its watcher.                                         *)

StartExperiment ==
    /\ pc = "start"
    /\ exper' = "running" /\ cur' = TRUE /\ Go("locate")
    /\ UNCHANGED <<after, plan, kernel, mon, watcher, flag, pgid, aborted>>

\* wait_for_result_dir finds the new directory, and the watcher is started
Located ==
    /\ pc = "locate"
    /\ watcher' = "watching" /\ Go("wait")
    /\ UNCHANGED <<after, plan, kernel, mon, exper, flag, pgid, cur, aborted>>

NotLocated ==
    /\ pc = "locate"
    /\ Retry
    /\ UNCHANGED <<others, pgid, cur, aborted>>

\* Slip: the experiment is killed and no flag is written
KillUnflagged ==
    /\ watcher = "watching"
    /\ exper' = IF exper = "running" THEN "killed" ELSE exper
    /\ aborted' = (aborted \/ exper = "running")
    /\ watcher' = "flagged"
    /\ UNCHANGED <<pc, after, plan, kernel, mon, flag, pgid, cur>>

\* A failed health check, a dead monitor or a USB error: the flag is written
\* before the experiment is killed
Flag ==
    /\ watcher = "watching"
    /\ flag' = TRUE /\ watcher' = "flagged"
    /\ UNCHANGED <<pc, after, plan, kernel, mon, exper, pgid, cur, aborted>>

Abort ==
    /\ watcher = "flagged"
    /\ exper' = IF exper = "running" THEN "killed" ELSE exper
    /\ aborted' = (aborted \/ exper = "running")
    /\ watcher' = "none"
    /\ UNCHANGED <<pc, after, plan, kernel, mon, flag, pgid, cur>>

\* Whatever ends the experiment, its exit status may be anything
ExperimentEnds ==
    /\ exper \in {"running", "killed"}
    /\ exper' \in {"ok", "bad"}
    /\ UNCHANGED <<pc, after, plan, kernel, mon, watcher, flag, pgid, cur, aborted>>

\* wait "$CURRENT_PGID"; then the watcher is stopped, wherever it is
WaitExperiment ==
    /\ pc = "wait" /\ exper \in {"ok", "bad"}
    /\ watcher' = "none" /\ cur' = FALSE /\ Go("judge")
    /\ UNCHANGED <<after, plan, kernel, mon, exper, flag, pgid, aborted>>

Judge ==
    /\ pc = "judge"
    /\ exper' = "none"
    /\ \/ /\ ~flag /\ exper = "ok"
          /\ order' = Tail(order) /\ after' = "plan" /\ Go("cleanup")
          /\ UNCHANGED <<pair, attempt>>
       \/ (flag \/ exper = "bad") /\ Retry
    /\ UNCHANGED <<kernel, mon, watcher, flag, pgid, cur, aborted>>

-----------------------------------------------------------------------------
(* Cleaning up.  The monitor goes on until it is stopped, last.            *)

StopWatcherAndExperiment ==
    /\ watcher' = "none"
    /\ exper' = IF cur THEN "none" ELSE exper
    /\ cur' = FALSE

\* Slip: the monitor is not stopped
ForgetMonitor == UNCHANGED <<mon, pgid>>

StopMonitor ==
    /\ mon' = IF pgid THEN NoMonitor ELSE mon
    /\ pgid' = FALSE

Cleanup ==
    /\ pc = "cleanup"
    /\ StopWatcherAndExperiment
    /\ Go("stop_monitor")
    /\ UNCHANGED <<after, plan, kernel, mon, flag, pgid, aborted>>

CleanupMonitor ==
    /\ pc = "stop_monitor"
    /\ StopMonitor
    /\ Go(after)
    /\ UNCHANGED <<after, plan, kernel, exper, watcher, flag, cur, aborted>>

\* Slip: MONITOR_PGID is emptied before the group is killed
ForgetOnExit ==
    /\ pc = "exit"
    /\ StopWatcherAndExperiment
    /\ pgid' = FALSE
    /\ Go("ended")
    /\ UNCHANGED <<after, plan, kernel, mon, flag, aborted>>

\* The EXIT trap; on Ctrl-C the INT trap exits
OnExit ==
    /\ pc = "exit"
    /\ StopWatcherAndExperiment
    /\ StopMonitor
    /\ Go("ended")
    /\ UNCHANGED <<after, plan, kernel, flag, aborted>>

Interrupt ==
    /\ CanInterrupt /\ pc \notin {"exit", "ended"}
    /\ Go("exit")
    /\ UNCHANGED <<after, plan, others, pgid, cur, aborted>>

-----------------------------------------------------------------------------
(* The monitor (AutoMonitor, seen from outside).                           *)

Goal == IF mon.active THEN "on" ELSE "off"
Settled == ~mon.manage \/ kernel = Goal

MonitorUp ==
    /\ mon.state = "starting"
    /\ mon' = [mon EXCEPT !.state = "up"]
    /\ UNCHANGED <<pc, after, plan, kernel, exper, watcher, flag, pgid, cur, aborted>>

\* It never gets so far (sudo fails), or ends later
MonitorDies ==
    /\ mon.state \in {"starting", "up"}
    /\ mon' = [NoMonitor EXCEPT !.state = IF mon.state = "up" THEN "dead" ELSE "none"]
    /\ UNCHANGED <<pc, after, plan, kernel, exper, watcher, flag, pgid, cur, aborted>>

\* One of the two enables is written
MonitorWrites ==
    /\ mon.state = "up" /\ ~Settled
    /\ kernel' = IF kernel = "mixed" THEN Goal ELSE "mixed"
    /\ UNCHANGED <<pc, after, plan, mon, exper, watcher, flag, pgid, cur, aborted>>

\* It activates, or it goes back to learning
MonitorSwitches ==
    /\ mon.state = "up" /\ Settled
    /\ mon' = [mon EXCEPT !.active = ~@]
    /\ UNCHANGED <<pc, after, plan, kernel, exper, watcher, flag, pgid, cur, aborted>>

MonitorSleeps ==
    /\ mon.state = "up" /\ mon.active /\ Settled /\ ~mon.slept
    /\ mon' = [mon EXCEPT !.slept = TRUE]
    /\ UNCHANGED <<pc, after, plan, kernel, exper, watcher, flag, pgid, cur, aborted>>

-----------------------------------------------------------------------------
Init ==
    /\ pc = "plan" /\ after = "plan"
    /\ pair = 0 /\ order = <<>> /\ attempt = 1
    /\ kernel = "on"                        \* as the kernel boots
    /\ mon = NoMonitor /\ exper = "none" /\ watcher = "none"
    /\ flag = FALSE /\ pgid = FALSE /\ cur = FALSE /\ aborted = FALSE

Script ==
    \/ NextPair \/ NextMode \/ Finished \/ StartAttempt \/ PrepareFails \/ GiveUp
    \/ HealthCheck \/ LaunchMonitor \/ ReadPidFile \/ NoPidFile \/ Reap
    \/ WaitReady \/ ValidateKernelMode
    \/ StartExperiment \/ Located \/ NotLocated \/ WaitExperiment \/ Judge
    \/ Cleanup \/ CleanupMonitor \/ OnExit

Monitor == MonitorUp \/ MonitorDies \/ MonitorWrites \/ MonitorSwitches \/ MonitorSleeps

Next == Script \/ Interrupt \/ Monitor \/ Flag \/ Abort \/ ExperimentEnds

\* Every command the script runs and every timeout it sets ends; a launched
\* process comes up or fails; an experiment of fixed duration ends.
Fairness == WF_vars(Script) /\ WF_vars(MonitorUp) /\ WF_vars(ExperimentEnds)

Spec == Init /\ [][Next]_vars /\ Fairness

-----------------------------------------------------------------------------
(* Properties.                                                             *)

Places == {"plan", "attempt", "health", "launch", "pidfile", "reap", "ready",
           "validate", "start", "locate", "wait", "judge", "cleanup",
           "stop_monitor", "exit", "ended"}

\* The types of the script's variables and of what it sees of its processes;
\* an attempt is never numbered beyond the one that gives up.
ScriptTypeOK ==
    /\ pc \in Places /\ after \in {"plan", "attempt"}
    /\ pair \in 0..PairRuns /\ order \in {<<>>, <<"normal">>, <<"redhat">>} \cup Orders
    /\ attempt \in 1..(MaxAttempt + 1)
    /\ kernel \in {"off", "mixed", "on"}
    /\ mon \in [state : {"none", "starting", "up", "dead"}, manage : BOOLEAN,
                active : BOOLEAN, slept : BOOLEAN]
    /\ exper \in {"none", "running", "killed", "ok", "bad"}
    /\ watcher \in {"none", "watching", "flagged"}
    /\ {flag, pgid, cur, aborted} \subseteq BOOLEAN

\* prepare_normal_kernel, stop_monitor and validate_kernel_mode together: the
\* controller is off for as long as a NORMAL measurement runs, although a
\* REDHAT run before it left the kernel on and a monitor behind.
NormalStaysOff ==
    /\ ScriptTypeOK
    /\ pc \in {"locate", "wait"} /\ Mode = "normal" => kernel = "off"

\* start_health_watcher and run_one: a measurement that the watcher has
\* aborted is never taken for a successful one, whatever its exit status and
\* whenever the watcher is stopped.
AbortedNotCounted ==
    [][ pc = "judge" /\ pc' = "cleanup" /\ after' = "plan" => ~aborted ]_vars

MonitorRuns == mon.state \in {"starting", "up"}

\* stop_monitor on every path: no attempt launches a monitor while the monitor
\* of another attempt may still be writing sysctls.
OneMonitor ==
    [][ pc = "launch" /\ pc' = "pidfile" => ~MonitorRuns ]_vars

\* run_one and the plan: however its attempts fail, the script ends, unless it
\* waits for a launcher whose monitor came up after the pid file was due.
Terminates == <>(pc = "ended") \/ <>[](pc = "reap" /\ mon.state = "up")

\* start_redhat_monitor: "$! is the process-group leader used by cleanup", but
\* the group cleanup uses comes from a pid file.  A monitor that cleanup cannot
\* stop is one whose pid file has not been read, and it is left behind only if
\* the script is interrupted there.
OrphanOnlyBeforePidFile ==
    [][ MonitorRuns' /\ ~pgid' =>
            \/ pc' \in {"pidfile", "reap"}
            \/ MonitorRuns /\ ~pgid /\ pc \in {"pidfile", "reap", "exit", "ended"} ]_vars
=============================================================================
