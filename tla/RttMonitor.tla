------------------------------ MODULE RttMonitor ------------------------------
(***************************************************************************)
(* monitor_ping.c: reads the lines of a ping that sends every 10 ms and    *)
(* tells the kernel, over netlink, the round trip of a reply, or that the  *)
(* path was reconfigured when a line came later than a threshold after the *)
(* line before it.  Time is read with gettimeofday, which may be stepped.  *)
(***************************************************************************)
EXTENDS Integers

CONSTANTS Threshold, MaxTime, Gaps

ASSUME RttAssumption == Threshold \in Nat /\ MaxTime \in Nat /\ Gaps \subseteq Nat

VARIABLE mon

MonInit ==
    mon = [time |-> 0, wall |-> 0, last |-> 0, lines |-> 0, stepped |-> FALSE,
           report |-> "none"]

\* A line whose time= is followed by a number is a reply, with an RTT above 0
Report(diff, reply) ==
    IF diff > Threshold THEN "reconfig" ELSE IF reply THEN "rtt" ELSE "none"

\* Slip: only a reply counts as the line before
LineSlip(gap, reply) ==
    LET wall == mon.wall + gap
    IN /\ mon.time + gap <= MaxTime
       /\ mon' = [mon EXCEPT !.time = @ + gap, !.wall = wall, !.lines = @ + 1,
                             !.report = Report(wall - mon.last, reply),
                             !.last = IF reply THEN wall ELSE @, !.stepped = FALSE]

\* The body of the fgets loop
Line(gap, reply) ==
    LET wall == mon.wall + gap
    IN /\ mon.time + gap <= MaxTime
       /\ mon' = [mon EXCEPT !.time = @ + gap, !.wall = wall, !.lines = @ + 1,
                             !.report = Report(wall - mon.last, reply), !.last = wall,
                             !.stepped = FALSE]

ClockStep(by) ==
    /\ ~mon.stepped
    /\ mon' = [mon EXCEPT !.wall = @ + by, !.stepped = TRUE, !.report = "none"]

MonNext ==
    \/ \E gap \in Gaps, reply \in BOOLEAN : Line(gap, reply)
    \/ \E by \in {-Threshold, Threshold} : ClockStep(by)

\* While the clock runs evenly, a reconfiguration is reported exactly for the
\* lines that came later than the threshold after the one before, whatever
\* that one was; the first line counts from the start of the program.
ReconfigIsGap ==
    [][mon'.lines > mon.lines /\ ~mon.stepped =>
         (mon'.report = "reconfig" <=> mon'.time - mon.time > Threshold)]_mon
=============================================================================
