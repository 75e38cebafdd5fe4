---------------------------- MODULE MCAutoMonitor ----------------------------
(***************************************************************************)
(* The monitor with two probe targets, times of a few ticks and two        *)
(* observable periods, 3 and 5 ticks at 2 ticks to a millisecond: neither  *)
(* is a whole number of milliseconds.                                      *)
(***************************************************************************)
EXTENDS AutoMonitor

\* An event that is on time or a tick late
MCPhaseErrors == {0, 1}

\* Switched on at boot, with the boot-time period
FoundSysctl == BootSysctl
=============================================================================
