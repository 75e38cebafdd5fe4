---------------------------- MODULE MCRedhatCycle ----------------------------
(***************************************************************************)
(* The controller with its settings left alone, over two handover cycles.  *)
(* The settings are the kernel's scaled down: a period of 10 units in      *)
(* which, for an RTT of 4, OUTAGE starts at 8, DRAIN at 5 and PRE between 1*)
(* and 4.  With an outage of 1 unit there is a NORMAL gap before the       *)
(* boundary at 10.                                                         *)
(***************************************************************************)
EXTENDS RedhatController

ScaledSysctls ==
    {[BootSysctl EXCEPT !.rwnd_period_ms = 10, !.rwnd_offset_ms = 3,
         !.rwnd_min_segs = 1, !.sample_ms = 3, !.freeze_guard_ms = 1,
         !.pre_min_ms = 1, !.pre_max_ms = 4,
         !.outage_min_ms = 0, !.outage_max_ms = 2, !.outage_guard_ms = 0,
         !.drain_min_ms = 1, !.drain_max_ms = 2, !.fallback_rtt_ms = 4,
         !.fallback_rate_mbps = 1, !.ewma_shift = 1, !.prediction_guard_ms = 1,
         !.recovery_min_ms = 1, !.recovery_max_ms = 3]}

\* Writes that arrive in the middle of a cycle: the monitor's resynchronised
\* offset and new period, and an administrator taking the socket's port out
\* of the filter and putting it back
MidCycleWrites == {<<"rwnd_offset_ms", 5>>, <<"rwnd_period_ms", 7>>}
MidCyclePorts  == {<<1, 0>>, <<1, 20075>>}
=============================================================================
