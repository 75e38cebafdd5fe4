----------------------------- MODULE MCTcpWindow -----------------------------
(***************************************************************************)
(* One socket with an 8-byte receive buffer, under each of the ways the    *)
(* kernel can be told to choose its window.  The scaling unit is 2 where   *)
(* window scaling is on, and segments are of odd size so that windows are  *)
(* not aligned by accident.                                                *)
(***************************************************************************)
EXTENDS TcpWindow

\* The fixed controller alone, a period of 6 with PRE over 3 and OUTAGE over 2
FixedSysctl ==
    [BootSysctl EXCEPT !.dynamic_enable = 0, !.shrink_window = 0,
        !.rwnd_period_ms = 6, !.rwnd_offset_ms = 1, !.rwnd_pre_ms = 3,
        !.rwnd_outage_ms = 2, !.rwnd_min_segs = 1]

ShrinkingFixedSysctls == {[FixedSysctl EXCEPT !.shrink_window = 1]}

\* The dynamic controller, a period of 6 with DRAIN from 2 and OUTAGE from 4
DynamicSysctl ==
    [BootSysctl EXCEPT !.rwnd_period_ms = 6, !.rwnd_offset_ms = 0,
        !.rwnd_min_segs = 1, !.sample_ms = 3, !.freeze_guard_ms = 1,
        !.pre_min_ms = 1, !.pre_max_ms = 2,
        !.outage_min_ms = 0, !.outage_max_ms = 2, !.outage_guard_ms = 0,
        !.drain_min_ms = 1, !.drain_max_ms = 1, !.fallback_rtt_ms = 4,
        !.fallback_rate_mbps = 1, !.ewma_shift = 1, !.prediction_guard_ms = 1,
        !.recovery_min_ms = 2, !.recovery_max_ms = 2]

NoShrinkDynamicSysctls == {[DynamicSysctl EXCEPT !.shrink_window = 0]}

AllSysctls == {FixedSysctl, DynamicSysctl}

OtherPorts == <<5001, 0, 0, 0>>

\* An administrator turns the controllers off and on
SwitchWrites == {<<"rwnd_enable", 0>>, <<"rwnd_enable", 1>>, <<"dynamic_enable", 0>>}
=============================================================================
