------------------------------ MODULE LeoSysctl ------------------------------
(***************************************************************************)
(* The sysctls of the receive-window controllers: the fields of            *)
(* struct netns_ipv4 (ipv4.h), the values tcp_sk_init gives them           *)
(* (tcp_ipv4.c) and what /proc/sys accepts for each (sysctl_net_ipv4.c).   *)
(* The names drop the prefixes tcp_leo_ and tcp_leo_dynamic_; the log      *)
(* switch rwnd_debug is left out, and the stock tcp_shrink_window, which   *)
(* window selection reads, is included.  The four allow_port slots are     *)
(* kept apart, as the array they are.                                      *)
(***************************************************************************)
EXTENDS Integers

CONSTANT MaxUint        \* the largest value an unsigned sysctl can hold

Switches ==
    {"rwnd_enable", "dynamic_enable", "pred_guard_to_outage", "recovery_enable",
     "shrink_window"}

AtLeastOne ==
    {"rwnd_period_ms", "rwnd_min_segs", "rwnd_recovery_ms", "rwnd_fast_recovery",
     "sample_ms", "freeze_guard_ms", "pre_min_ms", "pre_max_ms",
     "fallback_rtt_ms", "fallback_rate_mbps", "ewma_shift", "prediction_guard_ms"}

AtLeastZero ==
    {"rwnd_offset_ms", "rwnd_pre_ms", "rwnd_outage_ms", "outage_min_ms",
     "outage_max_ms", "outage_guard_ms", "drain_min_ms", "drain_max_ms",
     "recovery_min_ms", "recovery_max_ms"}

SysctlNames == Switches \cup AtLeastOne \cup AtLeastZero

Sysctls == [SysctlNames -> Nat]
Ports   == [1..4 -> Nat]

\* A write outside the bounds of the table is refused with EINVAL
SysctlAccepts(name, v) ==
    \/ name \in Switches    /\ v \in {0, 1}
    \/ name \in AtLeastOne  /\ v \in 1..MaxUint
    \/ name \in AtLeastZero /\ v \in 0..MaxUint

PortMax == 65535
PortAccepts(v) == v \in 0..PortMax

BootSysctl ==
    [rwnd_enable |-> 1, rwnd_period_ms |-> 15000, rwnd_offset_ms |-> 12000,
     rwnd_pre_ms |-> 150, rwnd_outage_ms |-> 100, rwnd_min_segs |-> 4,
     rwnd_recovery_ms |-> 0, rwnd_fast_recovery |-> 1,
     dynamic_enable |-> 1, sample_ms |-> 50, freeze_guard_ms |-> 50,
     pre_min_ms |-> 20, pre_max_ms |-> 300,
     outage_min_ms |-> 10, outage_max_ms |-> 80, outage_guard_ms |-> 5,
     drain_min_ms |-> 10, drain_max_ms |-> 80,
     fallback_rtt_ms |-> 70, fallback_rate_mbps |-> 250, ewma_shift |-> 3,
     prediction_guard_ms |-> 30, pred_guard_to_outage |-> 1,
     recovery_min_ms |-> 20, recovery_max_ms |-> 80, recovery_enable |-> 1,
     shrink_window |-> 1]

BootPorts == <<20075, 20076, 0, 0>>
=============================================================================
