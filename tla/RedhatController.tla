-------------------------- MODULE RedhatController --------------------------
(***************************************************************************)
(* One socket under the dynamic receive-window controller of                *)
(* redhat_kernel/tcp_redhat.c.                                              *)
(*                                                                         *)
(* tcp_leo_dynamic_target runs under the socket lock whenever the socket   *)
(* sends a segment, so a call is one step; between two calls the wall clock*)
(* runs (and may be set), data arrives, and an administrator or            *)
(* redhat_auto_monitor.py writes sysctls one at a time.  The window        *)
(* ordinary TCP would advertise, the RTT estimate and rcv_mss are inputs.  *)
(***************************************************************************)
EXTENDS LeoDynamic, LeoSysctl

CONSTANTS
    StartClocks,    \* instants at which the connection may be established
    TickSizes,      \* how far the clocks may run between two steps
    MaxTime,        \* bound on the clocks
    ClockSets,      \* values the wall clock may be set to (NTP, settimeofday)
    InitialSeq,     \* rcv_nxt when the connection is established
    SegmentSizes,   \* bytes that may arrive at once
    MaxBytes,       \* bound on the bytes received
    NormalWindows,  \* what __tcp_select_window may return
    RcvRtts,        \* receiver RTT estimates (scaled by 8), 0 when there is none
    RcvMsses,       \* values of icsk_ack.rcv_mss
    Sport, Dport,   \* the ports of the socket
    InitSysctls, InitPorts, \* the namespace's settings at the start
    SysctlWrites,   \* writes <<name, value>> that may happen
    PortWrites      \* writes <<slot, port>> that may happen

ASSUME ClockAssumption ==
    /\ StartClocks \cup ClockSets \subseteq 0..(U64Range - 1)
    /\ TickSizes \subseteq Nat
    /\ MaxTime \in Nat
ASSUME StreamAssumption ==
    /\ InitialSeq \in 0..(U32Range - 1)
    /\ SegmentSizes \subseteq 1..(U32Range - 1)
    /\ MaxBytes \in Nat
ASSUME InputAssumption ==
    /\ NormalWindows \subseteq 0..(U32Range - 1)
    /\ RcvRtts \subseteq Nat /\ RcvMsses \subseteq Nat
ASSUME SettingsAssumption ==
    /\ InitSysctls \subseteq Sysctls /\ InitPorts \in Ports
    /\ SysctlWrites \subseteq SysctlNames \X Nat
    /\ PortWrites \subseteq (1..4) \X Nat

VARIABLES
    sysctl, ports,  \* the namespace's settings
    real, mono,     \* ktime_get_real and ktime_get, in the unit of LeoDynamic
    bytes,          \* tp->bytes_received
    rcv_nxt,        \* tp->rcv_nxt, a u32 sequence number
    st,             \* tp->leo_state
    call,           \* the last call: what it read, and what it returned
    edge,           \* history: right edge offered when the last snapshot was taken
    boundary        \* history: the handover boundary the last freeze predicted

settings == <<sysctl, ports>>
vars == <<sysctl, ports, real, mono, bytes, rcv_nxt, st, call, edge, boundary>>

-----------------------------------------------------------------------------
\* The state of a new socket, all zero
NewState ==
    [last_sample_us |-> 0, last_bytes_received |-> 0, recv_rate_Bps_ewma |-> 0,
     rtt_us |-> 0, rtt_baseline_us |-> 0, normal_rwnd_ewma |-> 0,
     frozen_period_id |-> 0, frozen_rtt_half_us |-> 0,
     frozen_start_rwnd |-> 0, frozen_min_rwnd |-> 0, frozen_pre_us |-> 0,
     frozen_outage_us |-> 0, frozen_drain_us |-> 0, frozen_recovery_us |-> 0,
     frozen_prediction_guard_us |-> 0, frozen_pre_start_wnd |-> 0,
     frozen_pre_start_rcv_nxt |-> 0, pre_started |-> FALSE,
     recovery_started |-> FALSE, recovery_start_real_us |-> 0,
     initialized |-> FALSE, frozen |-> FALSE, current_phase |-> NORMAL]

Init ==
    /\ sysctl \in InitSysctls /\ ports = InitPorts
    /\ real \in StartClocks /\ mono = 0
    /\ bytes = 0 /\ rcv_nxt = InitialSeq
    /\ st = NewState
    /\ call = [ran |-> FALSE, froze |-> FALSE, normal |-> 0, target |-> 0,
               bytes |-> 0, real |-> 0]
    /\ edge = 0 /\ boundary = 0

\* Time passes
Tick(d) ==
    /\ mono + d <= MaxTime /\ real + d < U64Range
    /\ real' = real + d /\ mono' = mono + d
    /\ UNCHANGED <<settings, bytes, rcv_nxt, st, call, edge, boundary>>

\* The wall clock is set; the monotonic clock is not
SetClock(t) ==
    /\ real' = t
    /\ UNCHANGED <<settings, mono, bytes, rcv_nxt, st, call, edge, boundary>>

\* In-order data arrives (tcp_rcv_nxt_update in tcp_input.c)
Receive(n) ==
    /\ bytes + n <= MaxBytes
    /\ bytes' = bytes + n /\ rcv_nxt' = U32Add(rcv_nxt, n)
    /\ UNCHANGED <<settings, real, mono, st, call, edge, boundary>>

WriteSysctl(name, v) ==
    /\ SysctlAccepts(name, v)
    /\ sysctl' = [sysctl EXCEPT ![name] = v]
    /\ UNCHANGED <<ports, real, mono, bytes, rcv_nxt, st, call, edge, boundary>>

WritePort(i, v) ==
    /\ PortAccepts(v)
    /\ ports' = [ports EXCEPT ![i] = v]
    /\ UNCHANGED <<sysctl, real, mono, bytes, rcv_nxt, st, call, edge, boundary>>

Input(normal, rtt, mss) ==
    [normal |-> normal, rcv_rtt |-> rtt, rcv_mss |-> mss,
     rcv_nxt |-> rcv_nxt, bytes |-> bytes, real |-> real, mono |-> mono]

Applies == DynamicApplies(sysctl, ports, Sport, Dport)

\* tcp_leo_dynamic_target while the controller is off for this socket
PassThrough(normal) ==
    /\ ~Applies
    /\ call' = [ran |-> FALSE, froze |-> FALSE, normal |-> normal, target |-> normal,
                bytes |-> bytes, real |-> real]
    /\ UNCHANGED <<settings, real, mono, bytes, rcv_nxt, st, edge, boundary>>

\* tcp_leo_dynamic_target while the controller is on for this socket
Control(normal, rtt, mss) ==
    LET in  == Input(normal, rtt, mss)
        res == DynamicTarget(st, sysctl, in)
    IN  /\ Applies
        /\ st' = res.st
        /\ call' = [ran |-> TRUE, froze |-> res.froze,
                    normal |-> normal, target |-> res.target,
                    bytes |-> bytes, real |-> real]
        /\ edge' = IF res.snapshot THEN bytes + res.target ELSE edge
        /\ boundary' = IF res.froze
                       THEN real + PeriodUs(sysctl) - PeriodPosition(sysctl, real)
                       ELSE boundary
        /\ UNCHANGED <<settings, real, mono, bytes, rcv_nxt>>

Next ==
    \/ \E d \in TickSizes : Tick(d)
    \/ \E t \in ClockSets : SetClock(t)
    \/ \E n \in SegmentSizes : Receive(n)
    \/ \E w \in SysctlWrites : WriteSysctl(w[1], w[2])
    \/ \E w \in PortWrites : WritePort(w[1], w[2])
    \/ \E normal \in NormalWindows : PassThrough(normal)
    \/ \E normal \in NormalWindows, rtt \in RcvRtts, mss \in RcvMsses :
            Control(normal, rtt, mss)

Spec == Init /\ [][Next]_vars

-----------------------------------------------------------------------------
(* Properties.                                                             *)

LeoStates ==
    [last_sample_us : Nat, last_bytes_received : Nat, recv_rate_Bps_ewma : Nat,
     rtt_us : Nat, rtt_baseline_us : Nat, normal_rwnd_ewma : Nat,
     frozen_period_id : Nat, frozen_rtt_half_us : Nat,
     frozen_start_rwnd : Nat, frozen_min_rwnd : Nat, frozen_pre_us : Nat,
     frozen_outage_us : Nat, frozen_drain_us : Nat, frozen_recovery_us : Nat,
     frozen_prediction_guard_us : Nat, frozen_pre_start_wnd : Nat,
     frozen_pre_start_rcv_nxt : 0..(U32Range - 1), pre_started : BOOLEAN,
     recovery_started : BOOLEAN, recovery_start_real_us : 0..(U64Range - 1),
     initialized : BOOLEAN, frozen : BOOLEAN, current_phase : Phases]

Calls == [ran : BOOLEAN, froze : BOOLEAN, normal : Nat, target : Nat,
          bytes : Nat, real : Nat]

\* The types of all the state: no subtraction in tcp_redhat.c goes below
\* zero, whatever is written to the sysctls and whenever.
TypeOK ==
    /\ sysctl \in Sysctls /\ ports \in Ports
    /\ real \in 0..(U64Range - 1) /\ mono \in Nat /\ bytes \in Nat
    /\ rcv_nxt \in 0..(U32Range - 1)
    /\ st \in LeoStates
    /\ call \in Calls
    /\ edge \in Nat /\ boundary \in Nat

\* leo_pre_target and leo_safe_target: while the window is being reduced the
\* offered right edge is never left of the edge offered when the reduction
\* began, except as far as ordinary TCP itself takes it back.  A sender that
\* filled the window it was given then has nothing out of window.
SafeShrink ==
    call.ran /\ st.current_phase \in Controlled =>
        call.bytes + call.target >= MinOf(edge, call.bytes + call.normal)

\* leo_pre_target, leo_safe_target, leo_recovery_target: the controller never
\* takes the window below the floor frozen for the cycle (min_segs segments),
\* so it cannot close a window that ordinary TCP keeps open.
FloorKept ==
    call.ran /\ st.current_phase # NORMAL =>
        call.target >= MinOf(call.normal, st.frozen_min_rwnd)

FrozenParams(s) ==
    <<s.frozen_period_id, s.frozen_rtt_half_us, s.frozen_start_rwnd,
      s.frozen_min_rwnd, s.frozen_pre_us, s.frozen_outage_us, s.frozen_drain_us,
      s.frozen_recovery_us, s.frozen_prediction_guard_us>>

\* leo_maybe_freeze and leo_phase: the parameters of a cycle that has a ramp
\* stay as they were frozen until a call has advertised the start of that
\* ramp, through any write of a sysctl and any setting of the clock.
HeldUntilRamp ==
    [][ /\ st.frozen /\ st.frozen_recovery_us # 0 /\ ~st.recovery_started
           => st'.frozen /\ FrozenParams(st') = FrozenParams(st)
        /\ ~st.recovery_started /\ st'.recovery_started
           => st'.current_phase = RECOVERY ]_vars

\* The next three hold while the settings stay as they are and the wall clock
\* only runs forward (no ClockSets, no writes of period or offset).

\* leo_maybe_freeze: after a call a snapshot belongs to the current period,
\* or its ramp is running; a snapshot of a past cycle never lingers.
NoStaleSnapshot ==
    call.ran /\ st.frozen =>
        LET id == PeriodId(sysctl, call.real)
        IN  \/ id = st.frozen_period_id
            \/ /\ id > st.frozen_period_id /\ st.recovery_started
               /\ call.real - st.recovery_start_real_us < st.frozen_recovery_us

\* leo_calc_outage_us, leo_phase: the window is held down only before the
\* handover boundary that was predicted at the freeze, and the ramp starts
\* only at or after it.
ControlEndsByBoundary ==
    call.ran => /\ st.current_phase \in Controlled => call.real < boundary
                /\ st.current_phase = RECOVERY => call.real >= boundary

\* leo_maybe_freeze: each predicted handover is prepared for at most once,
\* and never one that lies behind an earlier one.
CyclesAdvance ==
    [][ st' # st /\ call'.froze => \/ ~st.initialized
                                   \/ st.frozen_period_id = 0
                                   \/ st'.frozen_period_id > st.frozen_period_id ]_vars

\* leo_pre_target, leo_safe_target, leo_recovery_target: with the same window
\* from ordinary TCP, the advertised window only falls from the start of PRE
\* to the end of OUTAGE, and only rises along the ramp.
MonotoneWithinCycle ==
    [][ call.ran /\ call'.ran /\ call'.normal = call.normal
        /\ st'.frozen_period_id = st.frozen_period_id
        => /\ {st.current_phase, st'.current_phase} \subseteq Controlled
              => call'.target <= call.target
           /\ {st.current_phase, st'.current_phase} = {RECOVERY}
              => call'.target >= call.target ]_vars
=============================================================================
