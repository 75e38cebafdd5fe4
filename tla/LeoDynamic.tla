----------------------------- MODULE LeoDynamic -----------------------------
(***************************************************************************)
(* The arithmetic and the per-socket state transformers of the kernel's    *)
(* dynamic receive-window controller (redhat_kernel/tcp_redhat.c).          *)
(*                                                                         *)
(* The controller predicts periodic satellite handovers.  Shortly before a *)
(* predicted boundary it FREEZES the parameters of one cycle, lowers the   *)
(* advertised window (PRE_HANDOVER), holds it low (DRAIN, OUTAGE) and ramps*)
(* it back after the boundary (RECOVERY).                                  *)
(*                                                                         *)
(* Everything here is a function of three records:                         *)
(*   sys : the sysctls of the network namespace (ipv4.h)                   *)
(*   st  : struct tcp_leo_dynamic_state of the socket (tcp_redhat.h)       *)
(*   in  : what one call reads from the socket: the window ordinary TCP    *)
(*         would advertise, the receiver RTT estimate, rcv_mss, rcv_nxt,   *)
(*         bytes_received and the two clocks.                              *)
(* frozen_rtt_us and frozen_recv_rate_Bps are only logged and left out.    *)
(***************************************************************************)
EXTENDS Integers

CONSTANTS
    U32Range,       \* 2^32 in the kernel: u32 arithmetic is modulo this
    U64Range,       \* 2^64 in the kernel: u64 subtraction wraps at this
    UsecPerMsec,    \* LEO_USEC_PER_MSEC
    UsecPerSec,     \* LEO_USEC_PER_SEC
    BytesPerMbps,   \* 10^6 / 8, bytes per second in one Mbit/s
    AdvMss,         \* tp->advmss, 0 when not known
    DefaultMss,     \* TCP_MSS_DEFAULT
    ScaleUnit       \* 1 << tp->rx_opt.rcv_wscale

ASSUME WidthAssumption == U32Range \in Nat \ {0} /\ U64Range \in Nat \ {0}
ASSUME UnitAssumption  == UsecPerMsec \in Nat \ {0} /\ UsecPerSec \in Nat \ {0}
                          /\ BytesPerMbps \in Nat \ {0}
ASSUME MssAssumption   == AdvMss \in Nat /\ DefaultMss \in Nat \ {0}
                          /\ ScaleUnit \in Nat \ {0}

NORMAL   == "NORMAL"
PRE      == "PRE_HANDOVER"
DRAIN    == "DRAIN"
OUTAGE   == "OUTAGE"
RECOVERY == "RECOVERY"

Phases     == {NORMAL, PRE, DRAIN, OUTAGE, RECOVERY}
Controlled == {PRE, DRAIN, OUTAGE}      \* the phases that shrink the window

-----------------------------------------------------------------------------
(* C integer arithmetic.                                                   *)

MinOf(a, b) == IF a <= b THEN a ELSE b
MaxOf(a, b) == IF a >= b THEN a ELSE b
Clamp(x, lo, hi) == MinOf(MaxOf(x, lo), hi)

\* clamp_t after the code's swap() of an inverted [min, max] pair of sysctls
ClampSwapped(x, a, b) == Clamp(x, MinOf(a, b), MaxOf(a, b))

U32(x) == x % U32Range
U32Sub(a, b) == IF a >= b THEN a - b ELSE a - b + U32Range
U32Add(a, b) == IF a + b >= U32Range THEN a + b - U32Range ELSE a + b
U64Sub(a, b) == IF a >= b THEN a - b ELSE a - b + U64Range

AlignUp(x) == ((x + ScaleUnit - 1) \div ScaleUnit) * ScaleUnit
Us(ms) == ms * UsecPerMsec

-----------------------------------------------------------------------------
(* Measurements.                                                           *)

Pow2 == <<2, 4, 8, 16, 32, 64, 128, 256>>

\* Slip: the operands of the decay are swapped
EwmaSwapped(old, sample, shift) ==
    LET d == Pow2[Clamp(shift, 1, 8)]
    IN  IF old = 0 THEN sample ELSE (old \div d) - old + (sample \div d)

\* leo_ewma_u32 / leo_ewma_u64: the first sample is taken as it is
Ewma(old, sample, shift) ==
    LET d == Pow2[Clamp(shift, 1, 8)]
    IN  IF old = 0 THEN sample ELSE old - (old \div d) + (sample \div d)

\* Slip: the floor is not aligned to the scaling unit
MinRwndUnaligned(sys, in) == U32(MaxOf(1, sys.rwnd_min_segs) * in.rcv_mss)

MinRwnd(sys, in) ==
    LET mss == IF in.rcv_mss # 0 THEN in.rcv_mss
               ELSE IF AdvMss # 0 THEN AdvMss ELSE DefaultMss
    IN  U32(AlignUp(MaxOf(1, sys.rwnd_min_segs) * mss))

\* in.rcv_rtt is rcv_rtt_est.rtt_us, which is kept scaled by 8
ReceiverRtt(sys, in) ==
    LET rtt == in.rcv_rtt \div 8
    IN  IF rtt # 0 THEN rtt ELSE U32(Us(MaxOf(1, sys.fallback_rtt_ms)))

FallbackRate(sys) == MaxOf(1, sys.fallback_rate_mbps) * BytesPerMbps

\* leo_update_measurements on a socket seen for the first time: the whole
\* state is cleared before the first measurement
FirstMeasurement(sys, in) ==
    [last_sample_us |-> in.mono, last_bytes_received |-> in.bytes,
     recv_rate_Bps_ewma |-> FallbackRate(sys),
     rtt_us |-> ReceiverRtt(sys, in), rtt_baseline_us |-> ReceiverRtt(sys, in),
     normal_rwnd_ewma |-> in.normal,
     frozen_period_id |-> 0, frozen_rtt_half_us |-> 0,
     frozen_start_rwnd |-> 0, frozen_min_rwnd |-> 0, frozen_pre_us |-> 0,
     frozen_outage_us |-> 0, frozen_drain_us |-> 0, frozen_recovery_us |-> 0,
     frozen_prediction_guard_us |-> 0, frozen_pre_start_wnd |-> 0,
     frozen_pre_start_rcv_nxt |-> 0, pre_started |-> FALSE,
     recovery_started |-> FALSE, recovery_start_real_us |-> 0,
     initialized |-> TRUE, frozen |-> FALSE, current_phase |-> NORMAL]

\* leo_update_measurements on an initialized socket: the rate, the baseline
\* RTT and the window are learned in NORMAL only, the RTT always
NextMeasurement(st, sys, in, phase) ==
    LET delta_us    == in.mono - st.last_sample_us
        delta_bytes == in.bytes - st.last_bytes_received
        rate        == (delta_bytes * UsecPerSec) \div delta_us
        rtt         == ReceiverRtt(sys, in)
        sampled     == [st EXCEPT !.rtt_us = rtt,
                                  !.last_bytes_received = in.bytes,
                                  !.last_sample_us = in.mono]
        learn(old, s) == Ewma(old, s, sys.ewma_shift)
    IN  IF delta_us < Us(MaxOf(1, sys.sample_ms)) THEN st
        ELSE IF phase # NORMAL THEN sampled
        ELSE [sampled EXCEPT
                !.recv_rate_Bps_ewma = learn(st.recv_rate_Bps_ewma, rate),
                !.rtt_baseline_us    = learn(st.rtt_baseline_us, rtt),
                !.normal_rwnd_ewma   = learn(st.normal_rwnd_ewma, in.normal)]

-----------------------------------------------------------------------------
(* Durations of one cycle.                                                 *)

CalcPre(sys, start_rwnd, min_rwnd, rate) ==
    LET min_us == Us(MaxOf(1, sys.pre_min_ms))
        max_us == Us(MaxOf(1, sys.pre_max_ms))
    IN  IF start_rwnd <= min_rwnd \/ rate = 0
        THEN U32(min_us)
        ELSE U32(ClampSwapped(((start_rwnd - min_rwnd) * UsecPerSec) \div rate,
                              min_us, max_us))

PredictionGuard(sys) == U32(Us(sys.prediction_guard_ms))

CalcDrain(sys, rtt) ==
    U32(ClampSwapped(rtt \div 2, Us(sys.drain_min_ms), Us(sys.drain_max_ms)))

CalcRecovery(sys, rtt) ==
    IF sys.recovery_enable = 0 THEN 0
    ELSE U32(ClampSwapped(rtt \div 2, Us(sys.recovery_min_ms),
                          Us(sys.recovery_max_ms)))

\* The outage covers the RTT growth since the baseline plus the guards, and
\* never more than RTT/2: it starts RTT/2 before the boundary.
CalcOutage(sys, rtt, rtt_min) ==
    LET a       == Us(sys.outage_min_ms)
        b       == Us(sys.outage_max_ms)
        guard   == PredictionGuard(sys)
        growth  == IF rtt > rtt_min THEN (rtt - rtt_min) \div 2 ELSE 0
        wanted  == growth + Us(sys.outage_guard_ms)
                   + (IF sys.pred_guard_to_outage # 0 THEN guard ELSE 0)
    IN  MinOf(Clamp(wanted, MinOf(a, b), MaxOf(a, b) + guard), rtt \div 2)

-----------------------------------------------------------------------------
(* The predicted boundaries: period k ends where period k+1 begins.        *)

PeriodUs(sys) == Us(sys.rwnd_period_ms)

Shifted(sys, now) == now + PeriodUs(sys) - (Us(sys.rwnd_offset_ms) % PeriodUs(sys))

PeriodPosition(sys, now) ==
    IF PeriodUs(sys) = 0 THEN 0 ELSE Shifted(sys, now) % PeriodUs(sys)

PeriodId(sys, now) ==
    IF PeriodUs(sys) = 0 THEN 0 ELSE Shifted(sys, now) \div PeriodUs(sys)

-----------------------------------------------------------------------------
(* Freezing the parameters of a cycle.                                     *)

\* A value not measured yet (0) is replaced by what the socket offers now
OrElse(measured, fallback) == IF measured # 0 THEN measured ELSE fallback

StartRwnd(st, sys, in) ==
    MaxOf(MinOf(OrElse(st.normal_rwnd_ewma, in.normal), in.normal), MinRwnd(sys, in))
CycleRtt(st, sys, in)  == OrElse(st.rtt_us, ReceiverRtt(sys, in))
CycleRate(st, sys)     == OrElse(st.recv_rate_Bps_ewma, FallbackRate(sys))
CyclePre(st, sys, in)  ==
    CalcPre(sys, StartRwnd(st, sys, in), MinRwnd(sys, in), CycleRate(st, sys))

RequiredFreezeAhead(st, sys, in) ==
    CyclePre(st, sys, in) + CycleRtt(st, sys, in) \div 2
    + CalcDrain(sys, CycleRtt(st, sys, in))
    + Us(sys.freeze_guard_ms) + PredictionGuard(sys)

\* The parameters of the cycle that ends with the current period
FrozenCycle(st, sys, in) ==
    LET rtt == CycleRtt(st, sys, in)
    IN  [st EXCEPT !.frozen_period_id   = PeriodId(sys, in.real),
                   !.frozen_rtt_half_us = rtt \div 2,
                   !.frozen_start_rwnd  = StartRwnd(st, sys, in),
                   !.frozen_min_rwnd    = MinRwnd(sys, in),
                   !.frozen_pre_us      = CyclePre(st, sys, in),
                   !.frozen_outage_us   = CalcOutage(sys, rtt, st.rtt_baseline_us),
                   !.frozen_drain_us    = CalcDrain(sys, rtt),
                   !.frozen_recovery_us = CalcRecovery(sys, rtt),
                   !.frozen_prediction_guard_us = PredictionGuard(sys)]

\* Slip: the started ramp of the previous cycle is not reset
FreezeKeepsRamp(st, sys, in) ==
    [FrozenCycle(st, sys, in) EXCEPT !.pre_started = FALSE, !.frozen = TRUE]

FreezeParameters(st, sys, in) ==
    [FrozenCycle(st, sys, in) EXCEPT
        !.pre_started = FALSE, !.recovery_started = FALSE,
        !.recovery_start_real_us = 0, !.frozen_pre_start_wnd = 0,
        !.frozen_pre_start_rcv_nxt = 0, !.frozen = TRUE]

\* Slip: the snapshot is dropped at the boundary, ramp or no ramp
ReleaseAtBoundary(st, sys, in) == PeriodId(sys, in.real) # st.frozen_period_id

\* Slip: only a cycle without a ramp is ever released
ReleaseWithoutRamp(st, sys, in) ==
    st.frozen_recovery_us = 0 /\ PeriodId(sys, in.real) # st.frozen_period_id

\* The ramp of a started recovery has run, or there is no ramp to run and the
\* period of the snapshot is over
ReleaseDue(st, sys, in) ==
    \/ st.recovery_started
       /\ U64Sub(in.real, st.recovery_start_real_us) >= st.frozen_recovery_us
    \/ st.frozen_recovery_us = 0 /\ PeriodId(sys, in.real) # st.frozen_period_id

FreezeDue(st, sys, in) ==
    PeriodUs(sys) - PeriodPosition(sys, in.real) <= RequiredFreezeAhead(st, sys, in)

Holds(st, sys, in) == st.frozen /\ ~ReleaseDue(st, sys, in)

Freezes(st, sys, in) ==
    PeriodUs(sys) # 0 /\ ~Holds(st, sys, in) /\ FreezeDue(st, sys, in)

MaybeFreeze(st, sys, in) ==
    IF PeriodUs(sys) = 0 THEN st
    ELSE IF Freezes(st, sys, in) THEN FreezeParameters(st, sys, in)
    ELSE [st EXCEPT !.frozen = Holds(st, sys, in)]

-----------------------------------------------------------------------------
(* The phase of a call.  Schedule gives the instants of a frozen cycle,    *)
(* relative to the start of its period.                                    *)

FloorSub(a, b) == IF a > b THEN a - b ELSE 0

Schedule(st, sys) ==
    LET outage == FloorSub(PeriodUs(sys), st.frozen_rtt_half_us)
        drain  == FloorSub(outage, st.frozen_drain_us + st.frozen_prediction_guard_us)
    IN  [pre    |-> FloorSub(drain, st.frozen_pre_us),
         drain  |-> drain,
         outage |-> outage,
         end    |-> MinOf(outage + st.frozen_outage_us, PeriodUs(sys))]

\* Slip: the ramp starts as soon as the outage is over
RampAfterOutage(st, sys, pos) ==
    LET sch == Schedule(st, sys)
    IN  [phase   |-> IF pos >= sch.end THEN RECOVERY ELSE NORMAL, elapsed |-> 0]

ScheduledPhase(st, sys, pos) ==
    LET sch == Schedule(st, sys)
        at(phase, start) == [phase |-> phase, elapsed |-> pos - start]
    IN  IF sch.pre <= pos /\ pos < sch.drain THEN at(PRE, sch.pre)
        ELSE IF sch.drain <= pos /\ pos < sch.outage THEN at(DRAIN, sch.drain)
        ELSE IF sch.outage <= pos /\ pos < sch.end THEN at(OUTAGE, sch.outage)
        ELSE [phase |-> NORMAL, elapsed |-> 0]

\* After the boundary: a ramp that starts on the first call, not at the boundary
RecoveryPhase(st, now) ==
    LET elapsed == IF st.recovery_started
                   THEN U64Sub(now, st.recovery_start_real_us) ELSE 0
    IN  [phase   |-> IF ~st.recovery_started \/ elapsed < st.frozen_recovery_us
                     THEN RECOVERY ELSE NORMAL,
         elapsed |-> elapsed]

InRecovery(st, sys, now) ==
    st.frozen_recovery_us # 0 /\ PeriodId(sys, now) > st.frozen_period_id

PhaseOf(st, sys, now) ==
    IF ~st.frozen \/ PeriodUs(sys) = 0 THEN [phase |-> NORMAL, elapsed |-> 0]
    ELSE IF PeriodId(sys, now) = st.frozen_period_id
    THEN ScheduledPhase(st, sys, PeriodPosition(sys, now))
    ELSE IF InRecovery(st, sys, now) THEN RecoveryPhase(st, now)
    ELSE [phase |-> NORMAL, elapsed |-> 0]

\* leo_phase's only write: the first call after the boundary starts the ramp
StartRecovery(st, sys, now) ==
    IF st.frozen /\ PeriodUs(sys) # 0 /\ InRecovery(st, sys, now) /\ ~st.recovery_started
    THEN [st EXCEPT !.recovery_started = TRUE, !.recovery_start_real_us = now]
    ELSE st

-----------------------------------------------------------------------------
(* The window of each phase.                                               *)

\* Bytes received since the PRE snapshot, in u32 sequence space
Received(st, rcv_nxt) == U32Sub(rcv_nxt, st.frozen_pre_start_rcv_nxt)

PreTarget(st, rcv_nxt, elapsed) ==
    LET delta   == st.frozen_pre_start_wnd - st.frozen_min_rwnd
        planned == (delta * MinOf(elapsed, st.frozen_pre_us)) \div st.frozen_pre_us
    IN  IF ~st.pre_started THEN st.frozen_start_rwnd
        ELSE IF delta <= 0 THEN st.frozen_min_rwnd
        ELSE IF st.frozen_pre_us = 0 THEN st.frozen_pre_start_wnd
        ELSE st.frozen_pre_start_wnd
             - MinOf(MinOf(planned, Received(st, rcv_nxt)), delta)

\* Slip: the bytes received since the snapshot do not bound the reduction
UnboundedTarget(st, rcv_nxt, desired) == desired

SafeTarget(st, rcv_nxt, desired) ==
    LET max_reduction == MinOf(Received(st, rcv_nxt),
                               U32Sub(st.frozen_pre_start_wnd, st.frozen_min_rwnd))
    IN  MaxOf(desired, U32Sub(st.frozen_pre_start_wnd, max_reduction))

\* Slip: the ramp runs from the time left
RampBackwards(st, normal, elapsed) ==
    LET end  == MaxOf(MinOf(normal, st.frozen_start_rwnd), st.frozen_min_rwnd)
        left == st.frozen_recovery_us - MinOf(elapsed, st.frozen_recovery_us)
    IN  IF st.frozen_recovery_us = 0 THEN end
        ELSE st.frozen_min_rwnd
             + ((end - st.frozen_min_rwnd) * left) \div st.frozen_recovery_us

RecoveryTarget(st, normal, elapsed) ==
    LET end   == MaxOf(MinOf(normal, st.frozen_start_rwnd), st.frozen_min_rwnd)
        delta == end - st.frozen_min_rwnd
    IN  IF st.frozen_recovery_us = 0 \/ end <= st.frozen_min_rwnd THEN end
        ELSE st.frozen_min_rwnd
             + (delta * MinOf(elapsed, st.frozen_recovery_us)) \div st.frozen_recovery_us

Target(st, in, ph) ==
    LET wanted ==
          IF ph.phase = PRE THEN PreTarget(st, in.rcv_nxt, ph.elapsed)
          ELSE IF ph.phase \in {DRAIN, OUTAGE}
          THEN SafeTarget(st, in.rcv_nxt, st.frozen_min_rwnd)
          ELSE IF ph.phase = RECOVERY
          THEN RecoveryTarget(st, in.normal, ph.elapsed)
          ELSE in.normal
    IN  MinOf(wanted, in.normal)

-----------------------------------------------------------------------------
(* tcp_leo_dynamic_target                                                  *)

\* The reference point of a shrink is (re)taken on every entry to PRE, and
\* in DRAIN or OUTAGE when the cycle never saw PRE
TakesSnapshot(st, old_phase, phase) ==
    \/ phase = PRE /\ old_phase # PRE
    \/ phase \in Controlled /\ ~st.pre_started

TakeSnapshot(st, in, old_phase, phase) ==
    IF TakesSnapshot(st, old_phase, phase)
    THEN [st EXCEPT !.frozen_pre_start_wnd =
                        MaxOf(MinOf(in.normal, st.frozen_start_rwnd), st.frozen_min_rwnd),
                    !.frozen_pre_start_rcv_nxt = in.rcv_nxt,
                    !.pre_started = TRUE]
    ELSE st

PortMatches(ports, sport, dport) ==
    \E i \in 1..4 : ports[i] # 0 /\ ports[i] \in {sport, dport}

\* The guards of tcp_leo_dynamic_target: otherwise the call returns
\* normal_win and leaves the state alone
DynamicApplies(sys, ports, sport, dport) ==
    /\ sys.rwnd_enable # 0
    /\ sys.dynamic_enable # 0
    /\ PortMatches(ports, sport, dport)

Known(st, sys, in) == IF st.initialized THEN st ELSE FirstMeasurement(sys, in)

\* The whole of a controlled call: the new state, the window returned, and
\* whether the call took a snapshot or froze a cycle
DynamicTarget(st, sys, in) ==
    LET k    == Known(st, sys, in)
        d    == MaybeFreeze(k, sys, in)
        ph   == PhaseOf(d, sys, in.real)
        run  == StartRecovery(d, sys, in.real)
        meas == NextMeasurement(run, sys, in, ph.phase)
        snap == TakeSnapshot(meas, in, st.current_phase, ph.phase)
        new  == [snap EXCEPT !.current_phase = ph.phase]
    IN  [st |-> new, target |-> Target(new, in, ph),
         snapshot |-> TakesSnapshot(meas, st.current_phase, ph.phase),
         froze |-> Freezes(k, sys, in)]
=============================================================================
