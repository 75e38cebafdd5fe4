---------------------------- MODULE RedhatProofs ----------------------------
(***************************************************************************)
(* The receiving side.  First what the operators of LeoDynamic return, then*)
(* the controller: it keeps its state well formed, reduces the window      *)
(* safely and holds the parameters of a cycle until its ramp has been      *)
(* advertised, for all settings, all writes to them at any moment, any     *)
(* clock, any stream of data and any windows from ordinary TCP.  Then the  *)
(* window of a socket, for all buffers, scales, settings and inputs: it    *)
(* never goes negative, ordinary TCP and the fixed controller never take   *)
(* back what was offered while shrinking is not allowed, and the floor of  *)
(* the dynamic controller survives the scaling of the window field.        *)
(***************************************************************************)
EXTENDS TcpWindow, TLAPS

-----------------------------------------------------------------------------
(* What the functions of tcp_redhat.c return.                              *)

\* Integer division rounds towards zero on naturals and never increases them.
LEMMA DivNat ==
  ASSUME NEW a \in Nat, NEW b \in Nat \ {0}
  PROVE  a \div b \in Nat /\ a \div b <= a
  OBVIOUS

\* The product of naturals is a natural.
LEMMA MulNat ==
  ASSUME NEW a \in Nat, NEW b \in Nat
  PROVE  a * b \in Nat
  OBVIOUS

\* The remainder is a natural below the divisor.
LEMMA ModNat ==
  ASSUME NEW a \in Nat, NEW b \in Nat \ {0}
  PROVE  a % b \in Nat /\ a % b < b
  OBVIOUS

\* A linear share of a quantity (the planned reduction, the ramp's increase).
LEMMA ShareNat ==
  ASSUME NEW a \in Nat, NEW b \in Nat, NEW c \in Nat \ {0}
  PROVE  (a * b) \div c \in Nat
  BY MulNat, DivNat

\* The fields of the sysctl record are naturals.
LEMMA SysctlFields ==
  ASSUME NEW sys \in Sysctls
  PROVE  /\ sys.rwnd_enable \in Nat /\ sys.dynamic_enable \in Nat
         /\ sys.rwnd_period_ms \in Nat /\ sys.rwnd_offset_ms \in Nat
         /\ sys.rwnd_min_segs \in Nat /\ sys.sample_ms \in Nat
         /\ sys.freeze_guard_ms \in Nat /\ sys.pre_min_ms \in Nat
         /\ sys.pre_max_ms \in Nat /\ sys.outage_min_ms \in Nat
         /\ sys.outage_max_ms \in Nat /\ sys.outage_guard_ms \in Nat
         /\ sys.drain_min_ms \in Nat /\ sys.drain_max_ms \in Nat
         /\ sys.fallback_rtt_ms \in Nat /\ sys.fallback_rate_mbps \in Nat
         /\ sys.ewma_shift \in Nat /\ sys.prediction_guard_ms \in Nat
         /\ sys.recovery_min_ms \in Nat /\ sys.recovery_max_ms \in Nat
  BY DEF Sysctls, SysctlNames, Switches, AtLeastOne, AtLeastZero

\* A millisecond sysctl in microseconds is a natural.
LEMMA UsNat ==
  ASSUME NEW ms \in Nat
  PROVE  Us(ms) \in Nat
  BY MulNat, UnitAssumption DEF Us

\* Conversion to u32 yields a natural below 2^32.
LEMMA U32Nat ==
  ASSUME NEW x \in Nat
  PROVE  U32(x) \in Nat /\ U32(x) < U32Range
  BY ModNat, WidthAssumption DEF U32

\* Alignment to the window scale yields a natural.
LEMMA AlignNat ==
  ASSUME NEW x \in Nat
  PROVE  AlignUp(x) \in Nat
<1>1. x + ScaleUnit - 1 \in Nat
  BY MssAssumption
<1>2. (x + ScaleUnit - 1) \div ScaleUnit \in Nat
  BY <1>1, DivNat, MssAssumption
<1> QED
  BY <1>2, MulNat, MssAssumption DEF AlignUp

\* leo_ewma_u32/u64: the average of naturals is a natural, the decay never
\* exceeds the old value.
LEMMA EwmaNat ==
  ASSUME NEW old \in Nat, NEW sample \in Nat, NEW shift \in Nat
  PROVE  Ewma(old, sample, shift) \in Nat
<1> DEFINE d == Pow2[Clamp(shift, 1, 8)]
<1>1. Clamp(shift, 1, 8) \in 1..8
  BY DEF Clamp, MinOf, MaxOf
<1>2. d \in Nat \ {0}
  BY <1>1 DEF Pow2
<1> HIDE DEF d
<1>3. old \div d \in Nat /\ old \div d <= old /\ sample \div d \in Nat
  BY <1>2, DivNat
<1>4. Ewma(old, sample, shift)
        = IF old = 0 THEN sample ELSE old - (old \div d) + (sample \div d)
  BY DEF Ewma, d
<1> QED
  BY <1>3, <1>4

-----------------------------------------------------------------------------
(* Measurements and durations.                                             *)

Inputs == [normal : Nat, rcv_rtt : Nat, rcv_mss : Nat,
           rcv_nxt : 0..(U32Range - 1), bytes : Nat,
           real : 0..(U64Range - 1), mono : Nat]

\* leo_min_rwnd, leo_read_receiver_rtt_us, leo_fallback_rate_Bps return naturals.
LEMMA ReadingsNat ==
  ASSUME NEW sys \in Sysctls, NEW in \in Inputs
  PROVE  /\ MinRwnd(sys, in) \in Nat
         /\ ReceiverRtt(sys, in) \in Nat
         /\ FallbackRate(sys) \in Nat
<1> DEFINE mss == IF in.rcv_mss # 0 THEN in.rcv_mss
                  ELSE IF AdvMss # 0 THEN AdvMss ELSE DefaultMss
<1>1. mss \in Nat /\ in.rcv_rtt \in Nat
  BY MssAssumption DEF Inputs
<1>2. /\ MaxOf(1, sys.rwnd_min_segs) \in Nat
      /\ MaxOf(1, sys.fallback_rtt_ms) \in Nat
      /\ MaxOf(1, sys.fallback_rate_mbps) \in Nat
  BY SysctlFields DEF MaxOf
<1>3. MinRwnd(sys, in) = U32(AlignUp(MaxOf(1, sys.rwnd_min_segs) * mss))
  BY DEF MinRwnd
<1> HIDE DEF mss
<1>4. MaxOf(1, sys.rwnd_min_segs) * mss \in Nat
  BY <1>1, <1>2, MulNat
<1>5. MinRwnd(sys, in) \in Nat
  BY <1>3, <1>4, AlignNat, U32Nat
<1>6. in.rcv_rtt \div 8 \in Nat
  BY <1>1, DivNat
<1>7. U32(Us(MaxOf(1, sys.fallback_rtt_ms))) \in Nat
  BY <1>2, UsNat, U32Nat
<1>8. ReceiverRtt(sys, in) \in Nat
  BY <1>6, <1>7 DEF ReceiverRtt
<1>9. FallbackRate(sys) \in Nat
  BY <1>2, MulNat, UnitAssumption DEF FallbackRate
<1> QED
  BY <1>5, <1>8, <1>9

\* Clamping naturals yields a natural.
LEMMA ClampNat ==
  ASSUME NEW x \in Nat, NEW a \in Nat, NEW b \in Nat
  PROVE  Clamp(x, a, b) \in Nat /\ ClampSwapped(x, a, b) \in Nat
  BY DEF Clamp, ClampSwapped, MinOf, MaxOf

\* leo_calc_pre_us returns a natural, whatever the order of its bounds.
LEMMA CalcPreNat ==
  ASSUME NEW sys \in Sysctls, NEW start \in Nat, NEW min \in Nat, NEW rate \in Nat
  PROVE  CalcPre(sys, start, min, rate) \in Nat
<1>1. Us(MaxOf(1, sys.pre_min_ms)) \in Nat /\ Us(MaxOf(1, sys.pre_max_ms)) \in Nat
  <2>1. MaxOf(1, sys.pre_min_ms) \in Nat /\ MaxOf(1, sys.pre_max_ms) \in Nat
    BY SysctlFields DEF MaxOf
  <2> QED  BY <2>1, UsNat
<1>2. CASE start <= min \/ rate = 0
  BY <1>1, <1>2, U32Nat DEF CalcPre
<1>3. CASE ~(start <= min \/ rate = 0)
  <2>1. start - min \in Nat /\ rate \in Nat \ {0}
    BY <1>3
  <2>2. ((start - min) * UsecPerSec) \div rate \in Nat
    BY <2>1, ShareNat, UnitAssumption
  <2>3. ClampSwapped(((start - min) * UsecPerSec) \div rate,
                     Us(MaxOf(1, sys.pre_min_ms)), Us(MaxOf(1, sys.pre_max_ms))) \in Nat
    BY <1>1, <2>2, ClampNat
  <2> QED  BY <1>3, <2>3, U32Nat DEF CalcPre
<1> QED  BY <1>2, <1>3

\* The other durations of a cycle are naturals, and the outage never lasts
\* longer than half an RTT (leo_calc_outage_us).
LEMMA DurationsNat ==
  ASSUME NEW sys \in Sysctls, NEW rtt \in Nat, NEW base \in Nat
  PROVE  /\ PredictionGuard(sys) \in Nat
         /\ CalcDrain(sys, rtt) \in Nat
         /\ CalcRecovery(sys, rtt) \in Nat
         /\ CalcOutage(sys, rtt, base) \in Nat
         /\ CalcOutage(sys, rtt, base) <= rtt \div 2
<1>1. /\ Us(sys.prediction_guard_ms) \in Nat /\ Us(sys.outage_guard_ms) \in Nat
      /\ Us(sys.drain_min_ms) \in Nat /\ Us(sys.drain_max_ms) \in Nat
      /\ Us(sys.recovery_min_ms) \in Nat /\ Us(sys.recovery_max_ms) \in Nat
      /\ Us(sys.outage_min_ms) \in Nat /\ Us(sys.outage_max_ms) \in Nat
  BY SysctlFields, UsNat
<1>2. rtt \div 2 \in Nat
  BY DivNat
<1>3. PredictionGuard(sys) \in Nat
  BY <1>1, U32Nat DEF PredictionGuard
<1>4. CalcDrain(sys, rtt) \in Nat
  BY <1>1, <1>2, ClampNat, U32Nat DEF CalcDrain
<1>5. CalcRecovery(sys, rtt) \in Nat
  BY <1>1, <1>2, ClampNat, U32Nat DEF CalcRecovery
<1> DEFINE a == Us(sys.outage_min_ms)
           b == Us(sys.outage_max_ms)
           g == PredictionGuard(sys)
           growth == IF rtt > base THEN (rtt - base) \div 2 ELSE 0
           wanted == growth + Us(sys.outage_guard_ms)
                     + (IF sys.pred_guard_to_outage # 0 THEN g ELSE 0)
<1>6. growth \in Nat
  BY DivNat
<1>7. wanted \in Nat
  <2> HIDE DEF growth
  <2> QED  BY <1>1, <1>3, <1>6
<1>8. CalcOutage(sys, rtt, base)
        = MinOf(Clamp(wanted, MinOf(a, b), MaxOf(a, b) + g), rtt \div 2)
  BY DEF CalcOutage
<1> HIDE DEF wanted
<1>9. Clamp(wanted, MinOf(a, b), MaxOf(a, b) + g) \in Nat
  BY <1>1, <1>3, <1>7 DEF Clamp, MinOf, MaxOf
<1>10. /\ CalcOutage(sys, rtt, base) \in Nat
       /\ CalcOutage(sys, rtt, base) <= rtt \div 2
  BY <1>2, <1>8, <1>9 DEF MinOf
<1> QED
  BY <1>3, <1>4, <1>5, <1>10

\* leo_period_id and leo_period_position_us return naturals for any offset.
LEMMA PeriodNat ==
  ASSUME NEW sys \in Sysctls, NEW now \in Nat
  PROVE  /\ PeriodUs(sys) \in Nat
         /\ PeriodId(sys, now) \in Nat
         /\ PeriodPosition(sys, now) \in Nat
         /\ PeriodUs(sys) # 0 => PeriodPosition(sys, now) < PeriodUs(sys)
<1>1. PeriodUs(sys) \in Nat /\ Us(sys.rwnd_offset_ms) \in Nat
  BY SysctlFields, UsNat DEF PeriodUs
<1>2. CASE PeriodUs(sys) = 0
  BY <1>1, <1>2 DEF PeriodId, PeriodPosition
<1>3. CASE PeriodUs(sys) # 0
  <2>1. /\ Us(sys.rwnd_offset_ms) % PeriodUs(sys) \in Nat
        /\ Us(sys.rwnd_offset_ms) % PeriodUs(sys) < PeriodUs(sys)
    BY <1>1, <1>3, ModNat
  <2>2. Shifted(sys, now) \in Nat
    BY <1>1, <2>1 DEF Shifted
  <2> QED
    BY <1>1, <1>3, <2>2, DivNat, ModNat DEF PeriodId, PeriodPosition
<1> QED  BY <1>2, <1>3

-----------------------------------------------------------------------------
(* The state transformers.  ShrinkRef is what a reduction is measured from.*)

ShrinkRef(s) == <<s.pre_started, s.frozen_min_rwnd, s.frozen_pre_start_wnd,
                  s.frozen_pre_start_rcv_nxt>>

\* Two states that agree on the frozen cycle.
SameCycle(s, t) == s.frozen = t.frozen /\ FrozenParams(s) = FrozenParams(t)

\* The measurements of a state do not lie in the future.
MeasuredBefore(s, in) ==
    s.last_sample_us <= in.mono /\ s.last_bytes_received <= in.bytes

\* The first call on a socket: measured, nothing frozen, no reduction begun.
LEMMA KnownState ==
  ASSUME NEW s \in LeoStates, NEW sys \in Sysctls, NEW in \in Inputs,
         MeasuredBefore(s, in)
  PROVE  LET k == Known(s, sys, in)
         IN  /\ k \in LeoStates /\ MeasuredBefore(k, in) /\ k.initialized
             /\ s.initialized => k = s
             /\ ~s.initialized => ~k.pre_started /\ ~k.frozen /\ ~k.recovery_started
<1>1. CASE s.initialized
  BY <1>1 DEF Known
<1>2. CASE ~s.initialized
  <2>1. Known(s, sys, in) = FirstMeasurement(sys, in)
    BY <1>2 DEF Known
  <2>2. in.mono \in Nat /\ in.bytes \in Nat /\ in.normal \in Nat
    BY DEF Inputs
  <2>3. FirstMeasurement(sys, in) \in LeoStates
    BY <2>2, ReadingsNat, WidthAssumption
    DEF FirstMeasurement, LeoStates, Phases, NORMAL
  <2>4. /\ MeasuredBefore(FirstMeasurement(sys, in), in)
        /\ FirstMeasurement(sys, in).initialized
        /\ ~FirstMeasurement(sys, in).pre_started
        /\ ~FirstMeasurement(sys, in).frozen
        /\ ~FirstMeasurement(sys, in).recovery_started
    BY <2>2 DEF FirstMeasurement, MeasuredBefore
  <2> QED  BY <1>2, <2>1, <2>3, <2>4
<1> QED  BY <1>1, <1>2 DEF LeoStates

\* The parameters of a frozen cycle are naturals; they name the current period
\* and the floor, and nothing of the previous cycle is left.
LEMMA FreezeState ==
  ASSUME NEW s \in LeoStates, NEW sys \in Sysctls, NEW in \in Inputs
  PROVE  /\ FreezeParameters(s, sys, in) \in LeoStates
         /\ FreezeParameters(s, sys, in).frozen
         /\ ~FreezeParameters(s, sys, in).pre_started
         /\ ~FreezeParameters(s, sys, in).recovery_started
         /\ FreezeParameters(s, sys, in).initialized = s.initialized
         /\ FreezeParameters(s, sys, in).frozen_period_id = PeriodId(sys, in.real)
         /\ FreezeParameters(s, sys, in).frozen_min_rwnd = MinRwnd(sys, in)
         /\ FreezeParameters(s, sys, in).last_sample_us = s.last_sample_us
         /\ FreezeParameters(s, sys, in).last_bytes_received = s.last_bytes_received
<1> DEFINE rtt == CycleRtt(s, sys, in)
<1>1. rtt \in Nat /\ CycleRate(s, sys) \in Nat
  BY ReadingsNat DEF CycleRtt, CycleRate, OrElse, LeoStates
<1>2. StartRwnd(s, sys, in) \in Nat
  <2>1. in.normal \in Nat /\ s.normal_rwnd_ewma \in Nat
    BY DEF Inputs, LeoStates
  <2> QED  BY <2>1, ReadingsNat DEF StartRwnd, OrElse, MinOf, MaxOf
<1>3. CyclePre(s, sys, in) \in Nat
  BY <1>1, <1>2, ReadingsNat, CalcPreNat DEF CyclePre
<1>4. in.real \in Nat /\ s.rtt_baseline_us \in Nat
  BY WidthAssumption DEF Inputs, LeoStates
<1> HIDE DEF rtt
<1>5. /\ CalcOutage(sys, rtt, s.rtt_baseline_us) \in Nat /\ CalcDrain(sys, rtt) \in Nat
      /\ CalcRecovery(sys, rtt) \in Nat /\ PredictionGuard(sys) \in Nat
  BY <1>1, <1>4, DurationsNat
<1>7. rtt \div 2 \in Nat /\ PeriodId(sys, in.real) \in Nat /\ MinRwnd(sys, in) \in Nat
  <2>1. rtt \div 2 \in Nat
    BY <1>1, DivNat
  <2>2. PeriodId(sys, in.real) \in Nat
    BY <1>4, PeriodNat
  <2> QED  BY <2>1, <2>2, ReadingsNat
<1>6. 0 \in 0..(U32Range - 1) /\ 0 \in 0..(U64Range - 1)
  BY WidthAssumption
<1> DEFINE c == FrozenCycle(s, sys, in)
<1>8. /\ c \in LeoStates /\ c.initialized = s.initialized
      /\ c.last_sample_us = s.last_sample_us
      /\ c.last_bytes_received = s.last_bytes_received
      /\ c.frozen_period_id = PeriodId(sys, in.real) /\ c.frozen_min_rwnd = MinRwnd(sys, in)
  BY <1>2, <1>3, <1>5, <1>7 DEF FrozenCycle, LeoStates, rtt
<1> HIDE DEF c
<1> DEFINE f == [c EXCEPT !.pre_started = FALSE, !.recovery_started = FALSE,
                          !.recovery_start_real_us = 0, !.frozen_pre_start_wnd = 0,
                          !.frozen_pre_start_rcv_nxt = 0, !.frozen = TRUE]
<1>9. /\ f \in LeoStates /\ f.frozen /\ ~f.pre_started /\ ~f.recovery_started
      /\ f.initialized = c.initialized /\ f.last_sample_us = c.last_sample_us
      /\ f.last_bytes_received = c.last_bytes_received
      /\ f.frozen_period_id = c.frozen_period_id /\ f.frozen_min_rwnd = c.frozen_min_rwnd
  BY <1>6, <1>8 DEF LeoStates
<1>10. FreezeParameters(s, sys, in) = f
  BY DEF FreezeParameters, c
<1> HIDE DEF f
<1> QED
  BY <1>8, <1>9, <1>10

\* leo_maybe_freeze keeps the types; a reduction in progress keeps its
\* reference point unless a new cycle is frozen.
LEMMA MaybeFreezeState ==
  ASSUME NEW s \in LeoStates, NEW sys \in Sysctls, NEW in \in Inputs,
         MeasuredBefore(s, in)
  PROVE  LET d == MaybeFreeze(s, sys, in)
         IN  /\ d \in LeoStates /\ MeasuredBefore(d, in)
             /\ d.initialized = s.initialized
             /\ ~d.pre_started \/ ShrinkRef(d) = ShrinkRef(s)
             /\ d.recovery_started => s.recovery_started
             /\ s.frozen /\ s.frozen_recovery_us # 0 /\ ~s.recovery_started
                  => SameCycle(d, s)
<1>1. CASE PeriodUs(sys) = 0
  BY <1>1 DEF MaybeFreeze, SameCycle
<1>2. CASE PeriodUs(sys) # 0 /\ Freezes(s, sys, in)
  <2>1. ~(s.frozen /\ s.frozen_recovery_us # 0 /\ ~s.recovery_started)
    BY <1>2 DEF Freezes, Holds, ReleaseDue
  <2> QED  BY <1>2, <2>1, FreezeState DEF MaybeFreeze, MeasuredBefore
<1>3. CASE PeriodUs(sys) # 0 /\ ~Freezes(s, sys, in)
  <2>1. MaybeFreeze(s, sys, in) = [s EXCEPT !.frozen = Holds(s, sys, in)]
    BY <1>3 DEF MaybeFreeze
  <2>2. Holds(s, sys, in) \in BOOLEAN
    BY DEF Holds, LeoStates
  <2>3. /\ [s EXCEPT !.frozen = Holds(s, sys, in)] \in LeoStates
        /\ MeasuredBefore([s EXCEPT !.frozen = Holds(s, sys, in)], in)
        /\ [s EXCEPT !.frozen = Holds(s, sys, in)].initialized = s.initialized
        /\ ShrinkRef([s EXCEPT !.frozen = Holds(s, sys, in)]) = ShrinkRef(s)
        /\ [s EXCEPT !.frozen = Holds(s, sys, in)].recovery_started = s.recovery_started
    BY <2>2 DEF LeoStates, MeasuredBefore, ShrinkRef
  <2>4. s.frozen /\ s.frozen_recovery_us # 0 /\ ~s.recovery_started
          => SameCycle([s EXCEPT !.frozen = Holds(s, sys, in)], s)
    BY DEF Holds, ReleaseDue, SameCycle, FrozenParams, LeoStates
  <2> QED  BY <2>1, <2>3, <2>4
<1> QED  BY <1>1, <1>2, <1>3

\* leo_phase: one of the phases, with an elapsed time that is not negative.
LEMMA PhaseType ==
  ASSUME NEW s \in LeoStates, NEW sys \in Sysctls, NEW now \in 0..(U64Range - 1)
  PROVE  /\ PhaseOf(s, sys, now).phase \in Phases
         /\ PhaseOf(s, sys, now).elapsed \in Nat
<1>1. now \in Nat
  BY WidthAssumption
<1>2. PeriodUs(sys) \in Nat /\ PeriodPosition(sys, now) \in Nat
  BY <1>1, PeriodNat
<1> DEFINE sch == Schedule(s, sys)
<1>3. sch.pre \in Nat /\ sch.drain \in Nat /\ sch.outage \in Nat /\ sch.end \in Nat
  BY <1>2 DEF Schedule, FloorSub, MinOf, LeoStates
<1>4. /\ ScheduledPhase(s, sys, PeriodPosition(sys, now)).phase \in Phases
      /\ ScheduledPhase(s, sys, PeriodPosition(sys, now)).elapsed \in Nat
  <2> HIDE DEF sch
  <2>1. \A pos \in Nat :
          LET p == IF sch.pre <= pos /\ pos < sch.drain
                   THEN [phase |-> PRE, elapsed |-> pos - sch.pre]
                   ELSE IF sch.drain <= pos /\ pos < sch.outage
                   THEN [phase |-> DRAIN, elapsed |-> pos - sch.drain]
                   ELSE IF sch.outage <= pos /\ pos < sch.end
                   THEN [phase |-> OUTAGE, elapsed |-> pos - sch.outage]
                   ELSE [phase |-> NORMAL, elapsed |-> 0]
          IN  p.phase \in Phases /\ p.elapsed \in Nat
    BY <1>3 DEF Phases, PRE, DRAIN, OUTAGE, NORMAL
  <2> QED  BY <1>2, <2>1 DEF ScheduledPhase, sch
<1>5. /\ RecoveryPhase(s, now).phase \in Phases
      /\ RecoveryPhase(s, now).elapsed \in Nat
  BY <1>1, WidthAssumption DEF RecoveryPhase, U64Sub, LeoStates, Phases, RECOVERY, NORMAL
<1> QED
  BY <1>4, <1>5 DEF PhaseOf, Phases, NORMAL

\* leo_phase's write of the ramp's start leaves everything else alone.
LEMMA StartRecoveryState ==
  ASSUME NEW s \in LeoStates, NEW sys \in Sysctls, NEW in \in Inputs,
         MeasuredBefore(s, in)
  PROVE  LET r == StartRecovery(s, sys, in.real)
         IN  /\ r \in LeoStates /\ MeasuredBefore(r, in)
             /\ r.initialized = s.initialized
             /\ ShrinkRef(r) = ShrinkRef(s) /\ SameCycle(r, s)
             /\ r.recovery_started /\ ~s.recovery_started
                  => PhaseOf(s, sys, in.real).phase = RECOVERY
<1> DEFINE r == [s EXCEPT !.recovery_started = TRUE, !.recovery_start_real_us = in.real]
<1>1. in.real \in 0..(U64Range - 1)
  BY DEF Inputs
<1>2. /\ r \in LeoStates /\ MeasuredBefore(r, in) /\ r.initialized = s.initialized
      /\ ShrinkRef(r) = ShrinkRef(s) /\ SameCycle(r, s)
  BY <1>1 DEF LeoStates, MeasuredBefore, ShrinkRef, SameCycle, FrozenParams
<1> HIDE DEF r
<1>3. StartRecovery(s, sys, in.real) = r \/ StartRecovery(s, sys, in.real) = s
  BY DEF StartRecovery, r
<1>4. ASSUME StartRecovery(s, sys, in.real).recovery_started, ~s.recovery_started
      PROVE  PhaseOf(s, sys, in.real).phase = RECOVERY
  <2>1. /\ s.frozen /\ PeriodUs(sys) # 0
        /\ InRecovery(s, sys, in.real) /\ ~s.recovery_started
    BY <1>4 DEF StartRecovery
  <2>2. PeriodId(sys, in.real) \in Nat /\ s.frozen_period_id \in Nat
    BY <1>1, PeriodNat DEF LeoStates
  <2>3. PeriodId(sys, in.real) # s.frozen_period_id
    BY <2>1, <2>2 DEF InRecovery
  <2> QED  BY <2>1, <2>3 DEF PhaseOf, RecoveryPhase
<1>5. SameCycle(s, s)
  BY DEF SameCycle
<1> QED  BY <1>2, <1>3, <1>4, <1>5

\* leo_update_measurements changes measurements only.
LEMMA NextMeasurementState ==
  ASSUME NEW s \in LeoStates, NEW sys \in Sysctls, NEW in \in Inputs, NEW phase,
         MeasuredBefore(s, in)
  PROVE  LET m == NextMeasurement(s, sys, in, phase)
         IN  /\ m \in LeoStates /\ MeasuredBefore(m, in)
             /\ m.initialized = s.initialized
             /\ ShrinkRef(m) = ShrinkRef(s) /\ SameCycle(m, s)
             /\ m.recovery_started = s.recovery_started
             /\ m.recovery_start_real_us = s.recovery_start_real_us
<1> DEFINE delta_us == in.mono - s.last_sample_us
           rate     == ((in.bytes - s.last_bytes_received) * UsecPerSec) \div delta_us
           rtt      == ReceiverRtt(sys, in)
           sampled  == [s EXCEPT !.rtt_us = rtt,
                                 !.last_bytes_received = in.bytes,
                                 !.last_sample_us = in.mono]
           w == Ewma(s.recv_rate_Bps_ewma, rate, sys.ewma_shift)
           x == Ewma(s.rtt_baseline_us, rtt, sys.ewma_shift)
           y == Ewma(s.normal_rwnd_ewma, in.normal, sys.ewma_shift)
           learned  == [sampled EXCEPT !.recv_rate_Bps_ewma = w,
                                       !.rtt_baseline_us = x,
                                       !.normal_rwnd_ewma = y]
<1>1. /\ in.mono \in Nat /\ in.bytes \in Nat /\ in.normal \in Nat
      /\ s.last_sample_us \in Nat /\ s.last_bytes_received \in Nat
      /\ s.recv_rate_Bps_ewma \in Nat /\ s.rtt_baseline_us \in Nat
      /\ s.normal_rwnd_ewma \in Nat /\ sys.ewma_shift \in Nat /\ sys.sample_ms \in Nat
  BY SysctlFields DEF Inputs, LeoStates
<1>2. rtt \in Nat
  BY ReadingsNat
<1>3. CASE delta_us < Us(MaxOf(1, sys.sample_ms))
  <2>1. NextMeasurement(s, sys, in, phase) = s
    BY <1>3 DEF NextMeasurement
  <2> QED  BY <2>1 DEF SameCycle
<1>4. CASE ~(delta_us < Us(MaxOf(1, sys.sample_ms)))
  <2>1. Us(MaxOf(1, sys.sample_ms)) \in Nat \ {0}
    <3>1. MaxOf(1, sys.sample_ms) \in Nat \ {0}
      BY <1>1 DEF MaxOf
    <3>2. \A p, q \in Nat \ {0} : p * q \in Nat \ {0}
      OBVIOUS
    <3> QED  BY <3>1, <3>2, UnitAssumption DEF Us
  <2>2. delta_us \in Nat \ {0}
    BY <1>1, <1>4, <2>1
  <2>3. rate \in Nat
    <3>1. in.bytes - s.last_bytes_received \in Nat
      BY <1>1 DEF MeasuredBefore
    <3> HIDE DEF delta_us
    <3> QED  BY <2>2, <3>1, ShareNat, UnitAssumption
  <2>4. w \in Nat /\ x \in Nat /\ y \in Nat
    <3> HIDE DEF rate, rtt
    <3> QED  BY <1>1, <1>2, <2>3, EwmaNat
  <2>5. NextMeasurement(s, sys, in, phase)
          = IF phase # NORMAL THEN sampled ELSE learned
    BY <1>4 DEF NextMeasurement
  <2> HIDE DEF w, x, y, rtt, rate
  <2>6. /\ sampled \in LeoStates
        /\ sampled.last_sample_us = in.mono /\ sampled.last_bytes_received = in.bytes
        /\ sampled.initialized = s.initialized
        /\ ShrinkRef(sampled) = ShrinkRef(s) /\ SameCycle(sampled, s)
        /\ sampled.recovery_started = s.recovery_started
        /\ sampled.recovery_start_real_us = s.recovery_start_real_us
    BY <1>1, <1>2 DEF LeoStates, ShrinkRef, SameCycle, FrozenParams
  <2> HIDE DEF sampled
  <2>7. /\ learned \in LeoStates
        /\ learned.last_sample_us = in.mono /\ learned.last_bytes_received = in.bytes
        /\ learned.initialized = s.initialized
        /\ ShrinkRef(learned) = ShrinkRef(s) /\ SameCycle(learned, s)
        /\ learned.recovery_started = s.recovery_started
        /\ learned.recovery_start_real_us = s.recovery_start_real_us
    BY <2>4, <2>6 DEF LeoStates, ShrinkRef, SameCycle, FrozenParams
  <2> HIDE DEF learned
  <2>8. MeasuredBefore(sampled, in) /\ MeasuredBefore(learned, in)
    BY <1>1, <2>6, <2>7 DEF MeasuredBefore
  <2> QED  BY <2>5, <2>6, <2>7, <2>8
<1> QED  BY <1>3, <1>4

\* The snapshot taken on entry to PRE: the reduction starts at or above the
\* floor, and every phase that reduces the window has one.
LEMMA TakeSnapshotState ==
  ASSUME NEW s \in LeoStates, NEW in \in Inputs, NEW old, NEW phase \in Phases,
         MeasuredBefore(s, in)
  PROVE  LET t == TakeSnapshot(s, in, old, phase)
         IN  /\ t \in LeoStates /\ MeasuredBefore(t, in)
             /\ t.initialized = s.initialized
             /\ phase \in Controlled => t.pre_started
             /\ SameCycle(t, s) /\ t.recovery_started = s.recovery_started
             /\ t.recovery_start_real_us = s.recovery_start_real_us
             /\ TakesSnapshot(s, old, phase)
                  => /\ t.pre_started /\ t.frozen_pre_start_rcv_nxt = in.rcv_nxt
                     /\ t.frozen_min_rwnd <= t.frozen_pre_start_wnd
             /\ ~TakesSnapshot(s, old, phase) => t = s
<1>1. /\ in.normal \in Nat /\ in.rcv_nxt \in 0..(U32Range - 1)
      /\ s.frozen_start_rwnd \in Nat /\ s.frozen_min_rwnd \in Nat
  BY DEF Inputs, LeoStates
<1> DEFINE v == MaxOf(MinOf(in.normal, s.frozen_start_rwnd), s.frozen_min_rwnd)
           t == [s EXCEPT !.frozen_pre_start_wnd = v,
                          !.frozen_pre_start_rcv_nxt = in.rcv_nxt,
                          !.pre_started = TRUE]
<1>2. v \in Nat /\ s.frozen_min_rwnd <= v
  BY <1>1 DEF MinOf, MaxOf
<1> HIDE DEF v
<1>3. /\ t \in LeoStates /\ MeasuredBefore(t, in) /\ t.initialized = s.initialized
      /\ t.pre_started /\ SameCycle(t, s) /\ t.recovery_started = s.recovery_started
      /\ t.recovery_start_real_us = s.recovery_start_real_us
      /\ t.frozen_pre_start_rcv_nxt = in.rcv_nxt
      /\ t.frozen_min_rwnd <= t.frozen_pre_start_wnd
  BY <1>1, <1>2 DEF LeoStates, MeasuredBefore, SameCycle, FrozenParams
<1> HIDE DEF t
<1>4. TakeSnapshot(s, in, old, phase) = IF TakesSnapshot(s, old, phase) THEN t ELSE s
  BY DEF TakeSnapshot, t, v
<1>5. ~TakesSnapshot(s, old, phase) /\ phase \in Controlled => s.pre_started
  BY DEF TakesSnapshot
<1>6. SameCycle(s, s)
  BY DEF SameCycle
<1> QED  BY <1>3, <1>4, <1>5, <1>6

-----------------------------------------------------------------------------
(* The window a call returns.                                              *)

\* A reduction in progress starts at or above its floor.
AboveFloor(s) == s.pre_started => s.frozen_min_rwnd <= s.frozen_pre_start_wnd

\* leo_pre_target: never above the snapshot's window, never below the floor,
\* and reduced by no more than the bytes received since the snapshot.
LEMMA PreTargetBounds ==
  ASSUME NEW s \in LeoStates, NEW rn \in 0..(U32Range - 1), NEW e \in Nat,
         s.pre_started, AboveFloor(s)
  PROVE  /\ PreTarget(s, rn, e) \in Nat
         /\ s.frozen_min_rwnd <= PreTarget(s, rn, e)
         /\ PreTarget(s, rn, e) <= s.frozen_pre_start_wnd
         /\ PreTarget(s, rn, e) + Received(s, rn) >= s.frozen_pre_start_wnd
<1> DEFINE delta == s.frozen_pre_start_wnd - s.frozen_min_rwnd
           planned == (delta * MinOf(e, s.frozen_pre_us)) \div s.frozen_pre_us
<1>1. /\ s.frozen_pre_start_wnd \in Nat /\ s.frozen_min_rwnd \in Nat
      /\ s.frozen_pre_us \in Nat /\ s.frozen_min_rwnd <= s.frozen_pre_start_wnd
  BY DEF LeoStates, AboveFloor
<1>2. Received(s, rn) \in Nat
  BY WidthAssumption DEF Received, U32Sub, LeoStates
<1>3. delta \in Nat
  BY <1>1
<1>4. s.frozen_pre_us # 0 => planned \in Nat
  <2> HIDE DEF delta
  <2>1. MinOf(e, s.frozen_pre_us) \in Nat
    BY <1>1 DEF MinOf
  <2> QED  BY <1>1, <1>3, <2>1, ShareNat
<1>5. PreTarget(s, rn, e) = IF delta <= 0 THEN s.frozen_min_rwnd
        ELSE IF s.frozen_pre_us = 0 THEN s.frozen_pre_start_wnd
        ELSE s.frozen_pre_start_wnd - MinOf(MinOf(planned, Received(s, rn)), delta)
  BY DEF PreTarget
<1> HIDE DEF planned
<1> QED  BY <1>1, <1>2, <1>3, <1>4, <1>5 DEF MinOf

\* leo_safe_target: the same bounds; no u32 subtraction wraps.
LEMMA SafeTargetBounds ==
  ASSUME NEW s \in LeoStates, NEW rn \in 0..(U32Range - 1),
         s.pre_started, AboveFloor(s)
  PROVE  LET t == SafeTarget(s, rn, s.frozen_min_rwnd)
         IN  /\ t \in Nat
             /\ s.frozen_min_rwnd <= t
             /\ t <= s.frozen_pre_start_wnd
             /\ t + Received(s, rn) >= s.frozen_pre_start_wnd
<1>1. /\ s.frozen_pre_start_wnd \in Nat /\ s.frozen_min_rwnd \in Nat
      /\ s.frozen_min_rwnd <= s.frozen_pre_start_wnd
  BY DEF LeoStates, AboveFloor
<1>2. Received(s, rn) \in Nat
  BY WidthAssumption DEF Received, U32Sub, LeoStates
<1> QED
  BY <1>1, <1>2 DEF SafeTarget, U32Sub, MinOf, MaxOf

\* leo_recovery_target: a natural at or above the floor.
LEMMA RecoveryTargetBounds ==
  ASSUME NEW s \in LeoStates, NEW n \in Nat, NEW e \in Nat
  PROVE  /\ RecoveryTarget(s, n, e) \in Nat
         /\ s.frozen_min_rwnd <= RecoveryTarget(s, n, e)
<1> DEFINE end == MaxOf(MinOf(n, s.frozen_start_rwnd), s.frozen_min_rwnd)
           inc == ((end - s.frozen_min_rwnd) * MinOf(e, s.frozen_recovery_us))
                  \div s.frozen_recovery_us
<1>1. /\ s.frozen_start_rwnd \in Nat /\ s.frozen_min_rwnd \in Nat
      /\ s.frozen_recovery_us \in Nat
  BY DEF LeoStates
<1>2. end \in Nat /\ s.frozen_min_rwnd <= end
  BY <1>1 DEF MinOf, MaxOf
<1>3. s.frozen_recovery_us # 0 => inc \in Nat
  <2> HIDE DEF end
  <2>1. MinOf(e, s.frozen_recovery_us) \in Nat /\ end - s.frozen_min_rwnd \in Nat
    BY <1>1, <1>2 DEF MinOf
  <2> QED  BY <1>1, <2>1, ShareNat
<1>4. RecoveryTarget(s, n, e)
        = IF s.frozen_recovery_us = 0 \/ end <= s.frozen_min_rwnd THEN end
          ELSE s.frozen_min_rwnd + inc
  BY DEF RecoveryTarget
<1> HIDE DEF end, inc
<1> QED  BY <1>1, <1>2, <1>3, <1>4

\* tcp_leo_dynamic_target: what the returned window satisfies in each phase.
LEMMA TargetBounds ==
  ASSUME NEW s \in LeoStates, NEW in \in Inputs, NEW ph,
         ph.phase \in Phases, ph.elapsed \in Nat,
         ph.phase \in Controlled => s.pre_started, AboveFloor(s)
  PROVE  /\ Target(s, in, ph) \in Nat
         /\ ph.phase # NORMAL =>
              Target(s, in, ph) >= MinOf(in.normal, s.frozen_min_rwnd)
         /\ ph.phase \in Controlled =>
              /\ Target(s, in, ph) <= s.frozen_pre_start_wnd
              /\ Target(s, in, ph) + Received(s, in.rcv_nxt)
                    >= MinOf(s.frozen_pre_start_wnd,
                             in.normal + Received(s, in.rcv_nxt))
<1>1. /\ in.normal \in Nat /\ in.rcv_nxt \in 0..(U32Range - 1)
      /\ s.frozen_min_rwnd \in Nat /\ s.frozen_pre_start_wnd \in Nat
  BY DEF Inputs, LeoStates
<1>2. Received(s, in.rcv_nxt) \in Nat
  BY <1>1, WidthAssumption DEF Received, U32Sub, LeoStates
<1>3. CASE ph.phase = PRE
  <2>1. Target(s, in, ph) = MinOf(PreTarget(s, in.rcv_nxt, ph.elapsed), in.normal)
    BY <1>3 DEF Target
  <2>2. s.pre_started
    BY <1>3 DEF Controlled
  <2> QED  BY <1>1, <1>2, <2>1, <2>2, PreTargetBounds DEF MinOf
<1>4. CASE ph.phase \in {DRAIN, OUTAGE}
  <2>1. Target(s, in, ph) = MinOf(SafeTarget(s, in.rcv_nxt, s.frozen_min_rwnd), in.normal)
    BY <1>4 DEF Target, PRE, DRAIN, OUTAGE
  <2>2. s.pre_started
    BY <1>4 DEF Controlled
  <2> DEFINE t == SafeTarget(s, in.rcv_nxt, s.frozen_min_rwnd)
  <2>3. /\ t \in Nat /\ s.frozen_min_rwnd <= t /\ t <= s.frozen_pre_start_wnd
        /\ t + Received(s, in.rcv_nxt) >= s.frozen_pre_start_wnd
    BY <1>1, <2>2, SafeTargetBounds
  <2> HIDE DEF t
  <2>4. Target(s, in, ph) = MinOf(t, in.normal)
    BY <2>1 DEF t
  <2> QED  BY <1>1, <1>2, <2>3, <2>4 DEF MinOf
<1>5. CASE ph.phase = RECOVERY
  <2>1. Target(s, in, ph) = MinOf(RecoveryTarget(s, in.normal, ph.elapsed), in.normal)
    BY <1>5 DEF Target, PRE, DRAIN, OUTAGE, RECOVERY
  <2>2. ph.phase \notin Controlled
    BY <1>5 DEF Controlled, PRE, DRAIN, OUTAGE, RECOVERY
  <2> DEFINE t == RecoveryTarget(s, in.normal, ph.elapsed)
  <2>3. t \in Nat /\ s.frozen_min_rwnd <= t
    BY <1>1, RecoveryTargetBounds
  <2> HIDE DEF t
  <2>4. Target(s, in, ph) = MinOf(t, in.normal)
    BY <2>1 DEF t
  <2> QED  BY <1>1, <2>2, <2>3, <2>4 DEF MinOf
<1>6. CASE ph.phase = NORMAL
  <2>1. Target(s, in, ph) = in.normal
    BY <1>1, <1>6 DEF Target, PRE, DRAIN, OUTAGE, RECOVERY, NORMAL, MinOf
  <2>2. ph.phase \notin Controlled
    BY <1>6 DEF Controlled, PRE, DRAIN, OUTAGE, NORMAL
  <2> QED  BY <1>1, <1>6, <2>1, <2>2
<1> QED
  BY <1>3, <1>4, <1>5, <1>6 DEF Phases

-----------------------------------------------------------------------------
(* The controller.                                                         *)

\* The measurements stored in the state lie in the past.
MeasuredPast == st.last_sample_us <= mono /\ st.last_bytes_received <= bytes

\* Only a socket that has been measured has a frozen cycle.
FrozenKnown == st.frozen => st.initialized

\* The right edge of the snapshot, carried forward by what was received since:
\* the u32 difference of sequence numbers never exceeds the bytes that arrived.
EdgeAnchored ==
    st.pre_started => edge + Received(st, rcv_nxt) <= bytes + st.frozen_pre_start_wnd

IInv ==
    /\ TypeOK
    /\ MeasuredPast
    /\ FrozenKnown
    /\ AboveFloor(st)
    /\ EdgeAnchored
    /\ SafeShrink
    /\ FloorKept

-----------------------------------------------------------------------------
\* A controlled call, stage by stage: what tcp_leo_dynamic_target does to a
\* state that satisfies the invariant.
LEMMA ControlledCall ==
  ASSUME NEW s \in LeoStates, NEW sys \in Sysctls, NEW in \in Inputs, NEW e \in Nat,
         MeasuredBefore(s, in), AboveFloor(s), s.frozen => s.initialized,
         s.pre_started => e + Received(s, in.rcv_nxt) <= in.bytes + s.frozen_pre_start_wnd
  PROVE  LET res == DynamicTarget(s, sys, in)
             e2  == IF res.snapshot THEN in.bytes + res.target ELSE e
             n   == res.st
         IN  /\ n \in LeoStates /\ res.target \in Nat /\ e2 \in Nat
             /\ res.froze \in BOOLEAN
             /\ MeasuredBefore(n, in) /\ AboveFloor(n) /\ n.initialized
             /\ n.pre_started =>
                  e2 + Received(n, in.rcv_nxt) <= in.bytes + n.frozen_pre_start_wnd
             /\ n.current_phase \in Controlled =>
                  in.bytes + res.target >= MinOf(e2, in.bytes + in.normal)
             /\ n.current_phase # NORMAL =>
                  res.target >= MinOf(in.normal, n.frozen_min_rwnd)
             /\ s.frozen /\ s.frozen_recovery_us # 0 /\ ~s.recovery_started
                  => SameCycle(n, s)
             /\ n.recovery_started /\ ~s.recovery_started
                  => n.current_phase = RECOVERY
<1> DEFINE k    == Known(s, sys, in)
           d    == MaybeFreeze(k, sys, in)
           ph   == PhaseOf(d, sys, in.real)
           run  == StartRecovery(d, sys, in.real)
           meas == NextMeasurement(run, sys, in, ph.phase)
           snap == TakeSnapshot(meas, in, s.current_phase, ph.phase)
           new  == [snap EXCEPT !.current_phase = ph.phase]
           takes == TakesSnapshot(meas, s.current_phase, ph.phase)
           tgt  == Target(new, in, ph)
           e2   == IF takes THEN in.bytes + tgt ELSE e
<1>1. /\ DynamicTarget(s, sys, in).st = new
      /\ DynamicTarget(s, sys, in).target = tgt
      /\ DynamicTarget(s, sys, in).snapshot = takes
      /\ DynamicTarget(s, sys, in).froze = Freezes(k, sys, in)
  BY DEF DynamicTarget
<1>2. /\ in.normal \in Nat /\ in.bytes \in Nat /\ in.rcv_nxt \in 0..(U32Range - 1)
      /\ in.real \in 0..(U64Range - 1)
  BY DEF Inputs
<1>3. /\ k \in LeoStates /\ MeasuredBefore(k, in) /\ k.initialized
      /\ s.initialized => k = s
      /\ ~s.initialized => ~k.pre_started /\ ~k.frozen /\ ~k.recovery_started
  BY KnownState
<1> HIDE DEF k
<1>4. /\ d \in LeoStates /\ MeasuredBefore(d, in) /\ d.initialized
      /\ ~d.pre_started \/ ShrinkRef(d) = ShrinkRef(k)
      /\ d.recovery_started => k.recovery_started
      /\ k.frozen /\ k.frozen_recovery_us # 0 /\ ~k.recovery_started => SameCycle(d, k)
  BY <1>3, MaybeFreezeState
<1> HIDE DEF d
<1>5. ph.phase \in Phases /\ ph.elapsed \in Nat
  BY <1>2, <1>4, PhaseType
<1>6. /\ run \in LeoStates /\ MeasuredBefore(run, in) /\ run.initialized
      /\ ShrinkRef(run) = ShrinkRef(d) /\ SameCycle(run, d)
      /\ run.recovery_started /\ ~d.recovery_started => ph.phase = RECOVERY
  BY <1>4, StartRecoveryState
<1> HIDE DEF ph, run
<1>7. /\ meas \in LeoStates /\ MeasuredBefore(meas, in) /\ meas.initialized
      /\ ShrinkRef(meas) = ShrinkRef(run) /\ SameCycle(meas, run)
      /\ meas.recovery_started = run.recovery_started
  BY <1>6, NextMeasurementState
<1> HIDE DEF meas
<1>8. /\ snap \in LeoStates /\ MeasuredBefore(snap, in) /\ snap.initialized
      /\ ph.phase \in Controlled => snap.pre_started
      /\ SameCycle(snap, meas) /\ snap.recovery_started = meas.recovery_started
      /\ takes => /\ snap.pre_started /\ snap.frozen_pre_start_rcv_nxt = in.rcv_nxt
                  /\ snap.frozen_min_rwnd <= snap.frozen_pre_start_wnd
      /\ ~takes => snap = meas
  BY <1>5, <1>7, TakeSnapshotState
<1> HIDE DEF snap, takes
<1>9. /\ new \in LeoStates /\ MeasuredBefore(new, in) /\ new.initialized
      /\ ShrinkRef(new) = ShrinkRef(snap) /\ SameCycle(new, snap)
      /\ new.recovery_started = snap.recovery_started
      /\ new.current_phase = ph.phase
  BY <1>5, <1>8 DEF LeoStates, MeasuredBefore, ShrinkRef, SameCycle, FrozenParams
<1> HIDE DEF new
\* Without a new snapshot the reference point is the one of the old state.
<1>10. ~takes /\ new.pre_started => s.initialized /\ ShrinkRef(new) = ShrinkRef(s)
  BY <1>3, <1>4, <1>6, <1>7, <1>8, <1>9 DEF ShrinkRef
<1>11. AboveFloor(new)
  <2>1. CASE takes
    BY <1>8, <1>9, <2>1 DEF AboveFloor, ShrinkRef
  <2>2. CASE ~takes
    BY <1>10, <2>2 DEF AboveFloor, ShrinkRef
  <2> QED  BY <2>1, <2>2
<1>12. ph.phase \in Controlled => new.pre_started
  BY <1>8, <1>9 DEF ShrinkRef
<1>13. /\ tgt \in Nat
       /\ ph.phase # NORMAL => tgt >= MinOf(in.normal, new.frozen_min_rwnd)
       /\ ph.phase \in Controlled =>
            /\ tgt <= new.frozen_pre_start_wnd
            /\ tgt + Received(new, in.rcv_nxt)
                 >= MinOf(new.frozen_pre_start_wnd, in.normal + Received(new, in.rcv_nxt))
  BY <1>5, <1>9, <1>11, <1>12, TargetBounds
<1> HIDE DEF tgt
<1>14. e2 \in Nat
  BY <1>2, <1>13
<1>15. Received(new, in.rcv_nxt) \in Nat /\ new.frozen_pre_start_wnd \in Nat
  BY <1>2, <1>9, WidthAssumption DEF Received, U32Sub, LeoStates
<1>16. new.pre_started =>
         e2 + Received(new, in.rcv_nxt) <= in.bytes + new.frozen_pre_start_wnd
  <2>1. CASE takes
    <3>1. Received(new, in.rcv_nxt) = 0
      BY <1>2, <1>8, <1>9, <2>1 DEF Received, U32Sub, ShrinkRef
    <3>2. ph.phase \in Controlled
      BY <2>1 DEF takes, TakesSnapshot, Controlled
    <3> QED  BY <1>2, <1>13, <1>15, <2>1, <3>1, <3>2
  <2>2. CASE ~takes
    BY <1>10, <2>2 DEF ShrinkRef, Received
  <2> QED  BY <2>1, <2>2
<1>17. ph.phase \in Controlled => in.bytes + tgt >= MinOf(e2, in.bytes + in.normal)
  <2> HIDE DEF e2
  <2> QED  BY <1>2, <1>12, <1>13, <1>14, <1>15, <1>16 DEF MinOf
<1>18. s.frozen /\ s.frozen_recovery_us # 0 /\ ~s.recovery_started => SameCycle(new, s)
  BY <1>3, <1>4, <1>6, <1>7, <1>8, <1>9 DEF SameCycle
<1>19. new.recovery_started /\ ~s.recovery_started => ph.phase = RECOVERY
  BY <1>3, <1>4, <1>6, <1>7, <1>8, <1>9
<1>20. Freezes(k, sys, in) \in BOOLEAN
  BY DEF Freezes
<1> HIDE DEF e2
<1>21. e2 = IF DynamicTarget(s, sys, in).snapshot
            THEN in.bytes + DynamicTarget(s, sys, in).target ELSE e
  BY <1>1 DEF e2
<1> QED
  BY <1>1, <1>9, <1>11, <1>13, <1>14, <1>16, <1>17, <1>18, <1>19, <1>20, <1>21

-----------------------------------------------------------------------------
\* The initial states satisfy the invariant.
LEMMA InitIInv == Init => IInv
<1> SUFFICES ASSUME Init PROVE IInv
  OBVIOUS
<1> USE DEF Init
<1>1. TypeOK
  <2>1. st \in LeoStates
    BY WidthAssumption DEF NewState, LeoStates, Phases, NORMAL
  <2>2. /\ real \in 0..(U64Range - 1) /\ mono \in Nat /\ bytes \in Nat
        /\ rcv_nxt \in 0..(U32Range - 1) /\ edge \in Nat /\ boundary \in Nat
    BY ClockAssumption, StreamAssumption
  <2>3. call \in Calls
    BY DEF Calls
  <2> QED  BY <2>1, <2>2, <2>3, SettingsAssumption DEF TypeOK
<1>2. MeasuredPast /\ FrozenKnown /\ AboveFloor(st) /\ EdgeAnchored
  BY DEF MeasuredPast, FrozenKnown, AboveFloor, EdgeAnchored, NewState
<1>3. SafeShrink /\ FloorKept
  BY DEF SafeShrink, FloorKept
<1> QED  BY <1>1, <1>2, <1>3 DEF IInv

\* What the arrival of n bytes does to the received count of a reduction:
\* the u32 difference grows by n, or wraps and shrinks.
LEMMA ReceivedGrows ==
  ASSUME NEW a \in 0..(U32Range - 1), NEW b \in 0..(U32Range - 1),
         NEW n \in 1..(U32Range - 1)
  PROVE  /\ U32Add(a, n) \in 0..(U32Range - 1)
         /\ U32Sub(U32Add(a, n), b) <= U32Sub(a, b) + n
  BY WidthAssumption DEF U32Add, U32Sub

\* A call that the controller leaves alone keeps the invariant, whatever the
\* window of ordinary TCP is.
LEMMA PassThroughIInv ==
  ASSUME IInv, NEW normal \in Nat, PassThrough(normal)
  PROVE  IInv'
<1> USE DEF IInv
<1>1. normal \in Nat /\ bytes \in Nat /\ real \in Nat
  BY WidthAssumption DEF TypeOK
<1>2. /\ call' = [ran |-> FALSE, froze |-> FALSE, normal |-> normal,
                  target |-> normal, bytes |-> bytes, real |-> real]
      /\ UNCHANGED <<sysctl, ports, real, mono, bytes, rcv_nxt, st, edge, boundary>>
  BY DEF PassThrough, settings
<1>3. call' \in Calls /\ ~call'.ran
  BY <1>1, <1>2 DEF Calls
<1>4. TypeOK'
  BY <1>2, <1>3 DEF TypeOK
<1> QED
  BY <1>2, <1>3, <1>4 DEF MeasuredPast, FrozenKnown, AboveFloor, EdgeAnchored,
                         Received, SafeShrink, FloorKept

\* A controlled call keeps the invariant, whatever it reads from the socket.
LEMMA ControlIInv ==
  ASSUME IInv, NEW normal \in Nat, NEW rtt \in Nat, NEW mss \in Nat,
         Control(normal, rtt, mss)
  PROVE  IInv'
<1> USE DEF IInv
<1> DEFINE in  == Input(normal, rtt, mss)
           res == DynamicTarget(st, sysctl, in)
           e2  == IF res.snapshot THEN in.bytes + res.target ELSE edge
<1>1. normal \in Nat /\ rtt \in Nat /\ mss \in Nat
  OBVIOUS
<1>2. in \in Inputs
  BY <1>1 DEF Input, Inputs, TypeOK
<1>3. /\ in.normal = normal /\ in.bytes = bytes /\ in.rcv_nxt = rcv_nxt
      /\ in.real = real /\ in.mono = mono
  BY DEF Input
<1>4. /\ st' = res.st /\ edge' = e2
      /\ call' = [ran |-> TRUE, froze |-> res.froze, normal |-> normal,
                  target |-> res.target, bytes |-> bytes, real |-> real]
      /\ boundary' = IF res.froze
                     THEN real + PeriodUs(sysctl) - PeriodPosition(sysctl, real)
                     ELSE boundary
      /\ UNCHANGED <<sysctl, ports, real, mono, bytes, rcv_nxt>>
  BY <1>3 DEF Control, settings
<1>5. /\ st \in LeoStates /\ sysctl \in Sysctls /\ edge \in Nat
      /\ MeasuredBefore(st, in) /\ AboveFloor(st) /\ (st.frozen => st.initialized)
      /\ st.pre_started =>
           edge + Received(st, in.rcv_nxt) <= in.bytes + st.frozen_pre_start_wnd
  BY <1>3 DEF TypeOK, MeasuredPast, MeasuredBefore, FrozenKnown, EdgeAnchored
<1> HIDE DEF in
<1>6. /\ res.st \in LeoStates /\ res.target \in Nat /\ e2 \in Nat
      /\ res.froze \in BOOLEAN
      /\ MeasuredBefore(res.st, in) /\ AboveFloor(res.st) /\ res.st.initialized
      /\ res.st.pre_started =>
           e2 + Received(res.st, in.rcv_nxt) <= in.bytes + res.st.frozen_pre_start_wnd
      /\ res.st.current_phase \in Controlled =>
           in.bytes + res.target >= MinOf(e2, in.bytes + in.normal)
      /\ res.st.current_phase # NORMAL =>
           res.target >= MinOf(in.normal, res.st.frozen_min_rwnd)
  BY <1>2, <1>5, ControlledCall
<1> HIDE DEF res, e2
<1>7. bytes \in Nat /\ real \in Nat /\ boundary \in Nat
  BY WidthAssumption DEF TypeOK
<1>8. boundary' \in Nat
  <2>1. /\ PeriodUs(sysctl) \in Nat /\ PeriodPosition(sysctl, real) \in Nat
        /\ PeriodUs(sysctl) # 0 => PeriodPosition(sysctl, real) < PeriodUs(sysctl)
    BY <1>5, <1>7, PeriodNat
  <2>2. PeriodUs(sysctl) = 0 => PeriodPosition(sysctl, real) = 0
    BY DEF PeriodPosition
  <2> QED  BY <1>4, <1>7, <2>1, <2>2
<1>9. /\ call' \in Calls /\ call'.ran /\ call'.bytes = bytes
      /\ call'.target = res.target /\ call'.normal = normal
  BY <1>1, <1>4, <1>6, <1>7 DEF Calls
<1>10. TypeOK'
  BY <1>4, <1>6, <1>8, <1>9 DEF TypeOK
<1>11. MeasuredPast' /\ FrozenKnown' /\ AboveFloor(st)'
  BY <1>3, <1>4, <1>6 DEF MeasuredPast, MeasuredBefore, FrozenKnown, AboveFloor
<1>12. EdgeAnchored'
  BY <1>3, <1>4, <1>6 DEF EdgeAnchored, Received
<1>13. SafeShrink' /\ FloorKept'
  BY <1>3, <1>4, <1>6, <1>9 DEF SafeShrink, FloorKept
<1> QED  BY <1>10, <1>11, <1>12, <1>13

\* Every step preserves the invariant.
LEMMA NextIInv == IInv /\ [Next]_vars => IInv'
<1> SUFFICES ASSUME IInv, [Next]_vars PROVE IInv'
  OBVIOUS
<1> USE DEF IInv
<1>1. ASSUME NEW d \in TickSizes, Tick(d) PROVE IInv'
  <2>1. d \in Nat
    BY ClockAssumption
  <2>2. /\ real' \in 0..(U64Range - 1) /\ mono' \in Nat /\ mono <= mono'
        /\ UNCHANGED <<sysctl, ports, bytes, rcv_nxt, st, call, edge, boundary>>
    BY <1>1, <2>1, WidthAssumption DEF Tick, TypeOK, settings
  <2>3. TypeOK'
    BY <2>2 DEF TypeOK
  <2>4. MeasuredPast'
    BY <2>2 DEF MeasuredPast, TypeOK, LeoStates
  <2> QED
    BY <2>2, <2>3, <2>4 DEF FrozenKnown, AboveFloor, EdgeAnchored, Received,
                           SafeShrink, FloorKept
<1>2. ASSUME NEW t \in ClockSets, SetClock(t) PROVE IInv'
  <2>1. /\ real' \in 0..(U64Range - 1)
        /\ UNCHANGED <<sysctl, ports, mono, bytes, rcv_nxt, st, call, edge, boundary>>
    BY <1>2, ClockAssumption DEF SetClock, settings
  <2>2. TypeOK'
    BY <2>1 DEF TypeOK
  <2> QED
    BY <2>1, <2>2 DEF MeasuredPast, FrozenKnown, AboveFloor, EdgeAnchored, Received,
                      SafeShrink, FloorKept
<1>3. ASSUME NEW n \in SegmentSizes, Receive(n) PROVE IInv'
  <2>1. n \in 1..(U32Range - 1) /\ n \in Nat
    BY StreamAssumption, WidthAssumption
  <2>2. /\ bytes' = bytes + n /\ rcv_nxt' = U32Add(rcv_nxt, n)
        /\ UNCHANGED <<sysctl, ports, real, mono, st, call, edge, boundary>>
    BY <1>3 DEF Receive, settings
  <2>3. rcv_nxt' \in 0..(U32Range - 1)
    BY <2>1, <2>2, ReceivedGrows DEF TypeOK
  <2>4. TypeOK'
    BY <2>1, <2>2, <2>3 DEF TypeOK
  <2>5. MeasuredPast'
    BY <2>1, <2>2 DEF MeasuredPast, TypeOK, LeoStates
  <2>6. EdgeAnchored'
    <3>1. st.frozen_pre_start_rcv_nxt \in 0..(U32Range - 1)
          /\ st.frozen_pre_start_wnd \in Nat
      BY DEF TypeOK, LeoStates
    <3>2. Received(st, rcv_nxt') <= Received(st, rcv_nxt) + n
      BY <2>1, <2>2, <3>1, ReceivedGrows DEF TypeOK, Received
    <3>3. Received(st, rcv_nxt) \in Int /\ Received(st, rcv_nxt') \in Int
      BY <2>3, <3>1, WidthAssumption DEF TypeOK, Received, U32Sub
    <3>4. bytes \in Nat /\ edge \in Nat
      BY DEF TypeOK
    <3>5. st.pre_started => edge + Received(st, rcv_nxt') <= bytes' + st.frozen_pre_start_wnd
      BY <2>1, <2>2, <3>1, <3>2, <3>3, <3>4 DEF EdgeAnchored
    <3> QED  BY <2>2, <3>5 DEF EdgeAnchored, Received
  <2> QED
    BY <2>2, <2>4, <2>5, <2>6 DEF FrozenKnown, AboveFloor, SafeShrink, FloorKept
<1>4. ASSUME NEW w \in SysctlWrites, WriteSysctl(w[1], w[2]) PROVE IInv'
  <2>1. w[1] \in SysctlNames /\ w[2] \in Nat
    BY SettingsAssumption
  <2>2. /\ sysctl' = [sysctl EXCEPT ![w[1]] = w[2]]
        /\ UNCHANGED <<ports, real, mono, bytes, rcv_nxt, st, call, edge, boundary>>
    BY <1>4 DEF WriteSysctl
  <2>3. sysctl' \in Sysctls
    BY <2>1, <2>2 DEF TypeOK, Sysctls
  <2>4. TypeOK'
    BY <2>2, <2>3 DEF TypeOK
  <2> QED
    BY <2>2, <2>4 DEF MeasuredPast, FrozenKnown, AboveFloor, EdgeAnchored, Received,
                      SafeShrink, FloorKept
<1>5. ASSUME NEW w \in PortWrites, WritePort(w[1], w[2]) PROVE IInv'
  <2>1. w[1] \in 1..4 /\ w[2] \in Nat
    BY SettingsAssumption
  <2>2. /\ ports' = [ports EXCEPT ![w[1]] = w[2]]
        /\ UNCHANGED <<sysctl, real, mono, bytes, rcv_nxt, st, call, edge, boundary>>
    BY <1>5 DEF WritePort
  <2>3. ports' \in Ports
    BY <2>1, <2>2 DEF TypeOK, Ports
  <2>4. TypeOK'
    BY <2>2, <2>3 DEF TypeOK
  <2> QED
    BY <2>2, <2>4 DEF MeasuredPast, FrozenKnown, AboveFloor, EdgeAnchored, Received,
                      SafeShrink, FloorKept
<1>6. ASSUME NEW normal \in NormalWindows, PassThrough(normal) PROVE IInv'
  <2>1. normal \in Nat
    BY InputAssumption, WidthAssumption
  <2> QED  BY <1>6, <2>1, PassThroughIInv
<1>7. ASSUME NEW normal \in NormalWindows, NEW rtt \in RcvRtts, NEW mss \in RcvMsses,
             Control(normal, rtt, mss)
      PROVE  IInv'
  <2>1. normal \in Nat /\ rtt \in Nat /\ mss \in Nat
    BY InputAssumption, WidthAssumption
  <2> QED  BY <1>7, <2>1, ControlIInv
<1>8. CASE UNCHANGED vars
  BY <1>8 DEF vars, TypeOK, MeasuredPast, FrozenKnown, AboveFloor, EdgeAnchored, Received,
              SafeShrink, FloorKept
<1> QED
  BY <1>1, <1>2, <1>3, <1>4, <1>5, <1>6, <1>7, <1>8 DEF Next

-----------------------------------------------------------------------------
\* The invariant holds in every reachable state.
THEOREM Invariance == Spec => []IInv
  BY InitIInv, NextIInv, PTL DEF Spec

\* Types: no arithmetic in tcp_redhat.c leaves the naturals, whatever is
\* written to the sysctls and whenever.
THEOREM TypeCorrect == Spec => []TypeOK
<1>1. IInv => TypeOK
  BY DEF IInv
<1> QED  BY <1>1, Invariance, PTL

\* leo_pre_target and leo_safe_target never pull the right edge back behind
\* the edge offered when the reduction began.
THEOREM ShrinkIsSafe == Spec => []SafeShrink
<1>1. IInv => SafeShrink
  BY DEF IInv
<1> QED  BY <1>1, Invariance, PTL

\* The controller never takes an open window below the floor of its cycle.
THEOREM FloorIsKept == Spec => []FloorKept
<1>1. IInv => FloorKept
  BY DEF IInv
<1> QED  BY <1>1, Invariance, PTL

-----------------------------------------------------------------------------
\* A step changes the socket's state only if it is a controlled call.
LEMMA OnlyControlWrites ==
  ASSUME [Next]_vars, st' # st
  PROVE  \E normal \in NormalWindows, rtt \in RcvRtts, mss \in RcvMsses :
            Control(normal, rtt, mss)
  BY DEF Next, vars, Tick, SetClock, Receive, WriteSysctl, WritePort, PassThrough

\* leo_maybe_freeze and leo_phase: a frozen cycle with a ramp keeps its
\* parameters until a call has advertised the start of the ramp.
THEOREM CycleIsHeld == Spec => HeldUntilRamp
<1> DEFINE Held ==
      /\ st.frozen /\ st.frozen_recovery_us # 0 /\ ~st.recovery_started
           => st'.frozen /\ FrozenParams(st') = FrozenParams(st)
      /\ ~st.recovery_started /\ st'.recovery_started => st'.current_phase = RECOVERY
<1>1. IInv /\ [Next]_vars => Held
  <2> SUFFICES ASSUME IInv, [Next]_vars PROVE Held
    OBVIOUS
  <2>1. CASE st' = st
    BY <2>1
  <2>2. CASE st' # st
    <3>1. PICK normal \in NormalWindows, rtt \in RcvRtts, mss \in RcvMsses :
             Control(normal, rtt, mss)
      BY <2>2, OnlyControlWrites
    <3> DEFINE in == Input(normal, rtt, mss)
    <3>2. in \in Inputs
      <4>1. normal \in Nat /\ rtt \in Nat /\ mss \in Nat
        BY InputAssumption, WidthAssumption
      <4> QED  BY <4>1 DEF Input, Inputs, IInv, TypeOK
    <3>3. st' = DynamicTarget(st, sysctl, in).st
      BY <3>1 DEF Control
    <3>4. in.bytes = bytes /\ in.rcv_nxt = rcv_nxt /\ in.mono = mono
      BY DEF Input
    <3> HIDE DEF in
    <3>5. /\ st \in LeoStates /\ sysctl \in Sysctls /\ edge \in Nat
          /\ MeasuredBefore(st, in) /\ AboveFloor(st) /\ (st.frozen => st.initialized)
          /\ st.pre_started =>
               edge + Received(st, in.rcv_nxt) <= in.bytes + st.frozen_pre_start_wnd
      BY <3>4 DEF IInv, TypeOK, MeasuredPast, MeasuredBefore, FrozenKnown, EdgeAnchored
    <3>6. /\ st.frozen /\ st.frozen_recovery_us # 0 /\ ~st.recovery_started
               => SameCycle(st', st)
          /\ st'.recovery_started /\ ~st.recovery_started
               => st'.current_phase = RECOVERY
      BY <3>2, <3>3, <3>5, ControlledCall
    <3> QED  BY <3>6 DEF SameCycle
  <2> QED  BY <2>1, <2>2
<1>2. IInv /\ [Next]_vars => [Held]_vars
  BY <1>1
<1>3. HeldUntilRamp <=> [][Held]_vars
  BY DEF HeldUntilRamp
<1> QED
  BY <1>2, <1>3, Invariance, PTL DEF Spec

-----------------------------------------------------------------------------
(* Cycles, while the wall clock only runs forward and the period and its   *)
(* offset stay as they are.                                                *)

\* The stages of a controlled call that decide about cycles: what is frozen
\* after it, and whether a ramp has started.
LEMMA CallCycle ==
  ASSUME NEW s \in LeoStates, NEW sys \in Sysctls, NEW in \in Inputs, MeasuredBefore(s, in)
  PROVE  LET k == Known(s, sys, in)
             d == MaybeFreeze(k, sys, in)
             r == StartRecovery(d, sys, in.real)
             n == DynamicTarget(s, sys, in).st
         IN  /\ k \in LeoStates /\ d \in LeoStates /\ r \in LeoStates /\ n \in LeoStates
             /\ SameCycle(n, d) /\ n.initialized
             /\ n.recovery_started = r.recovery_started
             /\ n.recovery_start_real_us = r.recovery_start_real_us
             /\ n.current_phase = PhaseOf(d, sys, in.real).phase
             /\ s.initialized => k = s
             /\ ~s.initialized => /\ ~k.frozen /\ ~k.recovery_started
                                  /\ k.frozen_period_id = 0 /\ k.frozen_min_rwnd = 0
             /\ DynamicTarget(s, sys, in).froze = Freezes(k, sys, in)
<1> DEFINE k    == Known(s, sys, in)
           d    == MaybeFreeze(k, sys, in)
           ph   == PhaseOf(d, sys, in.real)
           r    == StartRecovery(d, sys, in.real)
           meas == NextMeasurement(r, sys, in, ph.phase)
           snap == TakeSnapshot(meas, in, s.current_phase, ph.phase)
           n    == [snap EXCEPT !.current_phase = ph.phase]
<1>1. /\ DynamicTarget(s, sys, in).st = n
      /\ DynamicTarget(s, sys, in).froze = Freezes(k, sys, in)
  BY DEF DynamicTarget
<1>2. in.real \in 0..(U64Range - 1)
  BY DEF Inputs
<1>3. /\ k \in LeoStates /\ MeasuredBefore(k, in) /\ k.initialized
      /\ s.initialized => k = s
      /\ ~s.initialized => ~k.frozen /\ ~k.recovery_started
  BY KnownState
<1>4. ~s.initialized => k.frozen_period_id = 0 /\ k.frozen_min_rwnd = 0
  BY DEF Known, FirstMeasurement
<1> HIDE DEF k
<1>5. d \in LeoStates /\ MeasuredBefore(d, in) /\ d.initialized
  BY <1>3, MaybeFreezeState
<1> HIDE DEF d
<1>6. ph.phase \in Phases
  BY <1>2, <1>5, PhaseType
<1>7. r \in LeoStates /\ MeasuredBefore(r, in) /\ r.initialized /\ SameCycle(r, d)
  BY <1>5, StartRecoveryState
<1> HIDE DEF ph, r
<1>8. /\ meas \in LeoStates /\ MeasuredBefore(meas, in) /\ meas.initialized
      /\ SameCycle(meas, r) /\ meas.recovery_started = r.recovery_started
      /\ meas.recovery_start_real_us = r.recovery_start_real_us
  BY <1>7, NextMeasurementState
<1> HIDE DEF meas
<1>9. /\ snap \in LeoStates /\ snap.initialized
      /\ SameCycle(snap, meas) /\ snap.recovery_started = meas.recovery_started
      /\ snap.recovery_start_real_us = meas.recovery_start_real_us
  BY <1>6, <1>8, TakeSnapshotState
<1> HIDE DEF snap
<1>10. /\ n \in LeoStates /\ n.initialized /\ SameCycle(n, snap)
       /\ n.recovery_started = snap.recovery_started
       /\ n.recovery_start_real_us = snap.recovery_start_real_us
       /\ n.current_phase = ph.phase
  BY <1>6, <1>9 DEF LeoStates, SameCycle, FrozenParams
<1> HIDE DEF n
<1>11. SameCycle(n, d)
  BY <1>7, <1>8, <1>9, <1>10 DEF SameCycle
<1> QED BY <1>1, <1>3, <1>4, <1>5, <1>7, <1>8, <1>9, <1>10, <1>11 DEF k, d, r, ph

\* leo_maybe_freeze: there is no period, or a cycle is frozen, or the old one
\* is held or released.
LEMMA FreezeCases ==
  ASSUME NEW k \in LeoStates, NEW sys \in Sysctls, NEW in \in Inputs
  PROVE  LET d == MaybeFreeze(k, sys, in)
         IN  \/ PeriodUs(sys) = 0 /\ d = k /\ ~Freezes(k, sys, in)
             \/ /\ PeriodUs(sys) # 0 /\ Freezes(k, sys, in) /\ ~Holds(k, sys, in)
                /\ d.frozen /\ ~d.recovery_started
                /\ d.frozen_period_id = PeriodId(sys, in.real)
                /\ d.frozen_min_rwnd = MinRwnd(sys, in)
             \/ /\ PeriodUs(sys) # 0 /\ ~Freezes(k, sys, in)
                /\ d.frozen = Holds(k, sys, in) /\ FrozenParams(d) = FrozenParams(k)
                /\ d.recovery_started = k.recovery_started
                /\ d.recovery_start_real_us = k.recovery_start_real_us
<1>1. CASE PeriodUs(sys) = 0
  BY <1>1 DEF MaybeFreeze, Freezes
<1>2. CASE PeriodUs(sys) # 0 /\ Freezes(k, sys, in)
  BY <1>2, FreezeState DEF MaybeFreeze, Freezes
<1>3. CASE PeriodUs(sys) # 0 /\ ~Freezes(k, sys, in)
  <2> DEFINE h == Holds(k, sys, in)
             d == [k EXCEPT !.frozen = h]
  <2>1. MaybeFreeze(k, sys, in) = d
    BY <1>3 DEF MaybeFreeze
  <2> HIDE DEF h
  <2>2. /\ d.frozen = h /\ FrozenParams(d) = FrozenParams(k)
        /\ d.recovery_started = k.recovery_started
        /\ d.recovery_start_real_us = k.recovery_start_real_us
    BY DEF LeoStates, FrozenParams
  <2> QED BY <1>3, <2>1, <2>2 DEF h
<1> QED BY <1>1, <1>2, <1>3

-----------------------------------------------------------------------------
(* Periods *)

\* Division with remainder
LEMMA DivMod ==
  ASSUME NEW a \in Nat, NEW p \in Nat \ {0}
  PROVE  a % p = a - (a \div p) * p
OBVIOUS

\* Multiplication by a period is monotone.
LEMMA MulMono ==
  ASSUME NEW x \in Nat, NEW y \in Nat, NEW p \in Nat, x <= y
  PROVE  x * p <= y * p
OBVIOUS

\* A later time is in no earlier period (leo_period_id).
LEMMA DivMono ==
  ASSUME NEW a \in Nat, NEW b \in Nat, NEW p \in Nat \ {0}, a <= b
  PROVE  a \div p <= b \div p
<1> DEFINE q == a \div p
           r == b \div p
<1>1. q \in Nat /\ r \in Nat
  BY DivNat
<1>2. q * p <= a /\ b < r * p + p
  OBVIOUS
<1> HIDE DEF q, r
<1>4. ASSUME r + 1 <= q PROVE FALSE
  <2>1. (r + 1) * p <= q * p
    BY <1>1, <1>4, MulMono
  <2>2. (r + 1) * p = r * p + p /\ r * p \in Nat /\ q * p \in Nat
    BY <1>1
  <2> QED BY <1>2, <2>1, <2>2
<1> QED BY <1>1, <1>4 DEF q, r

\* b is the boundary at which period id ends
Ends(sys, b, id) ==
    b + PeriodUs(sys) - (Us(sys.rwnd_offset_ms) % PeriodUs(sys)) = (id + 1) * PeriodUs(sys)

\* A moment, as the start of its period and the position in it
LEMMA PeriodParts ==
  ASSUME NEW sys \in Sysctls, NEW now \in Nat, PeriodUs(sys) # 0
  PROVE  /\ PeriodUs(sys) \in Nat \ {0}
         /\ Us(sys.rwnd_offset_ms) % PeriodUs(sys) \in Nat
         /\ Us(sys.rwnd_offset_ms) % PeriodUs(sys) < PeriodUs(sys)
         /\ PeriodId(sys, now) \in Nat /\ PeriodPosition(sys, now) \in Nat
         /\ PeriodPosition(sys, now) < PeriodUs(sys)
         /\ now + PeriodUs(sys) - (Us(sys.rwnd_offset_ms) % PeriodUs(sys))
              = PeriodId(sys, now) * PeriodUs(sys) + PeriodPosition(sys, now)
<1> DEFINE p == PeriodUs(sys)
           o == Us(sys.rwnd_offset_ms) % p
           a == now + p - o
<1>1. p \in Nat \ {0} /\ Us(sys.rwnd_offset_ms) \in Nat
  BY SysctlFields, UsNat DEF PeriodUs
<1>2. o \in Nat /\ o < p
  BY <1>1, ModNat
<1>3. PeriodId(sys, now) = a \div p /\ PeriodPosition(sys, now) = a % p
  BY DEF PeriodId, PeriodPosition, Shifted
<1> HIDE DEF p, o
<1>4. a \in Nat
  BY <1>1, <1>2
<1> HIDE DEF a
<1> DEFINE q == a \div p
           r == a % p
           m == q * p
<1>5. q \in Nat /\ r \in Nat /\ r < p /\ r = a - m
  BY <1>1, <1>4, DivNat, ModNat, DivMod
<1>7. m \in Nat
  BY <1>1, <1>5, MulNat
<1> HIDE DEF q, r, m
<1>6. now + p - o = m + r
  BY <1>4, <1>5, <1>7 DEF a
<1> QED BY <1>1, <1>2, <1>3, <1>5, <1>6 DEF p, o, q, r, m

\* The boundary that a freeze predicts is the end of the current period.
LEMMA EndOfPeriod ==
  ASSUME NEW sys \in Sysctls, NEW now \in Nat, PeriodUs(sys) # 0
  PROVE  Ends(sys, now + PeriodUs(sys) - PeriodPosition(sys, now), PeriodId(sys, now))
<1> DEFINE p == PeriodUs(sys)
           o == Us(sys.rwnd_offset_ms) % p
           i == PeriodId(sys, now)
           x == PeriodPosition(sys, now)
<1>1. p \in Nat /\ o \in Nat /\ i \in Nat /\ x \in Nat /\ now + p - o = i * p + x
  BY PeriodParts
<1> HIDE DEF p, o, i, x
<1>2. (i + 1) * p = i * p + p /\ i * p \in Nat
  BY <1>1
<1>3. (now + p - x) + p - o = (i + 1) * p
  BY <1>1, <1>2
<1> QED BY <1>3 DEF Ends, p, o, i, x

\* A moment of the period lies before the boundary, one of a later period
\* does not.
LEMMA BeforeEnd ==
  ASSUME NEW sys \in Sysctls, NEW now \in Nat, PeriodUs(sys) # 0,
         NEW b \in Nat, NEW id \in Nat, Ends(sys, b, id)
  PROVE  /\ PeriodId(sys, now) = id => now < b
         /\ PeriodId(sys, now) > id => now >= b
<1> DEFINE p == PeriodUs(sys)
           o == Us(sys.rwnd_offset_ms) % p
           i == PeriodId(sys, now)
           x == PeriodPosition(sys, now)
<1>1. p \in Nat /\ o \in Nat /\ i \in Nat /\ x \in Nat /\ x < p /\ now + p - o = i * p + x
  BY PeriodParts
<1>2. b + p - o = (id + 1) * p
  BY DEF Ends
<1> HIDE DEF p, o, i, x
<1>3. (id + 1) * p = id * p + p /\ id * p \in Nat /\ i * p \in Nat
  BY <1>1
<1>4. i = id => now < b
  BY <1>1, <1>2, <1>3
<1>5. i > id => now >= b
  <2> SUFFICES ASSUME i > id PROVE now >= b
    OBVIOUS
  <2>1. (id + 1) * p <= i * p
    BY <1>1, MulMono
  <2> QED BY <1>1, <1>2, <1>3, <2>1
<1> QED BY <1>4, <1>5 DEF i

\* Time does not lead back into an earlier period.
LEMMA PeriodMono ==
  ASSUME NEW sys \in Sysctls, NEW t \in Nat, NEW u \in Nat, t <= u
  PROVE  PeriodId(sys, t) <= PeriodId(sys, u)
<1>1. CASE PeriodUs(sys) = 0
  BY <1>1 DEF PeriodId
<1>2. CASE PeriodUs(sys) # 0
  <2> DEFINE p == PeriodUs(sys)
             o == Us(sys.rwnd_offset_ms) % p
             a == t + p - o
             b == u + p - o
  <2>1. p \in Nat \ {0} /\ o \in Nat /\ o < p
    BY <1>2, PeriodParts
  <2>2. PeriodId(sys, t) = a \div p /\ PeriodId(sys, u) = b \div p
    BY <1>2 DEF PeriodId, Shifted
  <2> HIDE DEF p, o
  <2>3. a \in Nat /\ b \in Nat /\ a <= b
    BY <2>1
  <2> HIDE DEF a, b
  <2> QED BY <2>1, <2>2, <2>3, DivMono
<1> QED BY <1>1, <1>2

-----------------------------------------------------------------------------
(* The invariant of the cycles *)

\* The frozen cycle is one that has begun; its boundary is the end of its
\* period; its ramp started after that; and a released cycle is over.
CycleOK(s, sys, now, b) ==
    /\ s.frozen => /\ PeriodUs(sys) # 0 /\ s.frozen_period_id <= PeriodId(sys, now)
                   /\ Ends(sys, b, s.frozen_period_id)
    /\ s.frozen /\ s.recovery_started =>
         s.recovery_start_real_us <= now /\ s.frozen_period_id < PeriodId(sys, now)
    /\ ~s.frozen /\ s.frozen_period_id # 0 => s.frozen_period_id < PeriodId(sys, now)

\* A snapshot that is not held any more is one of a past period.
LEMMA ReleasedIsPast ==
  ASSUME NEW k \in LeoStates, NEW sys \in Sysctls, NEW in \in Inputs, NEW b,
         CycleOK(k, sys, in.real, b), ~Holds(k, sys, in), k.frozen_period_id # 0
  PROVE  k.frozen_period_id < PeriodId(sys, in.real)
<1>0. in.real \in Nat /\ k.frozen_period_id \in Nat
  BY WidthAssumption DEF Inputs, LeoStates
<1>1. PeriodId(sys, in.real) \in Nat
  BY <1>0, PeriodNat
<1>2. CASE ~k.frozen
  BY <1>2 DEF CycleOK
<1>3. CASE k.frozen /\ k.recovery_started
  BY <1>3 DEF CycleOK
<1>4. CASE k.frozen /\ ~k.recovery_started
  <2>1. PeriodId(sys, in.real) # k.frozen_period_id
    BY <1>4 DEF Holds, ReleaseDue
  <2>2. k.frozen_period_id <= PeriodId(sys, in.real)
    BY <1>4 DEF CycleOK
  <2> QED BY <1>0, <1>1, <2>1, <2>2
<1> QED BY <1>2, <1>3, <1>4

\* leo_phase: the window is held down only in the period of the snapshot, and
\* ramps only in a later one.
LEMMA PhasePeriod ==
  ASSUME NEW d, NEW sys, NEW now
  PROVE  /\ PhaseOf(d, sys, now).phase \in Controlled =>
              d.frozen /\ PeriodUs(sys) # 0 /\ PeriodId(sys, now) = d.frozen_period_id
         /\ PhaseOf(d, sys, now).phase = RECOVERY =>
              d.frozen /\ PeriodUs(sys) # 0 /\ InRecovery(d, sys, now)
<1>1. CASE ~d.frozen \/ PeriodUs(sys) = 0
  BY <1>1 DEF PhaseOf, NORMAL, Controlled, PRE, DRAIN, OUTAGE, RECOVERY
<1>2. CASE ~(~d.frozen \/ PeriodUs(sys) = 0)
  <2>1. CASE PeriodId(sys, now) = d.frozen_period_id
    <3>1. PhaseOf(d, sys, now) = ScheduledPhase(d, sys, PeriodPosition(sys, now))
      BY <1>2, <2>1 DEF PhaseOf
    <3>2. ScheduledPhase(d, sys, PeriodPosition(sys, now)).phase # RECOVERY
      BY DEF ScheduledPhase, NORMAL, PRE, DRAIN, OUTAGE, RECOVERY
    <3> QED BY <1>2, <2>1, <3>1, <3>2
  <2>2. CASE PeriodId(sys, now) # d.frozen_period_id /\ InRecovery(d, sys, now)
    <3>1. PhaseOf(d, sys, now) = RecoveryPhase(d, now)
      BY <1>2, <2>2 DEF PhaseOf
    <3>2. RecoveryPhase(d, now).phase \in {RECOVERY, NORMAL}
      BY DEF RecoveryPhase
    <3> QED BY <1>2, <2>2, <3>1, <3>2 DEF Controlled, NORMAL, PRE, DRAIN, OUTAGE, RECOVERY
  <2>3. CASE PeriodId(sys, now) # d.frozen_period_id /\ ~InRecovery(d, sys, now)
    BY <1>2, <2>3 DEF PhaseOf, NORMAL, Controlled, PRE, DRAIN, OUTAGE, RECOVERY
  <2> QED BY <2>1, <2>2, <2>3
<1> QED BY <1>1, <1>2

\* What a call leaves behind is a cycle of the current period, or one whose
\* ramp is running.
Fresh(s, sys, now) ==
    s.frozen => \/ PeriodId(sys, now) = s.frozen_period_id
                \/ /\ PeriodId(sys, now) > s.frozen_period_id /\ s.recovery_started
                   /\ now - s.recovery_start_real_us < s.frozen_recovery_us

\* A controlled call keeps the invariant of the cycles.
LEMMA CallKeepsCycle ==
  ASSUME NEW s \in LeoStates, NEW sys \in Sysctls, NEW in \in Inputs, MeasuredBefore(s, in),
         NEW b \in Nat, CycleOK(s, sys, in.real, b)
  PROVE  LET res == DynamicTarget(s, sys, in)
             n   == res.st
             e   == IF res.froze THEN in.real + PeriodUs(sys) - PeriodPosition(sys, in.real)
                    ELSE b
         IN  /\ CycleOK(n, sys, in.real, e) /\ Fresh(n, sys, in.real)
             /\ n.current_phase \in Controlled => in.real < e
             /\ n.current_phase = RECOVERY => in.real >= e
             /\ res.froze /\ s.initialized /\ s.frozen_period_id # 0
                  => n.frozen_period_id > s.frozen_period_id
<1> DEFINE k   == Known(s, sys, in)
           d   == MaybeFreeze(k, sys, in)
           r   == StartRecovery(d, sys, in.real)
           res == DynamicTarget(s, sys, in)
           n   == res.st
           ph  == PhaseOf(d, sys, in.real).phase
           id  == PeriodId(sys, in.real)
           end == in.real + PeriodUs(sys) - PeriodPosition(sys, in.real)
           e   == IF res.froze THEN end ELSE b
<1>1. /\ k \in LeoStates /\ d \in LeoStates /\ r \in LeoStates /\ n \in LeoStates
      /\ SameCycle(n, d) /\ n.initialized
      /\ n.recovery_started = r.recovery_started
      /\ n.recovery_start_real_us = r.recovery_start_real_us
      /\ n.current_phase = ph
      /\ s.initialized => k = s
      /\ ~s.initialized => /\ ~k.frozen /\ ~k.recovery_started
                           /\ k.frozen_period_id = 0 /\ k.frozen_min_rwnd = 0
      /\ res.froze = Freezes(k, sys, in)
  BY CallCycle
<1>2. in.real \in Nat /\ in.real \in 0..(U64Range - 1)
  BY WidthAssumption DEF Inputs
<1>3. id \in Nat
  BY <1>2, PeriodNat
<1>4. CycleOK(k, sys, in.real, b)
  BY <1>1 DEF CycleOK
<1>5. /\ ph \in Controlled => d.frozen /\ PeriodUs(sys) # 0 /\ id = d.frozen_period_id
      /\ ph = RECOVERY => d.frozen /\ PeriodUs(sys) # 0 /\ id > d.frozen_period_id
  <2>1. InRecovery(d, sys, in.real) => id > d.frozen_period_id
    BY DEF InRecovery
  <2> QED BY <2>1, PhasePeriod
<1>6. /\ n.frozen = d.frozen /\ n.frozen_period_id = d.frozen_period_id
      /\ n.frozen_recovery_us = d.frozen_recovery_us
  BY <1>1 DEF SameCycle, FrozenParams
<1>7. /\ k.frozen_period_id \in Nat /\ d.frozen_period_id \in Nat
      /\ k.frozen_recovery_us \in Nat /\ k.recovery_start_real_us \in Nat
  BY <1>1, WidthAssumption DEF LeoStates
<1>8. \/ PeriodUs(sys) = 0 /\ d = k /\ ~res.froze
      \/ /\ PeriodUs(sys) # 0 /\ res.froze /\ ~Holds(k, sys, in)
         /\ d.frozen /\ ~d.recovery_started /\ d.frozen_period_id = id
      \/ /\ PeriodUs(sys) # 0 /\ ~res.froze
         /\ d.frozen = Holds(k, sys, in) /\ FrozenParams(d) = FrozenParams(k)
         /\ d.recovery_started = k.recovery_started
         /\ d.recovery_start_real_us = k.recovery_start_real_us
  BY <1>1, FreezeCases
<1>9. /\ ~Holds(k, sys, in) /\ k.frozen_period_id # 0 => k.frozen_period_id < id
  BY <1>1, <1>4, ReleasedIsPast
<1>10. r = IF d.frozen /\ PeriodUs(sys) # 0 /\ InRecovery(d, sys, in.real) /\ ~d.recovery_started
           THEN [d EXCEPT !.recovery_started = TRUE, !.recovery_start_real_us = in.real]
           ELSE d
  BY DEF StartRecovery
<1> HIDE DEF k, d, r, res, n, ph, id
<1> SUFFICES /\ CycleOK(n, sys, in.real, e) /\ Fresh(n, sys, in.real)
             /\ n.current_phase \in Controlled => in.real < e
             /\ n.current_phase = RECOVERY => in.real >= e
             /\ res.froze /\ s.initialized /\ s.frozen_period_id # 0
                  => n.frozen_period_id > s.frozen_period_id
  BY DEF n, res
<1>a. InRecovery(d, sys, in.real) <=> d.frozen_recovery_us # 0 /\ id > d.frozen_period_id
  BY DEF InRecovery, id
<1>11. CASE PeriodUs(sys) = 0 /\ d = k /\ ~res.froze
  <2>1. ~n.frozen
    BY <1>4, <1>6, <1>11 DEF CycleOK
  <2>2. n.frozen_period_id # 0 => n.frozen_period_id < id
    BY <1>4, <1>6, <1>11, <2>1 DEF CycleOK, id
  <2>3. n.current_phase \notin Controlled /\ n.current_phase # RECOVERY
    BY <1>1, <1>5, <1>11
  <2> QED BY <1>11, <2>1, <2>2, <2>3 DEF CycleOK, Fresh, id
<1>12. CASE /\ PeriodUs(sys) # 0 /\ res.froze /\ ~Holds(k, sys, in)
            /\ d.frozen /\ ~d.recovery_started /\ d.frozen_period_id = id
  <2>1. r = d
    BY <1>3, <1>10, <1>12, <1>a
  <2>2. n.frozen /\ ~n.recovery_started /\ n.frozen_period_id = id
    BY <1>1, <1>6, <1>12, <2>1
  <2>3. Ends(sys, end, id) /\ e = end /\ end \in Nat
    <3>1. Ends(sys, end, id)
      BY <1>2, <1>12, EndOfPeriod DEF id
    <3>2. PeriodUs(sys) \in Nat /\ PeriodPosition(sys, in.real) \in Nat
          /\ PeriodPosition(sys, in.real) < PeriodUs(sys)
      BY <1>2, <1>12, PeriodNat
    <3> QED BY <1>2, <1>12, <3>1, <3>2
  <2>4. CycleOK(n, sys, in.real, e)
    BY <1>3, <1>12, <2>2, <2>3 DEF CycleOK, id
  <2>5. Fresh(n, sys, in.real)
    BY <2>2 DEF Fresh, id
  <2>6. in.real < e
    BY <1>2, <1>3, <1>12, <2>3, BeforeEnd DEF id
  <2>7. n.current_phase # RECOVERY
    BY <1>1, <1>3, <1>5, <1>12
  <2>8. s.initialized /\ s.frozen_period_id # 0 => n.frozen_period_id > s.frozen_period_id
    BY <1>1, <1>3, <1>7, <1>9, <1>12, <2>2
  <2> QED BY <2>4, <2>5, <2>6, <2>7, <2>8
<1>13. CASE /\ PeriodUs(sys) # 0 /\ ~res.froze
            /\ d.frozen = Holds(k, sys, in) /\ FrozenParams(d) = FrozenParams(k)
            /\ d.recovery_started = k.recovery_started
            /\ d.recovery_start_real_us = k.recovery_start_real_us
  <2>0. /\ d.frozen_period_id = k.frozen_period_id
        /\ d.frozen_recovery_us = k.frozen_recovery_us /\ e = b
    BY <1>13 DEF FrozenParams
  <2>1. CASE ~Holds(k, sys, in)
    <3>1. ~n.frozen /\ n.frozen_period_id = k.frozen_period_id
      BY <1>6, <1>13, <2>0, <2>1
    <3>2. n.frozen_period_id # 0 => n.frozen_period_id < id
      BY <1>9, <2>1, <3>1
    <3>3. n.current_phase \notin Controlled /\ n.current_phase # RECOVERY
      BY <1>1, <1>5, <1>13, <2>1
    <3> QED BY <1>13, <3>1, <3>2, <3>3 DEF CycleOK, Fresh, id
  <2>2. CASE Holds(k, sys, in)
    <3>1. k.frozen /\ ~ReleaseDue(k, sys, in)
      BY <2>2 DEF Holds
    <3>2. /\ k.frozen_period_id <= id /\ Ends(sys, b, k.frozen_period_id)
          /\ k.recovery_started =>
               k.recovery_start_real_us <= in.real /\ k.frozen_period_id < id
      BY <1>4, <3>1 DEF CycleOK, id
    <3>3. n.frozen /\ n.frozen_period_id = k.frozen_period_id
          /\ n.frozen_recovery_us = k.frozen_recovery_us
      BY <1>6, <1>13, <2>0, <2>2
    <3>4. /\ k.frozen_period_id = id => in.real < b
          /\ id > k.frozen_period_id => in.real >= b
      BY <1>2, <1>7, <1>13, <3>2, BeforeEnd DEF id
    <3>5. /\ n.current_phase \in Controlled => in.real < e
          /\ n.current_phase = RECOVERY => in.real >= e
      BY <1>1, <1>5, <2>0, <3>4
    <3>6. CASE k.frozen_period_id = id
      <4>1. ~k.recovery_started
        BY <1>3, <1>7, <3>2, <3>6
      <4>2. r = d
        BY <1>3, <1>10, <1>a, <2>0, <3>6
      <4>3. ~n.recovery_started
        BY <1>1, <1>13, <4>1, <4>2
      <4>4. CycleOK(n, sys, in.real, e)
        BY <1>13, <2>0, <3>2, <3>3, <4>3 DEF CycleOK, id
      <4> QED BY <1>13, <3>3, <3>5, <3>6, <4>4 DEF Fresh, id
    <3>7. CASE k.frozen_period_id < id
      <4>1. k.frozen_recovery_us # 0
        BY <1>3, <1>7, <3>1, <3>7 DEF ReleaseDue, id
      <4>2. InRecovery(d, sys, in.real) /\ d.frozen
        BY <1>7, <1>13, <1>a, <1>3, <2>0, <2>2, <3>7, <4>1
      <4>3. /\ n.recovery_started /\ n.recovery_start_real_us \in Nat
            /\ n.recovery_start_real_us <= in.real
            /\ in.real - n.recovery_start_real_us < k.frozen_recovery_us
        <5>1. CASE k.recovery_started
          <6>1. r = d
            BY <1>10, <1>13, <5>1
          <6>2. n.recovery_started /\ n.recovery_start_real_us = k.recovery_start_real_us
            BY <1>1, <1>13, <5>1, <6>1
          <6>3. U64Sub(in.real, k.recovery_start_real_us) = in.real - k.recovery_start_real_us
            BY <1>2, <1>7, <3>2, <5>1 DEF U64Sub
          <6>4. ~(U64Sub(in.real, k.recovery_start_real_us) >= k.frozen_recovery_us)
            BY <3>1, <5>1 DEF ReleaseDue
          <6> QED BY <1>2, <1>7, <3>2, <5>1, <6>2, <6>3, <6>4
        <5>2. CASE ~k.recovery_started
          <6>1. r = [d EXCEPT !.recovery_started = TRUE, !.recovery_start_real_us = in.real]
            BY <1>10, <1>13, <4>2, <5>2
          <6>2. r.recovery_started /\ r.recovery_start_real_us = in.real
            BY <1>1, <6>1 DEF LeoStates
          <6> QED BY <1>1, <1>2, <1>7, <4>1, <6>2
        <5> QED BY <5>1, <5>2
      <4>4. CycleOK(n, sys, in.real, e)
        BY <1>13, <2>0, <3>2, <3>3, <3>7, <4>3 DEF CycleOK, id
      <4>5. Fresh(n, sys, in.real)
        BY <1>3, <1>7, <3>3, <3>7, <4>3 DEF Fresh, id
      <4> QED BY <1>13, <3>5, <4>4, <4>5
    <3> QED BY <1>3, <1>7, <3>2, <3>6, <3>7
  <2> QED BY <2>1, <2>2
<1> QED BY <1>8, <1>11, <1>12, <1>13

\* Nobody sets the wall clock or moves the predicted handovers.
Steady ==
    /\ ClockSets = {}
    /\ \A w \in SysctlWrites : w[1] \notin {"rwnd_period_ms", "rwnd_offset_ms"}

CycleInv ==
    /\ IInv
    /\ CycleOK(st, sysctl, real, boundary)
    /\ NoStaleSnapshot
    /\ ControlEndsByBoundary

\* The three properties look at settings that do not change.
LEMMA SamePeriods ==
  ASSUME NEW a, NEW b, a.rwnd_period_ms = b.rwnd_period_ms, a.rwnd_offset_ms = b.rwnd_offset_ms
  PROVE  /\ PeriodUs(a) = PeriodUs(b) /\ \A t : PeriodId(a, t) = PeriodId(b, t)
         /\ \A e, i : Ends(a, e, i) <=> Ends(b, e, i)
BY DEF PeriodUs, PeriodId, Shifted, Ends

\* A step that is no call: time passes, or something else changes.
LEMMA QuietCycle ==
  ASSUME CycleInv, UNCHANGED <<st, call, boundary>>, real' \in Nat, real <= real',
         sysctl' \in Sysctls,
         sysctl'.rwnd_period_ms = sysctl.rwnd_period_ms,
         sysctl'.rwnd_offset_ms = sysctl.rwnd_offset_ms
  PROVE  CycleOK(st, sysctl, real, boundary)' /\ NoStaleSnapshot' /\ ControlEndsByBoundary'
<1>1. /\ st \in LeoStates /\ sysctl \in Sysctls /\ real \in Nat
  BY WidthAssumption DEF CycleInv, IInv, TypeOK
<1>2. /\ PeriodUs(sysctl') = PeriodUs(sysctl)
      /\ \A t : PeriodId(sysctl', t) = PeriodId(sysctl, t)
      /\ \A e, i : Ends(sysctl', e, i) <=> Ends(sysctl, e, i)
  BY SamePeriods
<1>3. /\ PeriodId(sysctl, real) <= PeriodId(sysctl, real')
      /\ PeriodId(sysctl, real) \in Nat /\ PeriodId(sysctl, real') \in Nat
  BY <1>1, PeriodMono, PeriodNat
<1>4. st.frozen_period_id \in Nat /\ st.recovery_start_real_us \in Nat
  BY <1>1, WidthAssumption DEF LeoStates
<1>5. CycleOK(st, sysctl, real, boundary)
  BY DEF CycleInv
<1>6. CycleOK(st, sysctl', real', boundary)
  <2>1. st.frozen => /\ PeriodUs(sysctl') # 0
                     /\ st.frozen_period_id <= PeriodId(sysctl', real')
                     /\ Ends(sysctl', boundary, st.frozen_period_id)
    BY <1>2, <1>3, <1>4, <1>5 DEF CycleOK
  <2>2. st.frozen /\ st.recovery_started =>
          st.recovery_start_real_us <= real' /\ st.frozen_period_id < PeriodId(sysctl', real')
    BY <1>1, <1>2, <1>3, <1>4, <1>5 DEF CycleOK
  <2>3. ~st.frozen /\ st.frozen_period_id # 0 => st.frozen_period_id < PeriodId(sysctl', real')
    BY <1>2, <1>3, <1>4, <1>5 DEF CycleOK
  <2> QED BY <2>1, <2>2, <2>3 DEF CycleOK
<1>7. NoStaleSnapshot'
  BY <1>2 DEF CycleInv, NoStaleSnapshot
<1>8. ControlEndsByBoundary'
  BY DEF CycleInv, ControlEndsByBoundary
<1> QED BY <1>6, <1>7, <1>8

\* What one call does, from the invariant
LEMMA CallStep ==
  ASSUME CycleInv, NEW normal \in Nat, NEW rtt \in Nat, NEW mss \in Nat,
         Control(normal, rtt, mss)
  PROVE  /\ CycleOK(st, sysctl, real, boundary)' /\ NoStaleSnapshot' /\ ControlEndsByBoundary'
         /\ call'.froze /\ st.initialized /\ st.frozen_period_id # 0
              => st'.frozen_period_id > st.frozen_period_id
<1> DEFINE in  == Input(normal, rtt, mss)
           res == DynamicTarget(st, sysctl, in)
           e   == IF res.froze THEN in.real + PeriodUs(sysctl) - PeriodPosition(sysctl, in.real)
                  ELSE boundary
<1>1. in \in Inputs
  BY DEF Input, Inputs, CycleInv, IInv, TypeOK
<1>2. in.real = real /\ in.bytes = bytes /\ in.mono = mono
  BY DEF Input
<1>3. /\ st' = res.st /\ boundary' = e /\ real' = real /\ sysctl' = sysctl
      /\ call'.ran /\ call'.real = real /\ call'.froze = res.froze
  BY <1>2 DEF Control, settings
<1>4. /\ st \in LeoStates /\ sysctl \in Sysctls /\ boundary \in Nat
      /\ MeasuredBefore(st, in) /\ CycleOK(st, sysctl, in.real, boundary)
  BY <1>2 DEF CycleInv, IInv, TypeOK, MeasuredPast, MeasuredBefore
<1> HIDE DEF in
<1>5. /\ CycleOK(res.st, sysctl, in.real, e) /\ Fresh(res.st, sysctl, in.real)
      /\ res.st.current_phase \in Controlled => in.real < e
      /\ res.st.current_phase = RECOVERY => in.real >= e
      /\ res.froze /\ st.initialized /\ st.frozen_period_id # 0
           => res.st.frozen_period_id > st.frozen_period_id
  BY <1>1, <1>4, CallKeepsCycle
<1> HIDE DEF res, e
<1>6. CycleOK(st', sysctl', real', boundary')
  BY <1>2, <1>3, <1>5
<1>7. NoStaleSnapshot'
  BY <1>2, <1>3, <1>5 DEF NoStaleSnapshot, Fresh
<1>8. ControlEndsByBoundary'
  BY <1>2, <1>3, <1>5 DEF ControlEndsByBoundary
<1>9. call'.froze /\ st.initialized /\ st.frozen_period_id # 0
        => st'.frozen_period_id > st.frozen_period_id
  BY <1>3, <1>5
<1> QED BY <1>6, <1>7, <1>8, <1>9

\* No step breaks the cycle invariant while period, offset and clock are left alone.
LEMMA CycleNext ==
  ASSUME Steady, CycleInv, [Next]_vars
  PROVE  CycleInv'
<1>0. IInv /\ IInv'
  BY NextIInv DEF CycleInv
<1>a. real \in Nat /\ real' \in Nat /\ sysctl \in Sysctls /\ sysctl' \in Sysctls
  BY <1>0, WidthAssumption DEF IInv, TypeOK
<1> SUFFICES CycleOK(st, sysctl, real, boundary)' /\ NoStaleSnapshot' /\ ControlEndsByBoundary'
  BY <1>0 DEF CycleInv
<1>1. ASSUME NEW d \in TickSizes, Tick(d)
      PROVE  CycleOK(st, sysctl, real, boundary)' /\ NoStaleSnapshot' /\ ControlEndsByBoundary'
  <2>1. d \in Nat
    BY ClockAssumption
  <2>2. UNCHANGED <<st, call, boundary, sysctl>> /\ real <= real'
    BY <1>1, <1>a, <2>1 DEF Tick, settings
  <2> QED BY <1>a, <2>2, QuietCycle
<1>2. ASSUME NEW n \in SegmentSizes, Receive(n)
      PROVE  CycleOK(st, sysctl, real, boundary)' /\ NoStaleSnapshot' /\ ControlEndsByBoundary'
  <2>1. UNCHANGED <<st, call, boundary, sysctl, real>>
    BY <1>2 DEF Receive, settings
  <2> QED BY <1>a, <2>1, QuietCycle
<1>3. ASSUME NEW w \in SysctlWrites, WriteSysctl(w[1], w[2])
      PROVE  CycleOK(st, sysctl, real, boundary)' /\ NoStaleSnapshot' /\ ControlEndsByBoundary'
  <2>1. UNCHANGED <<st, call, boundary, real>> /\ sysctl' = [sysctl EXCEPT ![w[1]] = w[2]]
    BY <1>3 DEF WriteSysctl
  <2>2. w[1] # "rwnd_period_ms" /\ w[1] # "rwnd_offset_ms"
    BY DEF Steady
  <2>3. "rwnd_period_ms" \in SysctlNames /\ "rwnd_offset_ms" \in SysctlNames
    BY DEF SysctlNames, AtLeastOne, AtLeastZero
  <2>4. /\ sysctl'.rwnd_period_ms = sysctl.rwnd_period_ms
        /\ sysctl'.rwnd_offset_ms = sysctl.rwnd_offset_ms
    BY <1>a, <2>1, <2>2, <2>3 DEF Sysctls
  <2> QED BY <1>a, <2>1, <2>4, QuietCycle
<1>4. ASSUME NEW w \in PortWrites, WritePort(w[1], w[2])
      PROVE  CycleOK(st, sysctl, real, boundary)' /\ NoStaleSnapshot' /\ ControlEndsByBoundary'
  <2>1. UNCHANGED <<st, call, boundary, sysctl, real>>
    BY <1>4 DEF WritePort
  <2> QED BY <1>a, <2>1, QuietCycle
<1>5. ASSUME NEW normal \in NormalWindows, PassThrough(normal)
      PROVE  CycleOK(st, sysctl, real, boundary)' /\ NoStaleSnapshot' /\ ControlEndsByBoundary'
  <2>1. UNCHANGED <<st, boundary, sysctl, real>> /\ ~call'.ran
    BY <1>5 DEF PassThrough, settings
  <2> QED BY <2>1 DEF CycleInv, NoStaleSnapshot, ControlEndsByBoundary
<1>6. ASSUME NEW normal \in NormalWindows, NEW rtt \in RcvRtts, NEW mss \in RcvMsses,
             Control(normal, rtt, mss)
      PROVE  CycleOK(st, sysctl, real, boundary)' /\ NoStaleSnapshot' /\ ControlEndsByBoundary'
  <2>1. normal \in Nat /\ rtt \in Nat /\ mss \in Nat
    BY InputAssumption, WidthAssumption
  <2> QED BY <1>6, <2>1, CallStep
<1>7. CASE UNCHANGED vars
  <2>1. UNCHANGED <<st, call, boundary, sysctl, real>>
    BY <1>7 DEF vars
  <2> QED BY <1>a, <2>1, QuietCycle
<1>8. ~\E t \in ClockSets : SetClock(t)
  BY DEF Steady
<1> QED BY <1>1, <1>2, <1>3, <1>4, <1>5, <1>6, <1>7, <1>8 DEF Next

\* The cycles are well formed in every reachable state.
LEMMA CycleInvariance ==
  ASSUME Steady
  PROVE  Spec => []CycleInv
<1>1. Init => CycleInv
  <2> SUFFICES ASSUME Init PROVE CycleInv
    OBVIOUS
  <2>1. /\ ~st.frozen /\ st.frozen_period_id = 0 /\ ~call.ran
    BY DEF Init, NewState
  <2> QED BY <2>1, InitIInv DEF CycleInv, CycleOK, NoStaleSnapshot, ControlEndsByBoundary
<1>2. CycleInv /\ [Next]_vars => CycleInv'
  BY CycleNext
<1> QED BY <1>1, <1>2, PTL DEF Spec

\* leo_maybe_freeze: while nobody sets the clock or moves the handovers, a
\* call never leaves a snapshot of a past cycle behind, except with its ramp
\* running; switching the controller off and on in between does not matter.
THEOREM SnapshotNeverStale ==
  ASSUME Steady
  PROVE  Spec => []NoStaleSnapshot
<1>1. CycleInv => NoStaleSnapshot
  BY DEF CycleInv
<1> QED BY <1>1, CycleInvariance, PTL

\* leo_phase: the window is held down only before the predicted boundary, and
\* the ramp starts only at or after it.
THEOREM ControlEndsInTime ==
  ASSUME Steady
  PROVE  Spec => []ControlEndsByBoundary
<1>1. CycleInv => ControlEndsByBoundary
  BY DEF CycleInv
<1> QED BY <1>1, CycleInvariance, PTL

\* leo_maybe_freeze: no handover is prepared for twice, and none that lies
\* behind an earlier one.
THEOREM CyclesOnlyAdvance ==
  ASSUME Steady
  PROVE  Spec => CyclesAdvance
<1> DEFINE Advance == st' # st /\ call'.froze => \/ ~st.initialized
                                                \/ st.frozen_period_id = 0
                                                \/ st'.frozen_period_id > st.frozen_period_id
<1>1. CycleInv /\ [Next]_vars => [Advance]_vars
  <2> SUFFICES ASSUME CycleInv, [Next]_vars, st' # st PROVE Advance
    OBVIOUS
  <2>1. PICK normal \in NormalWindows, rtt \in RcvRtts, mss \in RcvMsses :
           Control(normal, rtt, mss)
    BY OnlyControlWrites
  <2>2. normal \in Nat /\ rtt \in Nat /\ mss \in Nat
    BY InputAssumption, WidthAssumption
  <2>3. call'.froze /\ st.initialized /\ st.frozen_period_id # 0
          => st'.frozen_period_id > st.frozen_period_id
    BY <2>1, <2>2, CallStep
  <2> QED BY <2>3
<1> QED BY <1>1, CycleInvariance, PTL DEF Spec, CyclesAdvance

-----------------------------------------------------------------------------
(* Within a cycle the window falls, and then rises.                        *)

\* A larger share of the same quantity.
LEMMA ShareMono ==
  ASSUME NEW a \in Nat, NEW x \in Nat, NEW y \in Nat, NEW c \in Nat \ {0}, x <= y
  PROVE  (a * MinOf(x, c)) \div c <= (a * MinOf(y, c)) \div c
<1> DEFINE u == MinOf(x, c)
           v == MinOf(y, c)
<1>1. u \in Nat /\ v \in Nat /\ u <= v
  BY DEF MinOf
<1> HIDE DEF u, v
<1>2. u * a <= v * a
  BY <1>1, MulMono
<1>3. a * u = u * a /\ a * v = v * a /\ u * a \in Nat /\ v * a \in Nat
  BY <1>1, MulNat
<1>4. (u * a) \div c <= (v * a) \div c
  BY <1>2, <1>3, DivMono
<1> QED BY <1>3, <1>4 DEF u, v

\* leo_pre_target: more time and more data lower the window.
LEMMA PreFalls ==
  ASSUME NEW s \in LeoStates, NEW q \in 0..(U32Range - 1), NEW r \in 0..(U32Range - 1),
         NEW e \in Nat, NEW f \in Nat, s.pre_started, AboveFloor(s),
         Received(s, q) <= Received(s, r), e <= f
  PROVE  PreTarget(s, r, f) <= PreTarget(s, q, e)
<1> DEFINE delta == s.frozen_pre_start_wnd - s.frozen_min_rwnd
           P(x) == (delta * MinOf(x, s.frozen_pre_us)) \div s.frozen_pre_us
           pe == P(e)
           pf == P(f)
<1>1. /\ s.frozen_pre_start_wnd \in Nat /\ s.frozen_min_rwnd \in Nat
      /\ s.frozen_pre_us \in Nat /\ s.frozen_min_rwnd <= s.frozen_pre_start_wnd
  BY DEF LeoStates, AboveFloor
<1>2. Received(s, q) \in Nat /\ Received(s, r) \in Nat
  BY WidthAssumption DEF Received, U32Sub, LeoStates
<1>3. delta \in Nat
  BY <1>1
<1>4. s.frozen_pre_us # 0 => pe \in Nat /\ pf \in Nat /\ pe <= pf
  <2> HIDE DEF delta
  <2>1. MinOf(e, s.frozen_pre_us) \in Nat /\ MinOf(f, s.frozen_pre_us) \in Nat
    BY <1>1 DEF MinOf
  <2>2. s.frozen_pre_us # 0 => pe \in Nat /\ pf \in Nat
    BY <1>1, <1>3, <2>1, ShareNat
  <2>3. s.frozen_pre_us # 0 => pe <= pf
    BY <1>1, <1>3, ShareMono
  <2> QED BY <2>2, <2>3
<1>5. /\ PreTarget(s, q, e) = IF delta <= 0 THEN s.frozen_min_rwnd
           ELSE IF s.frozen_pre_us = 0 THEN s.frozen_pre_start_wnd
           ELSE s.frozen_pre_start_wnd - MinOf(MinOf(pe, Received(s, q)), delta)
      /\ PreTarget(s, r, f) = IF delta <= 0 THEN s.frozen_min_rwnd
           ELSE IF s.frozen_pre_us = 0 THEN s.frozen_pre_start_wnd
           ELSE s.frozen_pre_start_wnd - MinOf(MinOf(pf, Received(s, r)), delta)
  BY DEF PreTarget
<1> HIDE DEF pe, pf
<1> QED  BY <1>1, <1>2, <1>3, <1>4, <1>5 DEF MinOf

\* leo_safe_target: more data lowers the window, and what was planned before
\* does not take it further down.
LEMMA SafeFalls ==
  ASSUME NEW s \in LeoStates, NEW q \in 0..(U32Range - 1), NEW r \in 0..(U32Range - 1),
         NEW e \in Nat, s.pre_started, AboveFloor(s), Received(s, q) <= Received(s, r)
  PROVE  /\ SafeTarget(s, r, s.frozen_min_rwnd) <= SafeTarget(s, q, s.frozen_min_rwnd)
         /\ SafeTarget(s, r, s.frozen_min_rwnd) <= PreTarget(s, q, e)
<1> DEFINE delta == s.frozen_pre_start_wnd - s.frozen_min_rwnd
           t == SafeTarget(s, r, s.frozen_min_rwnd)
<1>1. /\ s.frozen_pre_start_wnd \in Nat /\ s.frozen_min_rwnd \in Nat
      /\ s.frozen_min_rwnd <= s.frozen_pre_start_wnd
  BY DEF LeoStates, AboveFloor
<1>2. Received(s, q) \in Nat /\ Received(s, r) \in Nat
  BY WidthAssumption DEF Received, U32Sub, LeoStates
<1>3. t <= SafeTarget(s, q, s.frozen_min_rwnd)
  BY <1>1, <1>2 DEF SafeTarget, U32Sub, MinOf, MaxOf
<1>4. t = s.frozen_pre_start_wnd - MinOf(Received(s, r), delta)
  BY <1>1, <1>2 DEF SafeTarget, U32Sub, MinOf, MaxOf
<1>5. /\ PreTarget(s, q, e) \in Nat /\ s.frozen_min_rwnd <= PreTarget(s, q, e)
      /\ PreTarget(s, q, e) + Received(s, q) >= s.frozen_pre_start_wnd
  BY PreTargetBounds
<1> HIDE DEF t
<1>6. t <= PreTarget(s, q, e)
  BY <1>1, <1>2, <1>4, <1>5 DEF MinOf
<1> QED BY <1>3, <1>6 DEF t

\* leo_recovery_target: the ramp only rises.
LEMMA RampRises ==
  ASSUME NEW s \in LeoStates, NEW n \in Nat, NEW e \in Nat, NEW f \in Nat, e <= f
  PROVE  RecoveryTarget(s, n, e) <= RecoveryTarget(s, n, f)
<1> DEFINE end == MaxOf(MinOf(n, s.frozen_start_rwnd), s.frozen_min_rwnd)
           delta == end - s.frozen_min_rwnd
           I(x) == (delta * MinOf(x, s.frozen_recovery_us)) \div s.frozen_recovery_us
           ie == I(e)
           jf == I(f)
<1>1. /\ s.frozen_start_rwnd \in Nat /\ s.frozen_min_rwnd \in Nat
      /\ s.frozen_recovery_us \in Nat
  BY DEF LeoStates
<1>2. end \in Nat /\ s.frozen_min_rwnd <= end
  BY <1>1 DEF MinOf, MaxOf
<1>3. /\ RecoveryTarget(s, n, e)
           = IF s.frozen_recovery_us = 0 \/ end <= s.frozen_min_rwnd THEN end
             ELSE s.frozen_min_rwnd + ie
      /\ RecoveryTarget(s, n, f)
           = IF s.frozen_recovery_us = 0 \/ end <= s.frozen_min_rwnd THEN end
             ELSE s.frozen_min_rwnd + jf
  BY DEF RecoveryTarget
<1> HIDE DEF end
<1>4. delta \in Nat
  BY <1>1, <1>2
<1>5. s.frozen_recovery_us # 0 => ie \in Nat /\ jf \in Nat /\ ie <= jf
  <2> HIDE DEF delta
  <2>1. MinOf(e, s.frozen_recovery_us) \in Nat /\ MinOf(f, s.frozen_recovery_us) \in Nat
    BY <1>1 DEF MinOf
  <2>2. s.frozen_recovery_us # 0 => ie \in Nat /\ jf \in Nat
    BY <1>1, <1>4, <2>1, ShareNat
  <2>3. s.frozen_recovery_us # 0 => ie <= jf
    BY <1>1, <1>4, ShareMono
  <2> QED BY <2>2, <2>3
<1> HIDE DEF ie, jf
<1> QED BY <1>1, <1>2, <1>3, <1>5

\* With the sequence number of the start, the bytes since a snapshot in order.
LEMMA ReceivedOrder ==
  ASSUME NEW x \in 0..(U32Range - 1), NEW i \in 0..(U32Range - 1), NEW a \in Nat, NEW b \in Nat,
         a <= b, b < U32Range, U32Sub(x, i) <= a
  PROVE  /\ U32Add(i, a) \in 0..(U32Range - 1) /\ U32Add(i, b) \in 0..(U32Range - 1)
         /\ U32Sub(U32Add(i, a), x) <= U32Sub(U32Add(i, b), x)
<1>1. U32Range \in Nat
  BY WidthAssumption
<1> QED BY <1>1 DEF U32Sub, U32Add

\* The sequence number of a byte.
LEMMA SeqOfBytes ==
  ASSUME NEW i \in 0..(U32Range - 1), NEW a \in Nat, NEW n \in Nat, a + n < U32Range
  PROVE  /\ U32Add(U32Add(i, a), n) = U32Add(i, a + n)
         /\ U32Sub(U32Add(i, a), i) = a
<1>1. U32Range \in Nat
  BY WidthAssumption
<1> QED BY <1>1 DEF U32Sub, U32Add

\* Within a period the position follows the clock.
LEMMA PositionOrder ==
  ASSUME NEW sys \in Sysctls, NEW t \in Nat, NEW u \in Nat, t <= u, PeriodUs(sys) # 0,
         PeriodId(sys, t) = PeriodId(sys, u)
  PROVE  /\ PeriodPosition(sys, t) \in Nat /\ PeriodPosition(sys, u) \in Nat
         /\ PeriodPosition(sys, t) <= PeriodPosition(sys, u)
<1> DEFINE o == Us(sys.rwnd_offset_ms) % PeriodUs(sys)
           p == PeriodUs(sys)
           m == PeriodId(sys, t) * PeriodUs(sys)
<1>1. /\ p \in Nat \ {0} /\ o \in Nat /\ PeriodId(sys, t) \in Nat
      /\ PeriodPosition(sys, t) \in Nat /\ PeriodPosition(sys, u) \in Nat
      /\ t + p - o = m + PeriodPosition(sys, t)
      /\ u + p - o = m + PeriodPosition(sys, u)
  BY PeriodParts
<1>2. m \in Nat
  BY <1>1, MulNat
<1> HIDE DEF o, p, m
<1> QED BY <1>1, <1>2

\* What a phase that reduces the window asks for.
ReducedTo(s, ph, rn) ==
    IF ph.phase = PRE THEN PreTarget(s, rn, ph.elapsed)
    ELSE SafeTarget(s, rn, s.frozen_min_rwnd)

\* The instants of a cycle depend on what is frozen and on the period.
LEMMA SameSchedule ==
  ASSUME NEW s, NEW t, NEW a, NEW b, FrozenParams(s) = FrozenParams(t),
         PeriodUs(a) = PeriodUs(b)
  PROVE  \A pos : ScheduledPhase(s, a, pos) = ScheduledPhase(t, b, pos)
<1>1. Schedule(s, a) = Schedule(t, b)
  BY DEF Schedule, FrozenParams
<1> QED BY <1>1 DEF ScheduledPhase

\* A call, seen from the window it returns: the phase it was in and the target
\* of that phase, computed from the state it leaves behind.
LEMMA CallWindow ==
  ASSUME NEW s \in LeoStates, NEW sys \in Sysctls, NEW in \in Inputs, MeasuredBefore(s, in)
  PROVE  LET res == DynamicTarget(s, sys, in)
             n   == res.st
             at  == ScheduledPhase(n, sys, PeriodPosition(sys, in.real))
         IN  /\ n.current_phase \in Controlled =>
                  /\ n.frozen /\ n.pre_started /\ PeriodUs(sys) # 0
                  /\ PeriodId(sys, in.real) = n.frozen_period_id
                  /\ at.phase = n.current_phase
                  /\ res.target = MinOf(ReducedTo(n, at, in.rcv_nxt), in.normal)
             /\ n.current_phase = RECOVERY =>
                  /\ n.frozen /\ n.recovery_started
                  /\ res.target = MinOf(RecoveryTarget(n, in.normal,
                                          U64Sub(in.real, n.recovery_start_real_us)), in.normal)
             /\ n.pre_started =>
                  \/ n.frozen_pre_start_rcv_nxt = in.rcv_nxt
                  \/ s.pre_started /\ n.frozen_pre_start_rcv_nxt = s.frozen_pre_start_rcv_nxt
<1> DEFINE k    == Known(s, sys, in)
           d    == MaybeFreeze(k, sys, in)
           ph   == PhaseOf(d, sys, in.real)
           r    == StartRecovery(d, sys, in.real)
           meas == NextMeasurement(r, sys, in, ph.phase)
           snap == TakeSnapshot(meas, in, s.current_phase, ph.phase)
           n    == [snap EXCEPT !.current_phase = ph.phase]
           takes == TakesSnapshot(meas, s.current_phase, ph.phase)
           tgt  == Target(n, in, ph)
           pos  == PeriodPosition(sys, in.real)
<1>1. DynamicTarget(s, sys, in).st = n /\ DynamicTarget(s, sys, in).target = tgt
  BY DEF DynamicTarget
<1>2. in.real \in 0..(U64Range - 1) /\ in.real \in Nat
  BY WidthAssumption DEF Inputs
<1>3. /\ k \in LeoStates /\ MeasuredBefore(k, in) /\ k.initialized
      /\ s.initialized => k = s
      /\ ~s.initialized => ~k.pre_started
  BY KnownState
<1> HIDE DEF k
<1>4. /\ d \in LeoStates /\ MeasuredBefore(d, in) /\ d.initialized
      /\ ~d.pre_started \/ ShrinkRef(d) = ShrinkRef(k)
  BY <1>3, MaybeFreezeState
<1> HIDE DEF d
<1>5. ph.phase \in Phases
  BY <1>2, <1>4, PhaseType
<1>6. /\ ph.phase \in Controlled =>
           /\ d.frozen /\ PeriodUs(sys) # 0 /\ PeriodId(sys, in.real) = d.frozen_period_id
      /\ ph.phase = RECOVERY => d.frozen /\ PeriodUs(sys) # 0 /\ InRecovery(d, sys, in.real)
  BY PhasePeriod
<1>7. ph.phase \in Controlled => ph = ScheduledPhase(d, sys, pos)
  BY <1>6 DEF PhaseOf
<1>8. ph.phase = RECOVERY =>
        /\ r.recovery_started
        /\ ph.elapsed = U64Sub(in.real, r.recovery_start_real_us)
  <2> SUFFICES ASSUME ph.phase = RECOVERY
               PROVE  r.recovery_started /\ ph.elapsed = U64Sub(in.real, r.recovery_start_real_us)
    OBVIOUS
  <2>1. d.frozen /\ PeriodUs(sys) # 0 /\ InRecovery(d, sys, in.real)
    BY <1>6
  <2>2. PeriodId(sys, in.real) # d.frozen_period_id
    <3>1. PeriodId(sys, in.real) \in Nat /\ d.frozen_period_id \in Nat
      BY <1>2, <1>4, PeriodNat DEF LeoStates
    <3> QED BY <2>1, <3>1 DEF InRecovery
  <2>3. ph = RecoveryPhase(d, in.real)
    BY <2>1, <2>2 DEF PhaseOf
  <2>4. ph.elapsed = IF d.recovery_started
                     THEN U64Sub(in.real, d.recovery_start_real_us) ELSE 0
    BY <2>3 DEF RecoveryPhase
  <2>5. CASE d.recovery_started
    <3>1. r = d
      BY <2>5 DEF StartRecovery
    <3> QED BY <2>4, <2>5, <3>1
  <2>6. CASE ~d.recovery_started
    <3>1. r = [d EXCEPT !.recovery_started = TRUE, !.recovery_start_real_us = in.real]
      BY <2>1, <2>6 DEF StartRecovery
    <3>2. r.recovery_started /\ r.recovery_start_real_us = in.real
      BY <1>4, <3>1 DEF LeoStates
    <3>3. U64Sub(in.real, in.real) = 0
      BY <1>2 DEF U64Sub
    <3> QED BY <2>4, <2>6, <3>2, <3>3
  <2> QED BY <2>5, <2>6
<1>9. /\ r \in LeoStates /\ MeasuredBefore(r, in)
      /\ ShrinkRef(r) = ShrinkRef(d) /\ SameCycle(r, d)
  BY <1>4, StartRecoveryState
<1> HIDE DEF ph, r, pos
<1>10. /\ meas \in LeoStates /\ MeasuredBefore(meas, in)
       /\ ShrinkRef(meas) = ShrinkRef(r) /\ SameCycle(meas, r)
       /\ meas.recovery_started = r.recovery_started
       /\ meas.recovery_start_real_us = r.recovery_start_real_us
  BY <1>9, NextMeasurementState
<1> HIDE DEF meas
<1>11. /\ snap \in LeoStates
       /\ ph.phase \in Controlled => snap.pre_started
       /\ SameCycle(snap, meas) /\ snap.recovery_started = meas.recovery_started
       /\ snap.recovery_start_real_us = meas.recovery_start_real_us
       /\ takes => snap.frozen_pre_start_rcv_nxt = in.rcv_nxt
       /\ ~takes => snap = meas
  BY <1>5, <1>10, TakeSnapshotState
<1> HIDE DEF snap, takes
<1>12. /\ n.current_phase = ph.phase /\ n.frozen = snap.frozen
       /\ ShrinkRef(n) = ShrinkRef(snap) /\ FrozenParams(n) = FrozenParams(snap)
       /\ n.recovery_started = snap.recovery_started
       /\ n.recovery_start_real_us = snap.recovery_start_real_us
  BY <1>11 DEF LeoStates, ShrinkRef, FrozenParams
<1> HIDE DEF n
<1>13. n.frozen = d.frozen /\ FrozenParams(n) = FrozenParams(d)
  BY <1>9, <1>10, <1>11, <1>12 DEF SameCycle
<1>14. ph.phase \in Controlled =>
         /\ tgt = MinOf(ReducedTo(n, ph, in.rcv_nxt), in.normal)
         /\ n.pre_started /\ n.frozen_period_id = d.frozen_period_id
         /\ ScheduledPhase(n, sys, pos) = ph
  <2>1. n.frozen_period_id = d.frozen_period_id
    BY <1>13 DEF FrozenParams
  <2>2. ScheduledPhase(n, sys, pos) = ScheduledPhase(d, sys, pos)
    BY <1>13, SameSchedule
  <2>3. ph.phase \in Controlled => n.pre_started
    BY <1>11, <1>12 DEF ShrinkRef
  <2>4. ph.phase \in Controlled => tgt = MinOf(ReducedTo(n, ph, in.rcv_nxt), in.normal)
    BY DEF Target, ReducedTo, Controlled, PRE, DRAIN, OUTAGE, RECOVERY
  <2> QED BY <1>7, <2>1, <2>2, <2>3, <2>4
<1>15. ph.phase = RECOVERY =>
         tgt = MinOf(RecoveryTarget(n, in.normal,
                                    U64Sub(in.real, n.recovery_start_real_us)), in.normal)
  <2>1. n.recovery_start_real_us = r.recovery_start_real_us
    BY <1>10, <1>11, <1>12
  <2>2. ph.phase = RECOVERY => tgt = MinOf(RecoveryTarget(n, in.normal, ph.elapsed), in.normal)
    BY DEF Target, PRE, DRAIN, OUTAGE, RECOVERY
  <2> QED BY <1>8, <2>1, <2>2
<1>16. n.recovery_started = r.recovery_started
  BY <1>10, <1>11, <1>12
<1>17. n.pre_started => \/ n.frozen_pre_start_rcv_nxt = in.rcv_nxt
                        \/ s.pre_started /\ n.frozen_pre_start_rcv_nxt = s.frozen_pre_start_rcv_nxt
  <2>1. CASE takes
    BY <1>11, <1>12, <2>1 DEF ShrinkRef
  <2>2. CASE ~takes
    <3>1. ShrinkRef(n) = ShrinkRef(d)
      BY <1>9, <1>10, <1>11, <1>12, <2>2
    <3> QED BY <1>3, <1>4, <3>1 DEF ShrinkRef
  <2> QED BY <2>1, <2>2
<1> HIDE DEF tgt
<1> QED BY <1>1, <1>6, <1>8, <1>12, <1>13, <1>14, <1>15, <1>16, <1>17 DEF pos

\* leo_maybe_freeze: a call in the cycle of the one before keeps all of it.
\* Its reference point is retaken only on entry to PRE.
LEMMA SameSnapshot ==
  ASSUME NEW s \in LeoStates, NEW sys \in Sysctls, NEW in \in Inputs, MeasuredBefore(s, in),
         NEW b, CycleOK(s, sys, in.real, b), s.frozen, s.initialized, PeriodUs(sys) # 0,
         DynamicTarget(s, sys, in).st.frozen_period_id = s.frozen_period_id
  PROVE  LET n == DynamicTarget(s, sys, in).st
         IN  /\ FrozenParams(n) = FrozenParams(s)
             /\ s.recovery_started =>
                  n.recovery_start_real_us = s.recovery_start_real_us
             /\ s.pre_started /\ ~(n.current_phase = PRE /\ s.current_phase # PRE)
                  => ShrinkRef(n) = ShrinkRef(s)
<1> DEFINE k    == Known(s, sys, in)
           d    == MaybeFreeze(k, sys, in)
           ph   == PhaseOf(d, sys, in.real)
           r    == StartRecovery(d, sys, in.real)
           meas == NextMeasurement(r, sys, in, ph.phase)
           snap == TakeSnapshot(meas, in, s.current_phase, ph.phase)
           n    == [snap EXCEPT !.current_phase = ph.phase]
           takes == TakesSnapshot(meas, s.current_phase, ph.phase)
           id   == PeriodId(sys, in.real)
<1>1. DynamicTarget(s, sys, in).st = n
  BY DEF DynamicTarget
<1>2. in.real \in 0..(U64Range - 1) /\ in.real \in Nat
  BY WidthAssumption DEF Inputs
<1>3. k = s
  BY DEF Known
<1>4. d \in LeoStates /\ MeasuredBefore(d, in)
  BY <1>3, MaybeFreezeState
<1>5. CASE Freezes(s, sys, in)
  <2>1. s.frozen_period_id < id
    <3>1. id \in Nat /\ s.frozen_period_id \in Nat
      BY <1>2, PeriodNat DEF LeoStates
    <3>2. ~Holds(s, sys, in)
      BY <1>5 DEF Freezes
    <3>3. s.frozen_period_id <= id /\ (s.recovery_started => s.frozen_period_id < id)
      BY DEF CycleOK
    <3>4. ~s.recovery_started => id # s.frozen_period_id
      BY <3>2 DEF Holds, ReleaseDue
    <3> QED BY <3>1, <3>3, <3>4
  <2>2. d.frozen_period_id = id
    BY <1>3, <1>5, FreezeState DEF MaybeFreeze, Freezes
  <2>3. SameCycle(DynamicTarget(s, sys, in).st, d)
    BY CallCycle
  <2>4. DynamicTarget(s, sys, in).st.frozen_period_id = id
    BY <2>2, <2>3 DEF SameCycle, FrozenParams
  <2> QED BY <2>1, <2>4, <1>2, PeriodNat
<1>6. CASE ~Freezes(s, sys, in)
  <2>1. d = [s EXCEPT !.frozen = Holds(s, sys, in)]
    BY <1>3, <1>6 DEF MaybeFreeze
  <2>2. /\ FrozenParams(d) = FrozenParams(s) /\ ShrinkRef(d) = ShrinkRef(s)
        /\ d.recovery_started = s.recovery_started
        /\ d.recovery_start_real_us = s.recovery_start_real_us
    BY <2>1 DEF LeoStates, FrozenParams, ShrinkRef
  <2>3. d.recovery_started => r = d
    BY DEF StartRecovery
  <2> HIDE DEF d, k
  <2>4. ph.phase \in Phases
    BY <1>2, <1>4, PhaseType
  <2>5. /\ r \in LeoStates /\ MeasuredBefore(r, in)
        /\ ShrinkRef(r) = ShrinkRef(d) /\ SameCycle(r, d)
    BY <1>4, StartRecoveryState
  <2> HIDE DEF ph, r
  <2>6. /\ meas \in LeoStates /\ MeasuredBefore(meas, in)
        /\ ShrinkRef(meas) = ShrinkRef(r) /\ SameCycle(meas, r)
        /\ meas.recovery_start_real_us = r.recovery_start_real_us
    BY <2>5, NextMeasurementState
  <2> HIDE DEF meas
  <2>7. /\ snap \in LeoStates /\ SameCycle(snap, meas)
        /\ snap.recovery_start_real_us = meas.recovery_start_real_us
        /\ ~takes => snap = meas
    BY <2>4, <2>6, TakeSnapshotState
  <2>8. takes => (ph.phase = PRE /\ s.current_phase # PRE) \/ ~meas.pre_started
    BY DEF TakesSnapshot
  <2> HIDE DEF snap, takes
  <2>9. /\ n.current_phase = ph.phase
        /\ ShrinkRef(n) = ShrinkRef(snap) /\ FrozenParams(n) = FrozenParams(snap)
        /\ n.recovery_start_real_us = snap.recovery_start_real_us
    BY <2>7 DEF LeoStates, ShrinkRef, FrozenParams
  <2> HIDE DEF n
  <2>10. FrozenParams(n) = FrozenParams(s)
    BY <2>2, <2>5, <2>6, <2>7, <2>9 DEF SameCycle
  <2>11. s.recovery_started => n.recovery_start_real_us = s.recovery_start_real_us
    BY <2>2, <2>3, <2>6, <2>7, <2>9
  <2>12. ShrinkRef(meas) = ShrinkRef(s)
    BY <2>2, <2>5, <2>6
  <2>13. s.pre_started /\ ~(n.current_phase = PRE /\ s.current_phase # PRE)
           => ShrinkRef(n) = ShrinkRef(s)
    <3>1. meas.pre_started = s.pre_started
      BY <2>12 DEF ShrinkRef
    <3> QED BY <2>7, <2>8, <2>9, <2>12, <3>1
  <2> QED BY <1>1, <2>10, <2>11, <2>13
<1> QED BY <1>5, <1>6

-----------------------------------------------------------------------------
\* The targets are functions of the frozen cycle and the reference point.
LEMMA SameTargets ==
  ASSUME NEW s \in LeoStates, NEW n \in LeoStates, FrozenParams(n) = FrozenParams(s)
  PROVE  /\ \A w, e : RecoveryTarget(n, w, e) = RecoveryTarget(s, w, e)
         /\ ShrinkRef(n) = ShrinkRef(s) =>
              /\ \A rn, e : PreTarget(n, rn, e) = PreTarget(s, rn, e)
              /\ \A rn : /\ SafeTarget(n, rn, n.frozen_min_rwnd) = SafeTarget(s, rn, s.frozen_min_rwnd)
                         /\ Received(n, rn) = Received(s, rn)
<1>1. /\ n.frozen_start_rwnd = s.frozen_start_rwnd /\ n.frozen_min_rwnd = s.frozen_min_rwnd
      /\ n.frozen_pre_us = s.frozen_pre_us /\ n.frozen_recovery_us = s.frozen_recovery_us
  BY DEF FrozenParams
<1>2. \A w, e : RecoveryTarget(n, w, e) = RecoveryTarget(s, w, e)
  BY <1>1 DEF RecoveryTarget
<1>3. ASSUME ShrinkRef(n) = ShrinkRef(s)
      PROVE  /\ \A rn, e : PreTarget(n, rn, e) = PreTarget(s, rn, e)
             /\ \A rn : /\ SafeTarget(n, rn, n.frozen_min_rwnd) = SafeTarget(s, rn, s.frozen_min_rwnd)
                        /\ Received(n, rn) = Received(s, rn)
  <2>1. /\ n.pre_started = s.pre_started /\ n.frozen_pre_start_wnd = s.frozen_pre_start_wnd
        /\ n.frozen_pre_start_rcv_nxt = s.frozen_pre_start_rcv_nxt
    BY <1>3 DEF ShrinkRef
  <2>2. \A rn : Received(n, rn) = Received(s, rn)
    BY <2>1 DEF Received
  <2>3. \A rn, e : PreTarget(n, rn, e) = PreTarget(s, rn, e)
    BY <1>1, <2>1, <2>2 DEF PreTarget
  <2>4. \A rn : SafeTarget(n, rn, n.frozen_min_rwnd) = SafeTarget(s, rn, s.frozen_min_rwnd)
    BY <1>1, <2>1, <2>2 DEF SafeTarget
  <2> QED BY <2>2, <2>3, <2>4
<1> QED BY <1>2, <1>3

\* leo_phase: along the positions of one period the phases come in their order.
LEMMA PhasesInOrder ==
  ASSUME NEW s \in LeoStates, NEW sys \in Sysctls, NEW p \in Nat, NEW q \in Nat, p <= q,
         ScheduledPhase(s, sys, p).phase \in Controlled,
         ScheduledPhase(s, sys, q).phase = PRE
  PROVE  /\ ScheduledPhase(s, sys, p).phase = PRE
         /\ ScheduledPhase(s, sys, p).elapsed \in Nat /\ ScheduledPhase(s, sys, q).elapsed \in Nat
         /\ ScheduledPhase(s, sys, p).elapsed <= ScheduledPhase(s, sys, q).elapsed
<1> DEFINE sch == Schedule(s, sys)
<1>1. PeriodUs(sys) \in Nat
  BY PeriodNat
<1>2. /\ sch.pre \in Nat /\ sch.drain \in Nat /\ sch.outage \in Nat /\ sch.end \in Nat
      /\ sch.drain <= sch.outage
  BY <1>1 DEF Schedule, FloorSub, MinOf, LeoStates
<1> HIDE DEF sch
<1>3. \A x : ScheduledPhase(s, sys, x) =
        IF sch.pre <= x /\ x < sch.drain THEN [phase |-> PRE, elapsed |-> x - sch.pre]
        ELSE IF sch.drain <= x /\ x < sch.outage THEN [phase |-> DRAIN, elapsed |-> x - sch.drain]
        ELSE IF sch.outage <= x /\ x < sch.end THEN [phase |-> OUTAGE, elapsed |-> x - sch.outage]
        ELSE [phase |-> NORMAL, elapsed |-> 0]
  BY DEF ScheduledPhase, sch
<1>4. sch.pre <= q /\ q < sch.drain /\ ScheduledPhase(s, sys, q).elapsed = q - sch.pre
  BY <1>3 DEF PRE, DRAIN, OUTAGE, NORMAL
<1>5. sch.pre <= p /\ p < sch.drain
  BY <1>2, <1>3, <1>4 DEF Controlled, PRE, DRAIN, OUTAGE, NORMAL
<1>6. ScheduledPhase(s, sys, p) = [phase |-> PRE, elapsed |-> p - sch.pre]
  BY <1>3, <1>5
<1> QED BY <1>2, <1>4, <1>5, <1>6

\* The time a phase has run is not negative.
LEMMA ElapsedNat ==
  ASSUME NEW s \in LeoStates, NEW sys \in Sysctls, NEW p \in Nat
  PROVE  ScheduledPhase(s, sys, p).elapsed \in Nat
<1> DEFINE sch == Schedule(s, sys)
<1>1. PeriodUs(sys) \in Nat
  BY PeriodNat
<1>2. sch.pre \in Nat /\ sch.drain \in Nat /\ sch.outage \in Nat /\ sch.end \in Nat
  BY <1>1 DEF Schedule, FloorSub, MinOf, LeoStates
<1> HIDE DEF sch
<1>3. ScheduledPhase(s, sys, p) =
        IF sch.pre <= p /\ p < sch.drain THEN [phase |-> PRE, elapsed |-> p - sch.pre]
        ELSE IF sch.drain <= p /\ p < sch.outage THEN [phase |-> DRAIN, elapsed |-> p - sch.drain]
        ELSE IF sch.outage <= p /\ p < sch.end THEN [phase |-> OUTAGE, elapsed |-> p - sch.outage]
        ELSE [phase |-> NORMAL, elapsed |-> 0]
  BY DEF ScheduledPhase, sch
<1> QED BY <1>2, <1>3

\* The last call c, which read the sequence number rn, reduced the window to
\* what the snapshot in s gives at that time.
HeldWindow(s, sys, c, rn) ==
    s.current_phase \in Controlled =>
        LET at == ScheduledPhase(s, sys, PeriodPosition(sys, c.real))
        IN  /\ s.frozen /\ s.pre_started /\ PeriodUs(sys) # 0
            /\ PeriodId(sys, c.real) = s.frozen_period_id
            /\ at.phase = s.current_phase
            /\ c.target = MinOf(ReducedTo(s, at, rn), c.normal)

\* The last call was on the ramp, as far as the time since its start takes it.
RampWindow(s, sys, c) ==
    s.current_phase = RECOVERY =>
        /\ s.frozen /\ s.recovery_started /\ PeriodUs(sys) # 0
        /\ s.recovery_start_real_us <= c.real
        /\ c.target = MinOf(RecoveryTarget(s, c.normal, c.real - s.recovery_start_real_us),
                            c.normal)

\* Two calls of one cycle that both reduce the window.
LEMMA HeldFalls ==
  ASSUME NEW s \in LeoStates, NEW n \in LeoStates, NEW sys \in Sysctls,
         NEW c \in Calls, NEW d \in Calls,
         NEW q \in 0..(U32Range - 1), NEW r \in 0..(U32Range - 1),
         HeldWindow(s, sys, c, q), HeldWindow(n, sys, d, r),
         s.current_phase \in Controlled, n.current_phase \in Controlled,
         FrozenParams(n) = FrozenParams(s), AboveFloor(s),
         ~(n.current_phase = PRE /\ s.current_phase # PRE) => ShrinkRef(n) = ShrinkRef(s),
         c.real <= d.real, d.normal = c.normal, Received(s, q) <= Received(s, r)
  PROVE  d.target <= c.target
<1> DEFINE p == PeriodPosition(sys, c.real)
           t == PeriodPosition(sys, d.real)
           a == ScheduledPhase(s, sys, p)
           b == ScheduledPhase(s, sys, t)
           x == ReducedTo(s, a, q)
           y == ReducedTo(n, b, r)
<1>1. c.real \in Nat /\ d.real \in Nat /\ c.normal \in Nat
  BY DEF Calls
<1>2. \A z : ScheduledPhase(n, sys, z) = ScheduledPhase(s, sys, z)
  BY SameSchedule
<1>3. n.frozen_period_id = s.frozen_period_id
  BY DEF FrozenParams
<1>4. /\ s.pre_started /\ PeriodUs(sys) # 0 /\ PeriodId(sys, c.real) = s.frozen_period_id
      /\ a.phase = s.current_phase /\ c.target = MinOf(x, c.normal)
  BY DEF HeldWindow
<1>5. /\ PeriodId(sys, d.real) = s.frozen_period_id /\ b.phase = n.current_phase
      /\ d.target = MinOf(y, c.normal)
  BY <1>2, <1>3 DEF HeldWindow
<1>6. p \in Nat /\ t \in Nat /\ p <= t
  BY <1>1, <1>4, <1>5, PositionOrder
<1> HIDE DEF p, t
<1>7. a.elapsed \in Nat /\ b.elapsed \in Nat
  BY <1>6, ElapsedNat
<1>8. b.phase = PRE => a.phase = PRE /\ a.elapsed <= b.elapsed
  BY <1>4, <1>6, PhasesInOrder
<1> HIDE DEF a, b
<1>9. ShrinkRef(n) = ShrinkRef(s)
  BY <1>4, <1>5, <1>8
<1>10. y = ReducedTo(s, b, r)
  BY <1>9, SameTargets DEF ReducedTo
<1> HIDE DEF x, y
<1>11. x \in Nat /\ y \in Nat /\ y <= x
  <2>1. CASE b.phase = PRE
    <3>1. x = PreTarget(s, q, a.elapsed) /\ y = PreTarget(s, r, b.elapsed)
      BY <1>8, <1>10, <2>1 DEF ReducedTo, x
    <3> QED BY <1>4, <1>7, <1>8, <2>1, <3>1, PreFalls, PreTargetBounds
  <2>2. CASE b.phase # PRE
    <3>1. y = SafeTarget(s, r, s.frozen_min_rwnd)
      BY <1>10, <2>2 DEF ReducedTo
    <3>2. x = PreTarget(s, q, a.elapsed) \/ x = SafeTarget(s, q, s.frozen_min_rwnd)
      BY DEF ReducedTo, x
    <3>3. /\ y \in Nat /\ SafeTarget(s, q, s.frozen_min_rwnd) \in Nat
          /\ PreTarget(s, q, a.elapsed) \in Nat
      BY <1>4, <1>7, <3>1, SafeTargetBounds, PreTargetBounds
    <3>4. y <= SafeTarget(s, q, s.frozen_min_rwnd) /\ y <= PreTarget(s, q, a.elapsed)
      BY <1>4, <1>7, <3>1, SafeFalls
    <3> QED BY <3>2, <3>3, <3>4
  <2> QED BY <2>1, <2>2
<1> QED BY <1>1, <1>4, <1>5, <1>11 DEF MinOf

\* Two calls on the ramp of one cycle.
LEMMA RampGoesUp ==
  ASSUME NEW s \in LeoStates, NEW n \in LeoStates, NEW sys, NEW c \in Calls, NEW d \in Calls,
         RampWindow(s, sys, c), RampWindow(n, sys, d),
         s.current_phase = RECOVERY, n.current_phase = RECOVERY,
         FrozenParams(n) = FrozenParams(s),
         n.recovery_start_real_us = s.recovery_start_real_us,
         c.real <= d.real, d.normal = c.normal
  PROVE  c.target <= d.target
<1> DEFINE start == s.recovery_start_real_us
           x == RecoveryTarget(s, c.normal, c.real - start)
           y == RecoveryTarget(s, c.normal, d.real - start)
<1>1. c.real \in Nat /\ d.real \in Nat /\ c.normal \in Nat /\ start \in Nat
  BY WidthAssumption DEF Calls, LeoStates
<1>2. start <= c.real /\ c.target = MinOf(x, c.normal)
  BY DEF RampWindow
<1>3. d.target = MinOf(y, c.normal)
  BY SameTargets DEF RampWindow
<1>4. c.real - start \in Nat /\ d.real - start \in Nat /\ c.real - start <= d.real - start
  BY <1>1, <1>2
<1>5. x <= y /\ x \in Nat /\ y \in Nat
  BY <1>1, <1>4, RampRises, RecoveryTargetBounds
<1> HIDE DEF x, y
<1> QED BY <1>1, <1>2, <1>3, <1>5 DEF MinOf

\* The sequence number counts the bytes, the last call lies in the past, and the
\* snapshot is not newer than the last call.
Sequenced ==
    /\ bytes <= MaxBytes /\ rcv_nxt = U32Add(InitialSeq, bytes)
    /\ call.bytes <= bytes /\ call.real <= real
    /\ st.pre_started => U32Sub(st.frozen_pre_start_rcv_nxt, InitialSeq) <= call.bytes

\* The window in the last call is the one the socket's state gives.
LastCall ==
    call.ran => /\ HeldWindow(st, sysctl, call, U32Add(InitialSeq, call.bytes))
                /\ RampWindow(st, sysctl, call)

WindowInv == CycleInv /\ Sequenced /\ LastCall

\* What MonotoneWithinCycle says of a step.
Monotone ==
    call.ran /\ call'.ran /\ call'.normal = call.normal
    /\ st'.frozen_period_id = st.frozen_period_id
    => /\ {st.current_phase, st'.current_phase} \subseteq Controlled
          => call'.target <= call.target
       /\ {st.current_phase, st'.current_phase} = {RECOVERY}
          => call'.target >= call.target

\* A call keeps the description of the last call.
LEMMA CallDescribed ==
  ASSUME MaxBytes < U32Range, WindowInv, CycleInv',
         NEW normal \in Nat, NEW rtt \in Nat, NEW mss \in Nat, Control(normal, rtt, mss)
  PROVE  Sequenced' /\ LastCall'
<1> DEFINE in  == Input(normal, rtt, mss)
           res == DynamicTarget(st, sysctl, in)
<1>1. in \in Inputs
  BY DEF Input, Inputs, WindowInv, CycleInv, IInv, TypeOK
<1>2. /\ in.real = real /\ in.bytes = bytes /\ in.mono = mono /\ in.rcv_nxt = rcv_nxt
      /\ in.normal = normal
  BY DEF Input
<1>3. /\ st' = res.st /\ real' = real /\ sysctl' = sysctl /\ bytes' = bytes /\ rcv_nxt' = rcv_nxt
      /\ call' = [ran |-> TRUE, froze |-> res.froze, normal |-> normal, target |-> res.target,
                  bytes |-> bytes, real |-> real]
  BY DEF Control, settings
<1>4. /\ st \in LeoStates /\ st' \in LeoStates /\ sysctl \in Sysctls /\ MeasuredBefore(st, in)
      /\ real \in Nat /\ bytes \in Nat /\ call.bytes \in Nat
  BY <1>2, WidthAssumption
  DEF WindowInv, CycleInv, IInv, TypeOK, MeasuredPast, MeasuredBefore, Calls
<1> HIDE DEF in
<1>5. /\ res.st.current_phase \in Controlled =>
           LET at == ScheduledPhase(res.st, sysctl, PeriodPosition(sysctl, in.real))
           IN  /\ res.st.frozen /\ res.st.pre_started /\ PeriodUs(sysctl) # 0
               /\ PeriodId(sysctl, in.real) = res.st.frozen_period_id
               /\ at.phase = res.st.current_phase
               /\ res.target = MinOf(ReducedTo(res.st, at, in.rcv_nxt), in.normal)
      /\ res.st.current_phase = RECOVERY =>
           /\ res.st.frozen /\ res.st.recovery_started
           /\ res.target = MinOf(RecoveryTarget(res.st, in.normal,
                                   U64Sub(in.real, res.st.recovery_start_real_us)), in.normal)
      /\ res.st.pre_started =>
           \/ res.st.frozen_pre_start_rcv_nxt = in.rcv_nxt
           \/ st.pre_started /\ res.st.frozen_pre_start_rcv_nxt = st.frozen_pre_start_rcv_nxt
  BY <1>1, <1>4, CallWindow
<1> HIDE DEF res
<1>6. /\ call'.ran /\ call'.normal = normal /\ call'.target = res.target
      /\ call'.bytes = bytes /\ call'.real = real
  BY <1>3
<1>7. /\ bytes <= MaxBytes /\ rcv_nxt = U32Add(InitialSeq, bytes) /\ call.bytes <= bytes
      /\ st.pre_started => U32Sub(st.frozen_pre_start_rcv_nxt, InitialSeq) <= call.bytes
  BY DEF WindowInv, Sequenced
<1>8. U32Sub(rcv_nxt, InitialSeq) = bytes
  <2>1. bytes + 0 < U32Range
    BY <1>4, <1>7, WidthAssumption, StreamAssumption
  <2> QED BY <1>4, <1>7, <2>1, StreamAssumption, SeqOfBytes
<1>9. Sequenced'
  <2>1. st'.pre_started => U32Sub(st'.frozen_pre_start_rcv_nxt, InitialSeq) <= bytes
    <3> SUFFICES ASSUME st'.pre_started
                 PROVE  U32Sub(st'.frozen_pre_start_rcv_nxt, InitialSeq) <= bytes
      OBVIOUS
    <3>1. CASE res.st.frozen_pre_start_rcv_nxt = in.rcv_nxt
      BY <1>2, <1>3, <1>4, <1>8, <3>1
    <3>2. CASE st.pre_started /\ res.st.frozen_pre_start_rcv_nxt = st.frozen_pre_start_rcv_nxt
      <4>1. U32Sub(st.frozen_pre_start_rcv_nxt, InitialSeq) \in Int
        BY <1>4, WidthAssumption, StreamAssumption DEF LeoStates, U32Sub
      <4> QED BY <1>3, <1>4, <1>7, <3>2, <4>1
    <3> QED BY <1>3, <1>5, <3>1, <3>2
  <2> QED BY <1>3, <1>4, <1>6, <1>7, <2>1 DEF Sequenced
<1>10. HeldWindow(st', sysctl', call', U32Add(InitialSeq, call'.bytes))
  BY <1>2, <1>3, <1>5, <1>6, <1>7 DEF HeldWindow
<1>11. RampWindow(st', sysctl', call')
  <2> SUFFICES ASSUME st'.current_phase = RECOVERY PROVE RampWindow(st', sysctl', call')
    BY DEF RampWindow
  <2>1. /\ st'.frozen /\ st'.recovery_started
        /\ res.target = MinOf(RecoveryTarget(st', normal,
                                U64Sub(real, st'.recovery_start_real_us)), normal)
    BY <1>2, <1>3, <1>5
  <2>2. CycleOK(st', sysctl, real, boundary')
    BY <1>3 DEF CycleInv
  <2>3. st'.recovery_start_real_us <= real /\ PeriodUs(sysctl) # 0
    BY <2>1, <2>2 DEF CycleOK
  <2>4. st'.recovery_start_real_us \in Nat
    BY <1>4, WidthAssumption DEF LeoStates
  <2>5. U64Sub(real, st'.recovery_start_real_us) = real - st'.recovery_start_real_us
    BY <1>4, <2>3, <2>4 DEF U64Sub
  <2> QED BY <1>3, <1>6, <2>1, <2>3, <2>5 DEF RampWindow
<1> QED BY <1>9, <1>10, <1>11 DEF LastCall

\* Two calls in a row, within a cycle.
LEMMA CallMonotone ==
  ASSUME MaxBytes < U32Range, WindowInv, WindowInv',
         NEW normal \in Nat, NEW rtt \in Nat, NEW mss \in Nat, Control(normal, rtt, mss)
  PROVE  Monotone
<1> DEFINE in == Input(normal, rtt, mss)
           q  == U32Add(InitialSeq, call.bytes)
           r  == U32Add(InitialSeq, call'.bytes)
<1>1. in \in Inputs
  BY DEF Input, Inputs, WindowInv, CycleInv, IInv, TypeOK
<1>2. in.real = real /\ in.bytes = bytes /\ in.mono = mono
  BY DEF Input
<1>3. /\ st' = DynamicTarget(st, sysctl, in).st /\ sysctl' = sysctl /\ bytes' = bytes
      /\ call'.bytes = bytes /\ call'.real = real
  BY DEF Control, settings
<1>4. /\ st \in LeoStates /\ st' \in LeoStates /\ sysctl \in Sysctls
      /\ call \in Calls /\ call' \in Calls /\ MeasuredBefore(st, in)
      /\ AboveFloor(st) /\ (st.frozen => st.initialized)
  BY <1>2 DEF WindowInv, CycleInv, IInv, TypeOK, MeasuredPast, MeasuredBefore, FrozenKnown
<1>5. CycleOK(st, sysctl, in.real, boundary)
  BY <1>2 DEF WindowInv, CycleInv
<1> HIDE DEF in
<1>6. /\ call.bytes \in Nat /\ call'.bytes \in Nat /\ call.bytes <= call'.bytes
      /\ call'.bytes < U32Range /\ call.real <= call'.real
      /\ st.pre_started => U32Sub(st.frozen_pre_start_rcv_nxt, InitialSeq) <= call.bytes
  <2>1. /\ bytes \in Nat /\ bytes <= MaxBytes /\ call.bytes <= bytes /\ call.real <= real
        /\ st.pre_started => U32Sub(st.frozen_pre_start_rcv_nxt, InitialSeq) <= call.bytes
    BY DEF WindowInv, Sequenced, CycleInv, IInv, TypeOK
  <2>2. call.bytes \in Nat /\ U32Range \in Nat /\ MaxBytes \in Nat
    BY <1>4, WidthAssumption, StreamAssumption DEF Calls
  <2> QED BY <1>3, <2>1, <2>2
<1>7. st.pre_started => /\ q \in 0..(U32Range - 1) /\ r \in 0..(U32Range - 1)
                        /\ Received(st, q) <= Received(st, r)
  <2>1. st.frozen_pre_start_rcv_nxt \in 0..(U32Range - 1)
    BY <1>4 DEF LeoStates
  <2> QED BY <1>6, <2>1, StreamAssumption, ReceivedOrder DEF Received
<1> HIDE DEF q, r
<1> SUFFICES ASSUME call.ran, call'.ran, call'.normal = call.normal,
                    st'.frozen_period_id = st.frozen_period_id
             PROVE  /\ {st.current_phase, st'.current_phase} \subseteq Controlled
                         => call'.target <= call.target
                    /\ {st.current_phase, st'.current_phase} = {RECOVERY}
                         => call'.target >= call.target
  BY DEF Monotone
<1>8. /\ HeldWindow(st, sysctl, call, q) /\ RampWindow(st, sysctl, call)
      /\ HeldWindow(st', sysctl, call', r) /\ RampWindow(st', sysctl, call')
  BY <1>3 DEF WindowInv, LastCall, q, r
<1>9. st.frozen /\ PeriodUs(sysctl) # 0 =>
        /\ FrozenParams(st') = FrozenParams(st)
        /\ st.recovery_started => st'.recovery_start_real_us = st.recovery_start_real_us
        /\ st.pre_started /\ ~(st'.current_phase = PRE /\ st.current_phase # PRE)
             => ShrinkRef(st') = ShrinkRef(st)
  BY <1>1, <1>3, <1>4, <1>5, SameSnapshot
<1>10. ASSUME st.current_phase \in Controlled, st'.current_phase \in Controlled
       PROVE  call'.target <= call.target
  <2>1. st.frozen /\ st.pre_started /\ PeriodUs(sysctl) # 0
    BY <1>8, <1>10 DEF HeldWindow
  <2> QED BY <1>4, <1>6, <1>7, <1>8, <1>9, <1>10, <2>1, HeldFalls
<1>11. ASSUME st.current_phase = RECOVERY, st'.current_phase = RECOVERY
       PROVE  call.target <= call'.target
  <2>1. st.frozen /\ st.recovery_started /\ PeriodUs(sysctl) # 0
    BY <1>8, <1>11 DEF RampWindow
  <2> QED BY <1>4, <1>6, <1>8, <1>9, <1>11, <2>1, RampGoesUp
<1>12. call.target \in Nat /\ call'.target \in Nat
  BY <1>4 DEF Calls
<1> QED BY <1>10, <1>11, <1>12

\* The description of the last call looks at settings that do not change.
LEMMA QuietCall ==
  ASSUME WindowInv, UNCHANGED <<st, call>>, real' \in Nat, real <= real',
         bytes' \in Nat, bytes <= bytes', bytes' <= MaxBytes,
         rcv_nxt' = U32Add(InitialSeq, bytes'),
         sysctl'.rwnd_period_ms = sysctl.rwnd_period_ms,
         sysctl'.rwnd_offset_ms = sysctl.rwnd_offset_ms
  PROVE  Sequenced' /\ LastCall'
<1>1. /\ real \in Nat /\ bytes \in Nat /\ call.real \in Nat /\ call.bytes \in Nat
  BY WidthAssumption DEF WindowInv, CycleInv, IInv, TypeOK, Calls
<1>2. /\ PeriodUs(sysctl') = PeriodUs(sysctl)
      /\ \A t : PeriodId(sysctl', t) = PeriodId(sysctl, t)
  BY SamePeriods
<1>3. \A t : PeriodPosition(sysctl', t) = PeriodPosition(sysctl, t)
  BY DEF PeriodPosition, Shifted, PeriodUs
<1>4. \A pos : ScheduledPhase(st, sysctl', pos) = ScheduledPhase(st, sysctl, pos)
  BY <1>2, SameSchedule
<1>5. Sequenced'
  BY <1>1 DEF WindowInv, Sequenced
<1>6. \A rn : HeldWindow(st, sysctl, call, rn) => HeldWindow(st, sysctl', call, rn)
  BY <1>2, <1>3, <1>4 DEF HeldWindow
<1>7. RampWindow(st, sysctl, call) => RampWindow(st, sysctl', call)
  BY <1>2 DEF RampWindow
<1>8. LastCall'
  BY <1>6, <1>7 DEF WindowInv, LastCall
<1> QED BY <1>5, <1>8

\* No step breaks the description of the last call, and two calls in a row move
\* the window the way the cycle goes.
LEMMA WindowNext ==
  ASSUME Steady, MaxBytes < U32Range, WindowInv, [Next]_vars
  PROVE  WindowInv' /\ [Monotone]_vars
<1>0. CycleInv /\ CycleInv'
  BY CycleNext DEF WindowInv
<1>a. /\ real \in Nat /\ real' \in Nat /\ bytes \in Nat /\ bytes' \in Nat
      /\ sysctl \in Sysctls /\ sysctl' \in Sysctls /\ MaxBytes \in Nat
  BY <1>0, WidthAssumption, StreamAssumption DEF CycleInv, IInv, TypeOK
<1>b. bytes <= MaxBytes /\ rcv_nxt = U32Add(InitialSeq, bytes)
  BY DEF WindowInv, Sequenced
<1> DEFINE Quiet == Sequenced' /\ LastCall' /\ (call' = call \/ ~call'.ran) /\ st' = st
<1>1. ASSUME NEW d \in TickSizes, Tick(d) PROVE Quiet
  <2>1. d \in Nat
    BY ClockAssumption
  <2>2. UNCHANGED <<st, call, sysctl, bytes, rcv_nxt>> /\ real <= real'
    BY <1>1, <1>a, <2>1 DEF Tick, settings
  <2> QED BY <1>a, <1>b, <2>2, QuietCall
<1>2. ASSUME NEW n \in SegmentSizes, Receive(n) PROVE Quiet
  <2>1. /\ UNCHANGED <<st, call, sysctl, real>> /\ bytes' = bytes + n /\ bytes' <= MaxBytes
        /\ rcv_nxt' = U32Add(rcv_nxt, n)
    BY <1>2 DEF Receive, settings
  <2>2. n \in Nat /\ bytes + n < U32Range
    BY <1>a, <2>1, StreamAssumption, WidthAssumption
  <2>3. rcv_nxt' = U32Add(InitialSeq, bytes')
    BY <1>a, <1>b, <2>1, <2>2, StreamAssumption, SeqOfBytes
  <2> QED BY <1>a, <2>1, <2>2, <2>3, QuietCall
<1>3. ASSUME NEW w \in SysctlWrites, WriteSysctl(w[1], w[2]) PROVE Quiet
  <2>1. /\ UNCHANGED <<st, call, real, bytes, rcv_nxt>>
        /\ sysctl' = [sysctl EXCEPT ![w[1]] = w[2]]
    BY <1>3 DEF WriteSysctl
  <2>2. w[1] # "rwnd_period_ms" /\ w[1] # "rwnd_offset_ms"
    BY DEF Steady
  <2>3. "rwnd_period_ms" \in SysctlNames /\ "rwnd_offset_ms" \in SysctlNames
    BY DEF SysctlNames, AtLeastOne, AtLeastZero
  <2>4. /\ sysctl'.rwnd_period_ms = sysctl.rwnd_period_ms
        /\ sysctl'.rwnd_offset_ms = sysctl.rwnd_offset_ms
    BY <1>a, <2>1, <2>2, <2>3 DEF Sysctls
  <2> QED BY <1>a, <1>b, <2>1, <2>4, QuietCall
<1>4. ASSUME NEW w \in PortWrites, WritePort(w[1], w[2]) PROVE Quiet
  <2>1. UNCHANGED <<st, call, sysctl, real, bytes, rcv_nxt>>
    BY <1>4 DEF WritePort
  <2> QED BY <1>a, <1>b, <2>1, QuietCall
<1>5. ASSUME NEW normal \in NormalWindows, PassThrough(normal) PROVE Quiet
  <2>1. /\ UNCHANGED <<st, sysctl, real, bytes, rcv_nxt>> /\ ~call'.ran
        /\ call'.bytes = bytes /\ call'.real = real
    BY <1>5 DEF PassThrough, settings
  <2>2. st.pre_started => /\ U32Sub(st.frozen_pre_start_rcv_nxt, InitialSeq) <= call.bytes
                          /\ U32Sub(st.frozen_pre_start_rcv_nxt, InitialSeq) \in Int
    <3>1. st.frozen_pre_start_rcv_nxt \in 0..(U32Range - 1)
      BY <1>0 DEF CycleInv, IInv, TypeOK, LeoStates
    <3> QED BY <3>1, WidthAssumption, StreamAssumption DEF WindowInv, Sequenced, U32Sub
  <2>3. call.bytes \in Nat /\ call.bytes <= bytes
    BY <1>0 DEF CycleInv, IInv, TypeOK, Calls, WindowInv, Sequenced
  <2>4. st.pre_started => U32Sub(st.frozen_pre_start_rcv_nxt, InitialSeq) <= bytes
    BY <1>a, <2>2, <2>3
  <2>5. Sequenced'
    BY <1>a, <1>b, <2>1, <2>4 DEF Sequenced
  <2> QED BY <2>1, <2>5 DEF LastCall
<1>6. ASSUME NEW normal \in NormalWindows, NEW rtt \in RcvRtts, NEW mss \in RcvMsses,
             Control(normal, rtt, mss)
      PROVE  WindowInv' /\ Monotone
  <2>1. normal \in Nat /\ rtt \in Nat /\ mss \in Nat
    BY InputAssumption, WidthAssumption
  <2>2. Sequenced' /\ LastCall'
    BY <1>0, <1>6, <2>1, CallDescribed
  <2>3. WindowInv'
    BY <1>0, <2>2 DEF WindowInv
  <2> QED BY <1>6, <2>1, <2>3, CallMonotone
<1>7. CASE UNCHANGED vars
  <2>1. UNCHANGED <<st, call, sysctl, real, bytes, rcv_nxt>>
    BY <1>7 DEF vars
  <2> QED BY <1>a, <1>b, <2>1, QuietCall, <1>0, <1>7 DEF WindowInv
<1>8. ASSUME Quiet PROVE WindowInv' /\ Monotone
  <2>1. WindowInv'
    BY <1>0, <1>8 DEF WindowInv
  <2>2. call' = call \/ ~call'.ran
    BY <1>8
  <2>3. call.target \in Nat
    BY <1>0 DEF CycleInv, IInv, TypeOK, Calls
  <2> QED BY <2>1, <2>2, <2>3 DEF Monotone
<1>9. ~\E t \in ClockSets : SetClock(t)
  BY DEF Steady
<1> HIDE DEF Quiet
<1> QED BY <1>1, <1>2, <1>3, <1>4, <1>5, <1>6, <1>7, <1>8, <1>9 DEF Next

\* leo_pre_target, leo_safe_target, leo_recovery_target: with the same window
\* from ordinary TCP, the advertised window only falls from the start of PRE to
\* the end of OUTAGE and only rises along the ramp.  Nobody sets the clock or
\* moves the handovers, and fewer than 2^32 bytes arrive: the bytes since the
\* snapshot are a u32 difference of sequence numbers.
THEOREM WindowIsMonotone ==
  ASSUME Steady, MaxBytes < U32Range
  PROVE  Spec => MonotoneWithinCycle
<1>1. Init => WindowInv
  <2> SUFFICES ASSUME Init PROVE WindowInv
    OBVIOUS
  <2>1. CycleInv
    <3>1. ~st.frozen /\ st.frozen_period_id = 0 /\ ~call.ran
      BY DEF Init, NewState
    <3> QED BY <3>1, InitIInv DEF CycleInv, CycleOK, NoStaleSnapshot, ControlEndsByBoundary
  <2>2. /\ bytes = 0 /\ rcv_nxt = InitialSeq /\ call.bytes = 0 /\ call.real = 0 /\ ~call.ran
        /\ ~st.pre_started
    BY DEF Init, NewState
  <2>3. U32Add(InitialSeq, 0) = InitialSeq
    BY StreamAssumption, WidthAssumption DEF U32Add
  <2>4. real \in Nat /\ MaxBytes \in Nat
    BY <2>1, WidthAssumption, StreamAssumption DEF CycleInv, IInv, TypeOK
  <2> QED BY <2>1, <2>2, <2>3, <2>4 DEF WindowInv, Sequenced, LastCall
<1>2. WindowInv /\ [Next]_vars => WindowInv' /\ [Monotone]_vars
  BY WindowNext
<1>3. MonotoneWithinCycle <=> [][Monotone]_vars
  BY DEF MonotoneWithinCycle, Monotone
<1> QED BY <1>1, <1>2, <1>3, PTL DEF Spec

-----------------------------------------------------------------------------
(* Rounding.                                                               *)

\* A quotient of naturals, and the multiple of the divisor it stands for.
LEMMA Quotient ==
  ASSUME NEW x \in Nat, NEW u \in Nat \ {0}
  PROVE  /\ x \div u \in Nat /\ (x \div u) * u \in Nat
         /\ (x \div u) * u <= x /\ x < (x \div u) * u + u
<1>1. x \div u \in Nat
  BY DivNat
<1>2. (x \div u) * u \in Nat
  BY <1>1, MulNat
<1> QED BY <1>1, <1>2

\* A number between two multiples has the quotient of the lower one.
LEMMA QuotientIs ==
  ASSUME NEW q \in Nat, NEW r \in Nat, NEW u \in Nat \ {0}, r < u
  PROVE  (q * u + r) \div u = q /\ (q * u + r) % u = r
BY SMTT(60)

\* Rounding down yields a natural and never increases.
LEMMA RoundDownNat ==
  ASSUME NEW x \in Nat, NEW u \in Nat \ {0}
  PROVE  RoundDown(x, u) \in Nat /\ RoundDown(x, u) <= x
BY Quotient DEF RoundDown

\* ALIGN(x, 1 << rcv_wscale) never decreases.
LEMMA AlignUpGrows ==
  ASSUME NEW x \in Nat
  PROVE  AlignUp(x) \in Nat /\ x <= AlignUp(x)
<1> DEFINE y == x + ScaleUnit - 1
           m == (y \div ScaleUnit) * ScaleUnit
<1>1. y \in Nat /\ ScaleUnit \in Nat \ {0}
  BY MssAssumption
<1>2. m \in Nat /\ y < m + ScaleUnit
  <2> HIDE DEF y
  <2> QED BY <1>1, Quotient
<1>3. AlignUp(x) = m
  BY DEF AlignUp
<1> HIDE DEF m
<1> QED BY <1>1, <1>2, <1>3

\* A share of a whole is no more than the whole.
LEMMA ShareBound ==
  ASSUME NEW a \in Nat, NEW b \in Nat, NEW c \in Nat \ {0}, b <= c
  PROVE  (a * b) \div c \in Nat /\ (a * b) \div c <= a
<1> DEFINE m == a * b
           q == m \div c
<1>1. m \in Nat /\ m <= a * c /\ a * c \in Nat
  <2>1. b * a <= c * a
    BY MulMono
  <2> QED BY <2>1, MulNat
<1> HIDE DEF m
<1>2. q \in Nat /\ q * c <= m
  BY <1>1, Quotient
<1> HIDE DEF q
<1>3. ASSUME a + 1 <= q PROVE FALSE
  <2>1. (a + 1) * c <= q * c
    BY <1>2, <1>3, MulMono
  <2>2. (a + 1) * c = a * c + c /\ q * c \in Nat
    BY <1>2
  <2> QED BY <1>1, <1>2, <2>1, <2>2
<1> QED BY <1>2, <1>3 DEF q, m

\* A window that can be sent without loss in the scaled field.
Aligned(w) == \E q \in Nat : w = q * ScaleUnit

\* u32 arithmetic keeps a window aligned, since 2^32 is aligned itself.
LEMMA AlignedU32 ==
  ASSUME NEW x \in Nat
  PROVE  Aligned(U32(AlignUp(x)))
<1> DEFINE a == (x + ScaleUnit - 1) \div ScaleUnit
           b == U32Range \div ScaleUnit
           q == a \div b
           r == a % b
<1>1. ScaleUnit \in Nat \ {0} /\ U32Range \in Nat \ {0}
  BY MssAssumption, WidthAssumption
<1>2. a \in Nat
  <2>1. x + ScaleUnit - 1 \in Nat
    BY <1>1
  <2> QED BY <1>1, <2>1, DivNat
<1>3. b \in Nat /\ U32Range = b * ScaleUnit
  <2>1. U32Range % ScaleUnit = U32Range - b * ScaleUnit
    BY <1>1, DivMod
  <2>2. b \in Nat /\ b * ScaleUnit \in Nat
    BY <1>1, Quotient
  <2> HIDE DEF b
  <2> QED BY <1>1, <2>1, <2>2, ScaleAssumption
<1>4. AlignUp(x) = a * ScaleUnit
  BY DEF AlignUp
<1> HIDE DEF a, b
<1>5. b \in Nat \ {0}
  <2>1. b = 0 => b * ScaleUnit = 0
    BY <1>1
  <2> QED BY <1>1, <1>3, <2>1
<1>6. q \in Nat /\ r \in Nat /\ r < b /\ r = a - q * b /\ q * b \in Nat
  BY <1>2, <1>5, DivNat, ModNat, DivMod, Quotient
<1> HIDE DEF q, r
<1>7. a = q * b + r
  BY <1>2, <1>6
<1>8. a * ScaleUnit = q * (b * ScaleUnit) + r * ScaleUnit
  BY <1>1, <1>3, <1>6, <1>7
<1>9. r * ScaleUnit \in Nat /\ r * ScaleUnit < U32Range
  <2>1. (r + 1) * ScaleUnit <= b * ScaleUnit
    BY <1>1, <1>5, <1>6, MulMono
  <2>2. (r + 1) * ScaleUnit = r * ScaleUnit + ScaleUnit /\ r * ScaleUnit \in Nat
    BY <1>1, <1>6
  <2> QED BY <1>1, <1>3, <2>1, <2>2
<1>10. (q * U32Range + r * ScaleUnit) % U32Range = r * ScaleUnit
  <2> DEFINE rest == r * ScaleUnit
  <2>1. rest \in Nat /\ rest < U32Range
    BY <1>9
  <2> HIDE DEF rest
  <2>2. (q * U32Range + rest) % U32Range = rest
    BY <1>1, <1>6, <2>1, QuotientIs
  <2> QED BY <2>2 DEF rest
<1>11. U32(AlignUp(x)) = r * ScaleUnit
  BY <1>3, <1>4, <1>8, <1>10 DEF U32
<1> QED BY <1>6, <1>11 DEF Aligned

\* leo_min_rwnd returns an aligned floor.
LEMMA FloorAligned ==
  ASSUME NEW sys \in Sysctls, NEW in \in Inputs
  PROVE  Aligned(MinRwnd(sys, in))
<1> DEFINE mss == IF in.rcv_mss # 0 THEN in.rcv_mss
                  ELSE IF AdvMss # 0 THEN AdvMss ELSE DefaultMss
           want == MaxOf(1, sys.rwnd_min_segs) * mss
<1>1. mss \in Nat
  BY MssAssumption DEF Inputs
<1>2. MaxOf(1, sys.rwnd_min_segs) \in Nat
  BY SysctlFields DEF MaxOf
<1>3. MinRwnd(sys, in) = U32(AlignUp(want))
  BY DEF MinRwnd
<1> HIDE DEF mss
<1>4. want \in Nat
  BY <1>1, <1>2, MulNat
<1> HIDE DEF want
<1> QED BY <1>3, <1>4, AlignedU32

\* A controlled call leaves the floor of the cycle alone or freezes an
\* aligned one.
LEMMA CallKeepsAligned ==
  ASSUME NEW s \in LeoStates, NEW sys \in Sysctls, NEW in \in Inputs,
         MeasuredBefore(s, in), Aligned(s.frozen_min_rwnd)
  PROVE  Aligned(DynamicTarget(s, sys, in).st.frozen_min_rwnd)
<1> DEFINE k == Known(s, sys, in)
           d == MaybeFreeze(k, sys, in)
           n == DynamicTarget(s, sys, in).st
<1>1. /\ k \in LeoStates /\ SameCycle(n, d)
      /\ s.initialized => k = s
      /\ ~s.initialized => k.frozen_min_rwnd = 0
  BY CallCycle
<1>2. Aligned(0)
  BY MssAssumption DEF Aligned
<1>3. s.initialized \in BOOLEAN
  BY DEF LeoStates
<1> HIDE DEF k
<1>4. Aligned(k.frozen_min_rwnd)
  BY <1>1, <1>2, <1>3
<1>5. \/ d = k
      \/ d.frozen_min_rwnd = MinRwnd(sys, in)
      \/ FrozenParams(d) = FrozenParams(k)
  BY <1>1, FreezeCases
<1>6. Aligned(MinRwnd(sys, in))
  BY FloorAligned
<1> HIDE DEF d, n
<1>7. FrozenParams(d) = FrozenParams(k) => d.frozen_min_rwnd = k.frozen_min_rwnd
  BY DEF FrozenParams
<1>8. Aligned(d.frozen_min_rwnd)
  BY <1>4, <1>5, <1>6, <1>7
<1>9. n.frozen_min_rwnd = d.frozen_min_rwnd
  BY <1>1 DEF SameCycle, FrozenParams
<1> QED BY <1>8, <1>9 DEF n

-----------------------------------------------------------------------------
(* The window of ordinary TCP and of the fixed controller.                 *)

\* The part of the state that window selection reads, well typed.
SocketOK ==
    /\ rcv_wnd \in Nat /\ rcv_wup \in 0..bytes /\ unread \in 0..Buffer
    /\ bytes \in Nat /\ real \in Nat /\ sysctl \in Sysctls

\* __tcp_select_window, every path: a natural.
LEMMA StockWindowNat ==
  ASSUME SocketOK, NEW rcv_mss \in RcvMsses, NEW ssthresh \in SsThreshes
  PROVE  StockWindow(rcv_mss, ssthresh) \in Nat
<1> DEFINE mss == MinOf(rcv_mss, FullSpace)
<1>1. /\ Buffer \in Nat \ {0} /\ WindowClamp \in Nat \ {0} /\ ssthresh \in Nat
      /\ rcv_mss \in Nat \ {0} /\ ScaleUnit \in Nat \ {0}
  BY BufferAssumption, ScaleAssumption, InputAssumption, MssAssumption
<1>2. FullSpace \in Nat \ {0} /\ FreeSpace \in Nat
  BY <1>1 DEF FullSpace, FreeSpace, MinOf, SocketOK
<1>3. mss \in Nat \ {0}
  BY <1>1, <1>2 DEF MinOf
<1> HIDE DEF mss
<1>4. RoundDown(FreeSpace, ScaleUnit) \in Nat
  BY <1>1, <1>2, RoundDownNat
<1>5. ShrinkableWindow(mss, ssthresh) \in Nat
  BY <1>1, <1>4, AlignUpGrows DEF ShrinkableWindow
<1>6. NoShrinkWindow(mss, ssthresh) \in Nat
  <2> DEFINE tight == FreeSpace < FullSpace \div 2
             free  == IF tight THEN RoundDown(FreeSpace, ScaleUnit) ELSE FreeSpace
             used  == MinOf(free, ssthresh)
  <2>1. used \in Nat
    BY <1>1, <1>2, <1>4 DEF MinOf
  <2>2. NoShrinkWindow(mss, ssthresh)
          = IF tight /\ (free < Buffer \div 16 \/ free < mss) THEN 0
            ELSE IF Scaling THEN AlignUp(used) ELSE MssWindow(used, mss)
    BY DEF NoShrinkWindow
  <2> HIDE DEF tight, free, used
  <2>3. AlignUp(used) \in Nat
    BY <2>1, AlignUpGrows
  <2>4. MssWindow(used, mss) \in Nat
    BY <1>3, <2>1, RoundDownNat DEF MssWindow, SocketOK
  <2> QED BY <2>2, <2>3, <2>4
<1>7. StockWindow(rcv_mss, ssthresh)
        = IF ShrinkAllowed THEN ShrinkableWindow(mss, ssthresh)
          ELSE NoShrinkWindow(mss, ssthresh)
  BY DEF StockWindow, mss
<1> QED BY <1>5, <1>6, <1>7

\* tcp_leo_rwnd_phase_ms lies within the period.
LEMMA FixedPhaseRange ==
  ASSUME SocketOK, sysctl.rwnd_period_ms # 0
  PROVE  FixedPhase \in Nat /\ FixedPhase < sysctl.rwnd_period_ms
<1> DEFINE p == sysctl.rwnd_period_ms
           ms == real \div UsecPerMsec
           rem == ms % p
           off == sysctl.rwnd_offset_ms % p
<1>1. p \in Nat \ {0} /\ sysctl.rwnd_offset_ms \in Nat /\ real \in Nat
  BY SysctlFields DEF SocketOK
<1>2. ms \in Nat
  BY <1>1, DivNat, UnitAssumption
<1> HIDE DEF ms, p
<1>3. rem \in Nat /\ rem < p /\ off \in Nat /\ off < p
  BY <1>1, <1>2, ModNat
<1>4. FixedPhase = IF rem >= off THEN rem - off ELSE rem + p - off
  BY DEF FixedPhase, p, ms
<1> HIDE DEF rem, off
<1>5. FixedPhase \in Nat /\ FixedPhase < p
  BY <1>1, <1>3, <1>4
<1> QED BY <1>5 DEF p

\* tcp_leo_rwnd_target: the reduction of PRE never exceeds what there is to
\* reduce, so that no window wraps below zero.
LEMMA FixedTargetNat ==
  ASSUME SocketOK, NEW normal \in Nat, NEW mss \in Nat
  PROVE  FixedTarget(normal, mss) \in Nat
<1> DEFINE p     == sysctl.rwnd_period_ms
           pre   == MinOf(sysctl.rwnd_pre_ms, p - 1)
           out   == sysctl.rwnd_outage_ms
           rec   == sysctl.rwnd_recovery_ms
           min   == FixedMin(mss)
           start == p - pre
           delta == normal - min
           ph    == FixedPhase
<1>1. p \in Nat /\ sysctl.rwnd_pre_ms \in Nat /\ out \in Nat /\ rec \in Nat
      /\ sysctl.rwnd_min_segs \in Nat
  BY DEF SocketOK, Sysctls, SysctlNames, Switches, AtLeastOne, AtLeastZero
<1>2. min \in Nat
  <2> DEFINE m == OrElse(mss, OrElse(AdvMss, DefaultMss))
             n == OrElse(sysctl.rwnd_min_segs, 1)
  <2>1. m \in Nat /\ n \in Nat
    BY <1>1, MssAssumption DEF OrElse
  <2>2. min = U32(n * m)
    BY DEF FixedMin
  <2> HIDE DEF m, n
  <2> QED BY <2>1, <2>2, MulNat, U32Nat
<1>3. FixedTarget(normal, mss)
        = IF sysctl.rwnd_enable = 0 \/ p = 0 \/ normal <= min THEN normal
          ELSE IF pre # 0 /\ ph >= start
          THEN normal - (delta * (ph - start)) \div pre
          ELSE IF ph < out THEN min
          ELSE IF rec # 0 /\ ph < U32(out + rec) /\ sysctl.rwnd_fast_recovery = 0
          THEN min + (delta * (ph - out)) \div rec
          ELSE normal
  BY DEF FixedTarget
<1>4. CASE p = 0 \/ normal <= min
  BY <1>3, <1>4
<1>5. CASE p # 0 /\ ~(normal <= min)
  <2>1. ph \in Nat /\ ph < p
    BY <1>5, FixedPhaseRange
  <2>2. pre \in Nat /\ start = p - pre
    BY <1>1, <1>5 DEF MinOf
  <2>3. delta \in Nat /\ delta <= normal
    BY <1>2, <1>5
  <2> HIDE DEF p, pre, out, rec, min, start, delta, ph
  <2>4. ASSUME pre # 0, ph >= start
        PROVE  normal - (delta * (ph - start)) \div pre \in Nat
    <3> DEFINE b == ph - start
    <3>1. b \in Nat /\ b <= pre
      BY <1>1, <2>1, <2>2, <2>4
    <3> HIDE DEF b
    <3> DEFINE share == (delta * b) \div pre
    <3>2. share \in Nat /\ share <= delta
      BY <2>2, <2>3, <2>4, <3>1, ShareBound
    <3> HIDE DEF share
    <3>3. normal - share \in Nat
      BY <2>3, <3>2
    <3> QED BY <3>3 DEF share, b
  <2>5. ASSUME rec # 0, ~(ph < out)
        PROVE  min + (delta * (ph - out)) \div rec \in Nat
    <3> DEFINE b == ph - out
    <3>1. b \in Nat
      BY <1>1, <2>1, <2>5
    <3> HIDE DEF b
    <3> DEFINE share == (delta * b) \div rec
    <3>2. share \in Nat
      BY <1>1, <2>3, <2>5, <3>1, ShareNat
    <3> HIDE DEF share
    <3>3. min + share \in Nat
      BY <1>2, <3>2
    <3> QED BY <3>3 DEF share, b
  <2> QED BY <1>2, <1>3, <2>4, <2>5
<1> QED BY <1>4, <1>5

\* tcp_leo_rwnd_clamp returns a natural.
LEMMA FixedClampNat ==
  ASSUME SocketOK, NEW normal \in Nat, NEW mss \in Nat
  PROVE  FixedClamp(normal, mss) \in Nat
<1> DEFINE t == FixedTarget(normal, mss)
<1>1. t \in Nat
  BY FixedTargetNat
<1>2. CurWin \in Nat /\ bytes - rcv_wup \in Nat
  BY DEF CurWin, MaxOf, SocketOK
<1> HIDE DEF t
<1> QED BY <1>1, <1>2 DEF FixedClamp, t, MinOf

\* The scaled window field fits its 16 bits.
LEMMA WireFits ==
  ASSUME NEW new \in Nat
  PROVE  WireField(new) \in 0..MaxScaled
<1> DEFINE cap == MaxScaled * ScaleUnit
           w   == MinOf(new, cap)
           q   == w \div ScaleUnit
<1>1. ScaleUnit \in Nat \ {0} /\ MaxScaled \in Nat
  BY MssAssumption, BufferAssumption
<1>2. cap \in Nat
  BY <1>1, MulNat
<1> HIDE DEF cap
<1>3. w \in Nat /\ w <= cap
  BY <1>2 DEF MinOf
<1> HIDE DEF w
<1>4. q \in Nat /\ q * ScaleUnit \in Nat /\ q * ScaleUnit <= w
  BY <1>1, <1>3, Quotient
<1> HIDE DEF q
<1>5. ASSUME MaxScaled + 1 <= q PROVE FALSE
  <2>1. (MaxScaled + 1) * ScaleUnit <= q * ScaleUnit
    BY <1>1, <1>4, <1>5, MulMono
  <2>2. (MaxScaled + 1) * ScaleUnit = cap + ScaleUnit
    BY <1>1 DEF cap
  <2> QED BY <1>1, <1>2, <1>3, <1>4, <2>1, <2>2
<1>6. WireField(new) = q
  BY DEF WireField, q, w, cap
<1> QED BY <1>1, <1>4, <1>5, <1>6

\* Scaling an aligned floor loses nothing of it.
LEMMA WireKeepsFloor ==
  ASSUME NEW new \in Nat, NEW floor \in Nat, Aligned(floor), floor <= new
  PROVE  WireField(new) * ScaleUnit >= MinOf(floor, MaxScaled * ScaleUnit)
<1> DEFINE cap == MaxScaled * ScaleUnit
           w   == MinOf(new, cap)
           q   == w \div ScaleUnit
<1>1. ScaleUnit \in Nat \ {0} /\ MaxScaled \in Nat
  BY MssAssumption, BufferAssumption
<1>2. cap \in Nat
  BY <1>1, MulNat
<1>3. \E m \in Nat : MinOf(floor, cap) = m * ScaleUnit
  BY <1>1 DEF Aligned, MinOf
<1> HIDE DEF cap
<1>4. PICK m \in Nat : MinOf(floor, cap) = m * ScaleUnit
  BY <1>3
<1>5. w \in Nat /\ m * ScaleUnit <= w /\ m * ScaleUnit \in Nat
  BY <1>1, <1>2, <1>4 DEF MinOf
<1> HIDE DEF w
<1>6. q \in Nat /\ w < q * ScaleUnit + ScaleUnit /\ q * ScaleUnit \in Nat
  BY <1>1, <1>5, Quotient
<1> HIDE DEF q
<1>7. ASSUME q + 1 <= m PROVE FALSE
  <2>1. (q + 1) * ScaleUnit <= m * ScaleUnit
    BY <1>1, <1>4, <1>6, <1>7, MulMono
  <2>2. (q + 1) * ScaleUnit = q * ScaleUnit + ScaleUnit
    BY <1>1, <1>6
  <2> QED BY <1>1, <1>5, <1>6, <2>1, <2>2
<1>8. m * ScaleUnit <= q * ScaleUnit
  BY <1>1, <1>4, <1>6, <1>7, MulMono
<1>9. WireField(new) = q
  BY DEF WireField, q, w, cap
<1> QED BY <1>4, <1>5, <1>6, <1>8, <1>9 DEF cap

-----------------------------------------------------------------------------
(* The invariant.                                                          *)

\* What was sent under the dynamic controller is what its last call returned.
SentAsCalled ==
    sent.by = "dynamic" /\ call.ran =>
        sent.normal = call.normal /\ sent.wire = WireField(call.target)

TWInv ==
    /\ IInv
    /\ rcv_wnd \in Nat /\ rcv_wup \in 0..bytes /\ unread \in 0..Buffer
    /\ nomem \in BOOLEAN
    /\ sent \in [by : Senders, normal : Nat, wire : 0..MaxScaled, before : Nat]
    /\ Aligned(st.frozen_min_rwnd)
    /\ SentAsCalled

\* The part of the invariant that window selection needs.
LEMMA TWInvSocket == TWInv => SocketOK
BY WidthAssumption DEF TWInv, IInv, TypeOK, SocketOK

\* The handshake establishes the invariant.
LEMMA TWInitInv == TWInit => TWInv
<1> SUFFICES ASSUME TWInit PROVE TWInv
  OBVIOUS
<1>1. IInv
  BY InitIInv DEF TWInit
<1>2. InitialWindow \in Nat /\ Buffer \in Nat
  BY BufferAssumption
<1>3. sent \in [by : Senders, normal : Nat, wire : 0..MaxScaled, before : Nat]
      /\ sent.by = "handshake"
  BY <1>2, WireFits DEF TWInit, Senders
<1>4. Aligned(st.frozen_min_rwnd)
  BY MssAssumption DEF TWInit, Init, NewState, Aligned
<1>5. bytes = 0 /\ rcv_wnd = InitialWindow /\ rcv_wup = 0 /\ unread = 0
  BY DEF TWInit, Init
<1>6. rcv_wnd \in Nat /\ rcv_wup \in 0..bytes /\ unread \in 0..Buffer
  BY <1>2, <1>5
<1>7. nomem \in BOOLEAN
  BY DEF TWInit
<1> QED BY <1>1, <1>3, <1>4, <1>6, <1>7 DEF TWInv, SentAsCalled

\* An offer by ordinary TCP, the fixed controller or the out-of-memory path:
\* the controller's state is left alone.
LEMMA OfferInv ==
  ASSUME TWInv, NEW by \in Senders, by # "dynamic", NEW normal \in Nat, NEW new \in Nat,
         Offer(by, normal, new), UNCHANGED <<vars, unread>>, nomem' \in BOOLEAN
  PROVE  TWInv'
<1>1. IInv' /\ UNCHANGED <<bytes, st, call>>
  BY NextIInv DEF TWInv, vars
<1>2. RightEdge \in Nat /\ bytes \in Nat
  BY DEF TWInv, IInv, TypeOK, RightEdge
<1>3. /\ sent' = [by |-> by, normal |-> normal, wire |-> WireField(new), before |-> RightEdge]
      /\ rcv_wnd' = new /\ rcv_wup' = bytes
  BY DEF Offer
<1>4. /\ sent' \in [by : Senders, normal : Nat, wire : 0..MaxScaled, before : Nat]
      /\ sent'.by = by
  BY <1>2, <1>3, WireFits
<1>5. rcv_wnd' \in Nat /\ rcv_wup' \in 0..bytes'
  BY <1>1, <1>2, <1>3
<1> QED BY <1>1, <1>4, <1>5 DEF TWInv, SentAsCalled

\* A step of the controller's environment leaves the socket alone.
LEMMA QuietInv ==
  ASSUME TWInv, [Next]_vars, UNCHANGED <<st, call, rcv_wnd, rcv_wup, sent>>,
         bytes' >= bytes, nomem' \in BOOLEAN, unread' \in 0..Buffer
  PROVE  TWInv'
<1>1. IInv'
  BY NextIInv DEF TWInv
<1>2. rcv_wup' \in 0..bytes'
  BY <1>1 DEF TWInv, IInv, TypeOK
<1> QED BY <1>1, <1>2 DEF TWInv, SentAsCalled

\* Whatever window is chosen, not going below the last offer keeps it a
\* natural, and the dynamic controller is not held to the last offer.
LEMMA KeepOfferNat ==
  ASSUME SocketOK, NEW new \in Nat
  PROVE  /\ KeepOffer(new) \in Nat
         /\ LeoDynamicOn => KeepOffer(new) = new
         /\ ~LeoDynamicOn /\ ~ShrinkAllowed => KeepOffer(new) >= CurWin
<1>1. CurWin \in Nat
  BY DEF CurWin, MaxOf, SocketOK
<1>2. AlignUp(CurWin) \in Nat /\ CurWin <= AlignUp(CurWin)
  BY <1>1, AlignUpGrows
<1> QED BY <1>1, <1>2 DEF KeepOffer

\* A segment sent under the dynamic controller.
LEMMA SendControlledInv ==
  ASSUME TWInv, NEW rtt \in RcvRtts, NEW mss \in RcvMsses, NEW ssthresh \in SsThreshes,
         SendControlled(rtt, mss, ssthresh)
  PROVE  TWInv'
<1> DEFINE normal == StockWindow(mss, ssthresh)
<1>1. SocketOK
  BY TWInvSocket
<1>2. normal \in Nat /\ rtt \in Nat /\ mss \in Nat
  BY <1>1, StockWindowNat, InputAssumption
<1>3. /\ LeoDynamicOn
      /\ Control(normal, rtt, mss) \/ PassThrough(normal)
      /\ Offer("dynamic", normal, KeepOffer(call'.target))
      /\ UNCHANGED <<unread, nomem>>
  BY DEF SendControlled
<1> HIDE DEF normal
<1>4. IInv'
  BY <1>2, <1>3, ControlIInv, PassThroughIInv DEF TWInv
<1>5. bytes' = bytes /\ call'.normal = normal
  BY <1>3 DEF Control, PassThrough
<1>6. call'.target \in Nat
  BY <1>4 DEF IInv, TypeOK, Calls
<1>7. KeepOffer(call'.target) = call'.target
  BY <1>1, <1>3, <1>6, KeepOfferNat
<1>8. RightEdge \in Nat /\ bytes \in Nat
  BY DEF TWInv, IInv, TypeOK, RightEdge
<1>9. /\ sent' = [by |-> "dynamic", normal |-> normal, wire |-> WireField(call'.target),
                  before |-> RightEdge]
      /\ rcv_wnd' = call'.target /\ rcv_wup' = bytes
  BY <1>3, <1>7 DEF Offer
<1>10. sent' \in [by : Senders, normal : Nat, wire : 0..MaxScaled, before : Nat]
  BY <1>2, <1>6, <1>8, <1>9, WireFits DEF Senders
<1>11. SentAsCalled'
  <2>1. sent'.normal = call'.normal /\ sent'.wire = WireField(call'.target)
    BY <1>5, <1>9
  <2> QED BY <2>1 DEF SentAsCalled, WireField
<1>12. Aligned(st'.frozen_min_rwnd)
  <2>1. CASE PassThrough(normal)
    BY <2>1 DEF PassThrough, TWInv
  <2>2. CASE Control(normal, rtt, mss)
    <3> DEFINE in == Input(normal, rtt, mss)
    <3>1. in \in Inputs
      BY <1>2 DEF Input, Inputs, TWInv, IInv, TypeOK
    <3>2. MeasuredBefore(st, in)
      BY DEF Input, MeasuredBefore, TWInv, IInv, MeasuredPast
    <3>3. st' = DynamicTarget(st, sysctl, in).st
      BY <2>2 DEF Control
    <3>4. st \in LeoStates /\ sysctl \in Sysctls /\ Aligned(st.frozen_min_rwnd)
      BY DEF TWInv, IInv, TypeOK
    <3> HIDE DEF in
    <3> QED BY <3>1, <3>2, <3>3, <3>4, CallKeepsAligned
  <2> QED BY <1>3, <2>1, <2>2
<1>13. rcv_wnd' \in Nat /\ rcv_wup' \in 0..bytes' /\ unread' \in 0..Buffer /\ nomem' \in BOOLEAN
  BY <1>3, <1>5, <1>6, <1>8, <1>9 DEF TWInv
<1> QED BY <1>4, <1>10, <1>11, <1>12, <1>13 DEF TWInv, Aligned

\* Every step preserves the invariant.
LEMMA TWNextInv == TWInv /\ [TWNext]_twvars => TWInv'
<1> SUFFICES ASSUME TWInv, [TWNext]_twvars PROVE TWInv'
  OBVIOUS
<1>1. SocketOK
  BY TWInvSocket
<1>2. /\ bytes \in Nat /\ Buffer \in Nat /\ unread \in 0..Buffer /\ nomem \in BOOLEAN
  BY BufferAssumption DEF TWInv, IInv, TypeOK
<1>3. ASSUME NEW d \in TickSizes, Tick(d), UNCHANGED socket PROVE TWInv'
  <2>1. [Next]_vars
    BY <1>3 DEF Next
  <2> QED BY <1>2, <1>3, <2>1, QuietInv DEF Tick, socket
<1>4. ASSUME NEW w \in SysctlWrites, WriteSysctl(w[1], w[2]), UNCHANGED socket PROVE TWInv'
  <2>1. [Next]_vars
    BY <1>4 DEF Next
  <2> QED BY <1>2, <1>4, <2>1, QuietInv DEF WriteSysctl, socket
<1>5. ASSUME NEW n \in SegmentSizes, Arrive(n) PROVE TWInv'
  <2>1. [Next]_vars
    BY <1>5 DEF Next, Arrive
  <2>2. n \in Nat
    BY StreamAssumption, WidthAssumption
  <2>3. /\ bytes' = bytes + n /\ unread' = unread + n /\ unread + n <= Buffer
        /\ UNCHANGED <<st, call, rcv_wnd, rcv_wup, nomem, sent>>
    BY <1>5 DEF Arrive, Receive
  <2>4. bytes' >= bytes /\ unread' \in 0..Buffer
    BY <1>2, <2>2, <2>3
  <2> QED BY <1>2, <2>1, <2>3, <2>4, QuietInv
<1>6. ASSUME NEW n \in SegmentSizes, Drop(n) PROVE TWInv'
  BY <1>2, <1>6, QuietInv DEF Drop, vars
<1>7. ASSUME NEW k \in ReadSizes, Read(k) PROVE TWInv'
  <2>1. k \in Nat
    BY BufferAssumption
  <2>2. unread' \in 0..Buffer
    BY <1>2, <1>7, <2>1 DEF Read
  <2> QED BY <1>2, <1>7, <2>2, QuietInv DEF Read, vars
<1>8. CASE SendZeroWindow
  BY <1>8, OfferInv DEF SendZeroWindow, Senders
<1>9. ASSUME NEW mss \in RcvMsses, NEW ssthresh \in SsThreshes, SendFixed(mss, ssthresh)
      PROVE  TWInv'
  <2> DEFINE normal == StockWindow(mss, ssthresh)
             new    == KeepOffer(FixedClamp(normal, mss))
  <2>1. normal \in Nat /\ mss \in Nat
    BY <1>1, StockWindowNat, InputAssumption
  <2>2. Offer("fixed", normal, new) /\ UNCHANGED <<vars, unread, nomem>>
    BY <1>9 DEF SendFixed
  <2> HIDE DEF normal
  <2>3. new \in Nat
    BY <1>1, <2>1, FixedClampNat, KeepOfferNat
  <2> HIDE DEF new
  <2> QED BY <1>2, <2>1, <2>2, <2>3, OfferInv DEF Senders
<1>10. ASSUME NEW mss \in RcvMsses, NEW ssthresh \in SsThreshes, SendOrdinary(mss, ssthresh)
       PROVE  TWInv'
  <2> DEFINE normal == StockWindow(mss, ssthresh)
             new    == KeepOffer(normal)
  <2>1. normal \in Nat
    BY <1>1, StockWindowNat
  <2>2. Offer("ordinary", normal, new) /\ UNCHANGED <<vars, unread, nomem>>
    BY <1>10 DEF SendOrdinary
  <2> HIDE DEF normal
  <2>3. new \in Nat
    BY <1>1, <2>1, KeepOfferNat
  <2> HIDE DEF new
  <2> QED BY <1>2, <2>1, <2>2, <2>3, OfferInv DEF Senders
<1>11. CASE UNCHANGED twvars
  BY <1>2, <1>11, QuietInv DEF twvars, socket, vars
<1> QED
  BY <1>3, <1>4, <1>5, <1>6, <1>7, <1>8, <1>9, <1>10, <1>11, SendControlledInv DEF TWNext

\* The invariant holds in every reachable state.
THEOREM TWInvariance == TWSpec => []TWInv
BY TWInitInv, TWNextInv, PTL DEF TWSpec

-----------------------------------------------------------------------------
\* leo_min_rwnd, tcp_select_window: the peer of a controlled socket sees at
\* least the frozen floor, as far as the field can say it, and the window
\* state of the socket keeps its types, for every scale, buffer and setting.
THEOREM FloorOnTheWire == TWSpec => []WireFloor
<1>1. TWInv => WireFloor
  <2> SUFFICES ASSUME TWInv PROVE WireFloor
    OBVIOUS
  <2>1. SocketTypeOK
    BY DEF TWInv, IInv, SocketTypeOK
  <2>f. FloorKept
    BY DEF TWInv, IInv
  <2>2. ASSUME sent.by = "dynamic", call.ran, st.current_phase # NORMAL,
               sent.normal >= st.frozen_min_rwnd
        PROVE  sent.wire * ScaleUnit >= MinOf(st.frozen_min_rwnd, MaxScaled * ScaleUnit)
    <3>1. sent.normal = call.normal /\ sent.wire = WireField(call.target)
      BY <2>2 DEF TWInv, SentAsCalled
    <3>2. st.frozen_min_rwnd \in Nat /\ call.target \in Nat /\ call.normal \in Nat
      BY DEF TWInv, IInv, TypeOK, LeoStates, Calls
    <3>3. call.target >= MinOf(call.normal, st.frozen_min_rwnd)
      BY <2>2 DEF TWInv, IInv, FloorKept
    <3>4. st.frozen_min_rwnd <= call.target
      BY <2>2, <3>1, <3>2, <3>3 DEF MinOf
    <3>5. WireField(call.target) * ScaleUnit
            >= MinOf(st.frozen_min_rwnd, MaxScaled * ScaleUnit)
      BY <3>2, <3>4, WireKeepsFloor DEF TWInv
    <3> QED BY <3>1, <3>5
  <2> QED BY <2>1, <2>f, <2>2 DEF WireFloor
<1> QED BY <1>1, TWInvariance, PTL

\* tcp_select_window, "Never shrink the offered window": for every buffer,
\* every mss and every setting of the fixed controller.
THEOREM OfferIsKept == TWSpec => OfferKept
<1> DEFINE Kept == sent'.by \in {"fixed", "ordinary"} /\ ~ShrinkAllowed
                      => RightEdge' >= RightEdge
<1>1. TWInv /\ [TWNext]_twvars => [Kept]_twvars
  <2> SUFFICES ASSUME TWInv, [TWNext]_twvars,
                      sent'.by \in {"fixed", "ordinary"}, ~ShrinkAllowed
               PROVE  RightEdge' >= RightEdge
    OBVIOUS
  <2>1. SocketOK /\ RightEdge \in Nat /\ bytes \in Nat
    BY TWInvSocket DEF TWInv, IInv, TypeOK, RightEdge
  <2>2. CASE rcv_wnd' = rcv_wnd /\ rcv_wup' = rcv_wup
    BY <2>1, <2>2 DEF RightEdge
  <2>3. ASSUME NEW new \in Nat, rcv_wnd' = new, rcv_wup' = bytes, new >= CurWin
        PROVE  RightEdge' >= RightEdge
    BY <2>1, <2>3 DEF RightEdge, CurWin, MaxOf, SocketOK
  <2>4. ASSUME NEW mss \in RcvMsses, NEW ssthresh \in SsThreshes, SendFixed(mss, ssthresh)
        PROVE  RightEdge' >= RightEdge
    <3> DEFINE normal == StockWindow(mss, ssthresh)
               c      == FixedClamp(normal, mss)
    <3>1. normal \in Nat /\ mss \in Nat
      BY <2>1, StockWindowNat, InputAssumption
    <3>2. ~LeoDynamicOn /\ rcv_wnd' = KeepOffer(c) /\ rcv_wup' = bytes
      BY <2>4 DEF SendFixed, Offer, LeoDynamicOn
    <3> HIDE DEF normal
    <3>3. c \in Nat
      BY <2>1, <3>1, FixedClampNat
    <3> HIDE DEF c
    <3>4. KeepOffer(c) \in Nat /\ KeepOffer(c) >= CurWin
      BY <2>1, <3>2, <3>3, KeepOfferNat
    <3> QED BY <2>3, <3>2, <3>4
  <2>5. ASSUME NEW mss \in RcvMsses, NEW ssthresh \in SsThreshes, SendOrdinary(mss, ssthresh)
        PROVE  RightEdge' >= RightEdge
    <3> DEFINE normal == StockWindow(mss, ssthresh)
    <3>1. normal \in Nat
      BY <2>1, StockWindowNat
    <3>2. ~LeoDynamicOn /\ rcv_wnd' = KeepOffer(normal) /\ rcv_wup' = bytes
      BY <2>5 DEF SendOrdinary, Offer, LeoDynamicOn
    <3> HIDE DEF normal
    <3>4. KeepOffer(normal) \in Nat /\ KeepOffer(normal) >= CurWin
      BY <2>1, <3>1, <3>2, KeepOfferNat
    <3> QED BY <2>3, <3>2, <3>4
  <2>6. ASSUME NEW rtt \in RcvRtts, NEW mss \in RcvMsses, NEW ssthresh \in SsThreshes,
               SendControlled(rtt, mss, ssthresh)
        PROVE  FALSE
    BY <2>6 DEF SendControlled, Offer
  <2>7. CASE SendZeroWindow
    BY <2>7 DEF SendZeroWindow, Offer
  <2>8. ~(rcv_wnd' = rcv_wnd /\ rcv_wup' = rcv_wup)
          => \/ SendZeroWindow
             \/ \E mss \in RcvMsses, ssthresh \in SsThreshes :
                   \/ \E rtt \in RcvRtts : SendControlled(rtt, mss, ssthresh)
                   \/ SendFixed(mss, ssthresh)
                   \/ SendOrdinary(mss, ssthresh)
    BY DEF TWNext, twvars, socket, Arrive, Drop, Read
  <2> QED BY <2>2, <2>4, <2>5, <2>6, <2>7, <2>8
<1> QED BY <1>1, TWInvariance, PTL DEF TWSpec, OfferKept
=============================================================================
