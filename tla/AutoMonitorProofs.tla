-------------------------- MODULE AutoMonitorProofs --------------------------
(***************************************************************************)
(* The kernel follows the monitor, for all targets, periods, phase errors, *)
(* windows and thresholds, through failing writes, crashes and restarts.   *)
(***************************************************************************)
EXTENDS AutoMonitor, FiniteSetTheorems, SequenceTheorems, TLAPS

-----------------------------------------------------------------------------
(* Histories and their medians.                                            *)

\* A bounded history is a sequence of at most n elements.
LEMMA BoundedIs ==
  ASSUME NEW S, NEW n \in Nat, NEW s
  PROVE  s \in BoundedSeq(S, n) <=> s \in Seq(S) /\ Len(s) <= n
<1>1. ASSUME s \in BoundedSeq(S, n) PROVE s \in Seq(S) /\ Len(s) <= n
  <2>1. CASE s = <<>>
    BY <2>1
  <2>2. ASSUME NEW k \in 1..n, s \in [1..k -> S] PROVE s \in Seq(S) /\ Len(s) <= n
    <3>1. s \in Seq(S)
      BY <2>2, IsASeq
    <3>2. Len(s) = k
      BY <2>2
    <3> QED BY <3>1, <3>2
  <2> QED BY <1>1, <2>1, <2>2 DEF BoundedSeq
<1>2. ASSUME s \in Seq(S), Len(s) <= n PROVE s \in BoundedSeq(S, n)
  <2>1. s \in [1..Len(s) -> S] /\ Len(s) \in Nat
    BY <1>2, LenProperties
  <2>2. CASE Len(s) = 0
    BY <1>2, <2>2, EmptySeq DEF BoundedSeq
  <2>3. CASE Len(s) # 0
    <3>1. Len(s) \in 1..n
      BY <1>2, <2>1, <2>3
    <3> QED BY <2>1, <3>1 DEF BoundedSeq
  <2> QED BY <2>2, <2>3
<1> QED BY <1>1, <1>2

\* deque.append keeps a history within its window and leaves it non-empty.
LEMMA PushBounded ==
  ASSUME NEW S, NEW n \in Nat \ {0}, NEW s \in BoundedSeq(S, n), NEW x \in S
  PROVE  /\ Push(s, x, n) \in BoundedSeq(S, n)
         /\ Push(s, x, n) \in Seq(S) /\ Len(Push(s, x, n)) \in Nat \ {0}
<1> DEFINE p == Push(s, x, n)
<1>1. s \in Seq(S) /\ Len(s) \in Nat /\ Len(s) <= n
  BY BoundedIs, LenProperties
<1>2. CASE Len(s) < n
  <2>1. p = Append(s, x)
    BY <1>2 DEF Push
  <2>2. p \in Seq(S) /\ Len(p) = Len(s) + 1
    BY <1>1, <2>1, AppendProperties
  <2> HIDE DEF p
  <2> QED BY <1>1, <1>2, <2>2, BoundedIs DEF p
<1>3. CASE ~(Len(s) < n)
  <2>1. p = Append(Tail(s), x)
    BY <1>3 DEF Push
  <2>2. s # <<>>
    BY <1>1, <1>3, EmptySeq
  <2>3. Tail(s) \in Seq(S) /\ Len(Tail(s)) = Len(s) - 1
    BY <1>1, <2>2, HeadTailProperties
  <2>4. p \in Seq(S) /\ Len(p) = Len(Tail(s)) + 1
    BY <2>1, <2>3, AppendProperties
  <2> HIDE DEF p
  <2> QED BY <1>1, <1>3, <2>3, <2>4, BoundedIs DEF p
<1> QED BY <1>2, <1>3

\* A non-empty set of naturals has a least element.
LEMMA LeastNat ==
  ASSUME NEW T \in SUBSET Nat, T # {}
  PROVE  \E x \in T : \A y \in T : x <= y
<1>1. PICK x \in T : \A y \in T : ~(<<y, x>> \in OpToRel(<, Nat))
  BY WFMin, NatLessThanWellFounded
<1>2. \A y \in T : ~(y < x)
  BY <1>1 DEF OpToRel
<1> QED BY <1>2

\* The positions of a sequence that hold no more than x, and less than x.
Upto(s, x)  == {i \in DOMAIN s : s[i] <= x}
Below(s, x) == {i \in DOMAIN s : s[i] < x}

\* How many there are: a larger element counts more.
LEMMA UptoCard ==
  ASSUME NEW s \in Seq(Int)
  PROVE  /\ IsFiniteSet(DOMAIN s) /\ Cardinality(DOMAIN s) = Len(s) /\ DOMAIN s = 1..Len(s)
         /\ \A x \in Int : Cardinality(Upto(s, x)) \in 0..Len(s)
         /\ \A i, j \in DOMAIN s : s[i] < s[j]
              => Cardinality(Upto(s, s[i])) < Cardinality(Upto(s, s[j]))
<1> DEFINE D == DOMAIN s
           n == Len(s)
<1>1. n \in Nat /\ D = 1..n /\ \A i \in D : s[i] \in Int
  BY LenProperties
<1> HIDE DEF n
<1>2. IsFiniteSet(D) /\ Cardinality(D) = n
  BY <1>1, FS_Interval
<1> HIDE DEF D
<1>3. ASSUME NEW A \in SUBSET D PROVE IsFiniteSet(A) /\ Cardinality(A) \in 0..n
  <2>1. IsFiniteSet(A) /\ Cardinality(A) <= n
    BY <1>2, FS_Subset
  <2>2. Cardinality(A) \in Nat
    BY <2>1, FS_CardinalityType
  <2> QED BY <1>1, <2>1, <2>2
<1>4. \A x \in Int : Upto(s, x) \in SUBSET D
  BY DEF Upto, D
<1>5. ASSUME NEW i \in D, NEW j \in D, s[i] < s[j]
      PROVE  Cardinality(Upto(s, s[i])) < Cardinality(Upto(s, s[j]))
  <2> DEFINE A == Upto(s, s[i])
             B == Upto(s, s[j])
  <2>1. A \subseteq B /\ j \in B /\ j \notin A
    BY <1>1, <1>5 DEF Upto, D
  <2>2. B \in SUBSET D /\ A \in SUBSET D
    BY <1>1, <1>4
  <2> HIDE DEF A, B
  <2>3. Cardinality(A) <= Cardinality(B) /\ (Cardinality(A) = Cardinality(B) => A = B)
    BY <1>3, <2>1, <2>2, FS_Subset
  <2>4. Cardinality(A) \in Nat /\ Cardinality(B) \in Nat
    BY <1>1, <1>3, <2>2
  <2>5. Cardinality(A) < Cardinality(B)
    BY <2>1, <2>3, <2>4
  <2> QED BY <2>5 DEF A, B
<1> QED BY <1>1, <1>2, <1>3, <1>4, <1>5 DEF D, n

\* Among some positions of a sequence one holds the largest element.
LEMMA Largest ==
  ASSUME NEW s \in Seq(Int), NEW C \in SUBSET DOMAIN s, C # {}
  PROVE  \E j \in C : \A i \in C : s[i] <= s[j]
<1> DEFINE n    == Len(s)
           c(i) == Cardinality(Upto(s, s[i]))
           T    == {n - c(i) : i \in C}
<1>1. n \in Nat /\ \A i \in DOMAIN s : s[i] \in Int
  BY LenProperties
<1>2. \A i \in C : c(i) \in 0..n
  BY <1>1, UptoCard
<1>3. \A i, j \in C : s[i] < s[j] => c(i) < c(j)
  BY UptoCard
<1> HIDE DEF n, c
<1>4. T \in SUBSET Nat /\ T # {}
  BY <1>1, <1>2
<1>5. PICK t \in T : \A y \in T : t <= y
  <2> HIDE DEF T
  <2> QED BY <1>4, LeastNat
<1>6. PICK j \in C : t = n - c(j)
  BY <1>5
<1>7. ASSUME NEW i \in C PROVE s[i] <= s[j]
  <2>1. n - c(j) <= n - c(i)
    BY <1>5, <1>6
  <2>2. ~(c(j) < c(i))
    BY <1>1, <1>2, <2>1
  <2> QED BY <1>1, <1>3, <2>2
<1> QED BY <1>7

\* statistics.median picks elements of the history: the k-th smallest exists.
LEMMA RankedIn ==
  ASSUME NEW s \in Seq(Int), NEW k \in 1..Len(s)
  PROVE  \E i \in DOMAIN s : Ranked(s, k) = s[i]
<1> DEFINE n    == Len(s)
           D    == DOMAIN s
           c(i) == Cardinality(Upto(s, s[i]))
           T    == {c(i) : i \in {h \in D : k <= c(h)}}
<1>1. n \in Nat /\ k \in 1..n /\ D = 1..n /\ \A i \in D : s[i] \in Int
  BY LenProperties
<1>2. \A i \in D : c(i) \in 0..n
  BY <1>1, UptoCard
<1>3. \A i, j \in D : s[i] < s[j] => c(i) < c(j)
  BY UptoCard
<1>4. IsFiniteSet(D) /\ Cardinality(D) = n
  BY UptoCard
<1> HIDE DEF n
<1>5. PICK top \in D : \A i \in D : s[i] <= s[top]
  <2>1. D # {}
    BY <1>1
  <2> QED BY <2>1, Largest
<1>6. Upto(s, s[top]) = D
  BY <1>5 DEF Upto
<1>7. c(top) = n
  BY <1>4, <1>6
<1> HIDE DEF D, c
<1>8. T \in SUBSET Nat /\ T # {}
  <2>1. \A i \in D : c(i) \in Nat
    BY <1>1, <1>2
  <2>2. k <= c(top)
    BY <1>1, <1>7
  <2> QED BY <2>1, <2>2
<1>9. PICK t \in T : \A y \in T : t <= y
  <2> HIDE DEF T
  <2> QED BY <1>8, LeastNat
<1>10. PICK m1 \in D : t = c(m1) /\ k <= c(m1)
  BY <1>9
<1>11. ASSUME NEW h \in D, k <= c(h) PROVE c(m1) <= c(h)
  BY <1>9, <1>10, <1>11
<1> DEFINE B == Below(s, s[m1])
<1>12. B \in SUBSET D /\ IsFiniteSet(B) /\ Cardinality(B) \in Nat
  <2>1. B \in SUBSET D
    BY DEF Below, D
  <2> QED BY <1>4, <2>1, FS_Subset, FS_CardinalityType
<1>13. Cardinality(B) < k
  <2> SUFFICES ASSUME k <= Cardinality(B) PROVE FALSE
    BY <1>1, <1>12
  <2>1. B # {}
    <3> HIDE DEF B
    <3>1. k \in Int /\ k >= 1
      BY <1>1
    <3>2. B = {} => Cardinality(B) = 0
      BY FS_EmptySet
    <3> QED BY <1>12, <3>1, <3>2
  <2>2. PICK j \in B : \A i \in B : s[i] <= s[j]
    <3> HIDE DEF B
    <3> QED BY <1>12, <2>1, Largest DEF D
  <2>3. j \in D /\ s[j] < s[m1]
    BY <1>12, <2>2 DEF Below
  <2>4. B \subseteq Upto(s, s[j]) /\ Upto(s, s[j]) \subseteq D
    BY <2>2 DEF Upto, Below, D
  <2>5. Cardinality(B) <= c(j)
    <3> HIDE DEF B
    <3>1. IsFiniteSet(Upto(s, s[j]))
      BY <1>4, <2>4, FS_Subset
    <3> QED BY <2>4, <3>1, FS_Subset DEF c
  <2>6. c(j) < c(m1)
    BY <1>3, <1>10, <2>3
  <2>7. k <= c(j)
    BY <1>1, <1>2, <1>12, <2>3, <2>5
  <2>8. c(m1) <= c(j)
    BY <1>11, <2>3, <2>7
  <2> QED BY <1>1, <1>2, <1>10, <2>3, <2>6, <2>8
<1> DEFINE R == {s[i] : i \in DOMAIN s}
           P(x) == Cardinality(Below(s, x)) < k /\ k <= Cardinality(Upto(s, x))
<1>14. s[m1] \in R /\ P(s[m1])
  BY <1>10, <1>13 DEF D, c
<1>15. Ranked(s, k) = CHOOSE x \in R : P(x)
  BY DEF Ranked, Below, Upto
<1> HIDE DEF P
<1>16. (CHOOSE x \in R : P(x)) \in R
  <2> HIDE DEF R
  <2> QED BY <1>14
<1> QED BY <1>15, <1>16

\* The median of a non-empty history of naturals is a natural, and of integers
\* an integer.
LEMMA MedianIn ==
  ASSUME NEW S \in SUBSET Int, NEW s \in Seq(S), Len(s) # 0
  PROVE  Median(s) \in Int /\ (S \subseteq Nat => Median(s) \in Nat)
<1> DEFINE n == Len(s)
           lo == (n + 1) \div 2
           hi == n \div 2 + 1
<1>1. n \in Nat \ {0} /\ s \in Seq(Int) /\ \A i \in DOMAIN s : s[i] \in S
  <2>1. n \in Nat /\ \A i \in DOMAIN s : s[i] \in S
    BY LenProperties, ElementOfSeq
  <2>2. s \in Seq(Int)
    BY SeqMonotonic
  <2> QED BY <2>1, <2>2
<1>2. lo \in 1..n /\ hi \in 1..n
  <2> HIDE DEF n
  <2> QED BY <1>1
<1> HIDE DEF lo, hi
<1>3. Ranked(s, lo) \in S /\ Ranked(s, hi) \in S
  BY <1>1, <1>2, RankedIn
<1>4. Median(s) = (Ranked(s, lo) + Ranked(s, hi)) \div 2
  BY DEF Median, lo, hi
<1> DEFINE a == Ranked(s, lo)
           b == Ranked(s, hi)
<1>5. a \in S /\ b \in S /\ Median(s) = (a + b) \div 2
  BY <1>3, <1>4
<1> HIDE DEF a, b
<1>6. (a + b) \div 2 \in Int
  BY <1>5
<1>7. S \subseteq Nat => (a + b) \div 2 \in Nat
  BY <1>5
<1> QED BY <1>5, <1>6, <1>7

-----------------------------------------------------------------------------
(* Numbers and writes.                                                     *)

\* What redhat_auto_monitor.py converts to milliseconds is a natural, and a
\* programmed period is never zero.
LEMMA MsNat ==
  ASSUME NEW period \in Nat, NEW anchor \in Nat
  PROVE  PeriodMs(period) \in Nat \ {0} /\ OffsetMs(period, anchor) \in Nat
<1>1. Resolution \in Nat \ {0}
  BY MonitorAssumption
<1>2. ASSUME NEW t \in Nat PROVE ToMs(t) \in Nat
  <2> DEFINE q == t \div Resolution
  <2>1. q \in Nat
    BY <1>1
  <2> HIDE DEF q
  <2>2. ToMs(t) = q \/ ToMs(t) = q + 1
    BY DEF ToMs, q
  <2> QED BY <2>1, <2>2
<1>3. PeriodMs(period) \in Nat \ {0}
  BY <1>2 DEF PeriodMs
<1> DEFINE a == ToMs(anchor)
           p == PeriodMs(period)
<1>4. a \in Nat /\ p \in Nat \ {0} /\ OffsetMs(period, anchor) = a % p
  BY <1>2, <1>3 DEF OffsetMs
<1> HIDE DEF a, p
<1>5. OffsetMs(period, anchor) \in Nat
  BY <1>4
<1> QED BY <1>3, <1>5

\* Writes <<name, value>> of sysctls.
Pairs == SysctlNames \X Nat

\* No sysctl is written twice by one handler.
Distinct(ws) == \A i, j \in DOMAIN ws : i # j => ws[i][1] # ws[j][1]

\* Once the writes ws have been made, name has the value v.
Will(sys, ws, name, v) ==
    \/ \E i \in DOMAIN ws : ws[i] = <<name, v>>
    \/ sys[name] = v /\ \A i \in DOMAIN ws : ws[i][1] # name

\* The period is written first, and only while the kernel is switched off.
PeriodFirst(sys, ws) ==
    \A i \in DOMAIN ws : ws[i][1] = "rwnd_period_ms" => i = 1 /\ sys.rwnd_enable = 0

\* What a write takes from the list it adds to the kernel.
LEMMA WriteWill ==
  ASSUME NEW sys \in Sysctls, NEW ws \in Seq(Pairs), ws # <<>>, Distinct(ws)
  PROVE  LET sys2 == [sys EXCEPT ![ws[1][1]] = ws[1][2]]
         IN  /\ sys2 \in Sysctls
             /\ Tail(ws) \in Seq(Pairs) /\ Distinct(Tail(ws))
             /\ PeriodFirst(sys, ws) => PeriodFirst(sys2, Tail(ws))
             /\ \A name \in SysctlNames, v \in Nat :
                    Will(sys, ws, name, v) => Will(sys2, Tail(ws), name, v)
<1> DEFINE sys2 == [sys EXCEPT ![ws[1][1]] = ws[1][2]]
           t == Tail(ws)
<1>1. Len(ws) \in Nat /\ DOMAIN ws = 1..Len(ws) /\ Len(ws) # 0
  BY LenProperties, EmptySeq
<1>2. t \in Seq(Pairs) /\ Len(t) = Len(ws) - 1 /\ DOMAIN t = 1..Len(t)
  BY HeadTailProperties, LenProperties
<1>3. \A i \in DOMAIN t : i + 1 \in DOMAIN ws /\ t[i] = ws[i + 1] /\ i + 1 # 1
  BY <1>1, <1>2
<1>4. \A i \in DOMAIN ws : i = 1 \/ (i - 1 \in DOMAIN t /\ t[i - 1] = ws[i])
  <2> SUFFICES ASSUME NEW i \in DOMAIN ws, i # 1 PROVE i - 1 \in DOMAIN t /\ t[i - 1] = ws[i]
    OBVIOUS
  <2>1. i - 1 \in DOMAIN t /\ (i - 1) + 1 = i
    BY <1>1, <1>2
  <2> QED BY <1>3, <2>1
<1> HIDE DEF t
<1>5. 1 \in DOMAIN ws /\ ws[1] \in Pairs
  BY <1>1, ElementOfSeq
<1>6. /\ ws[1][1] \in SysctlNames /\ ws[1][2] \in Nat /\ ws[1] = <<ws[1][1], ws[1][2]>>
  BY <1>5 DEF Pairs
<1>7. sys2 \in Sysctls
  BY <1>6 DEF Sysctls
<1>8. /\ sys2[ws[1][1]] = ws[1][2]
      /\ \A name \in SysctlNames : name # ws[1][1] => sys2[name] = sys[name]
  BY <1>6 DEF Sysctls
<1> HIDE DEF sys2
<1>9. Distinct(t)
  <2> SUFFICES ASSUME NEW i \in DOMAIN t, NEW j \in DOMAIN t, i # j PROVE t[i][1] # t[j][1]
    BY DEF Distinct
  <2>1. i + 1 # j + 1
    BY <1>2
  <2> QED BY <1>3, <2>1 DEF Distinct
<1>10. \A i \in DOMAIN t : t[i][1] # ws[1][1]
  BY <1>3, <1>5 DEF Distinct
<1>11. ASSUME PeriodFirst(sys, ws) PROVE PeriodFirst(sys2, t)
  BY <1>3, <1>11 DEF PeriodFirst
<1>12. ASSUME NEW name \in SysctlNames, NEW v \in Nat, Will(sys, ws, name, v)
       PROVE  Will(sys2, t, name, v)
  <2>1. CASE \E i \in DOMAIN ws : ws[i] = <<name, v>>
    <3>1. PICK i \in DOMAIN ws : ws[i] = <<name, v>>
      BY <2>1
    <3>2. CASE i = 1
      <4>1. ws[1][1] = name /\ ws[1][2] = v
        BY <3>1, <3>2
      <4> QED BY <1>8, <1>10, <4>1 DEF Will
    <3>3. CASE i # 1
      BY <1>4, <3>1, <3>3 DEF Will
    <3> QED BY <3>2, <3>3
  <2>2. CASE sys[name] = v /\ \A i \in DOMAIN ws : ws[i][1] # name
    BY <1>3, <1>5, <1>8, <2>2 DEF Will
  <2> QED BY <1>12, <2>1, <2>2 DEF Will
<1> QED BY <1>2, <1>7, <1>9, <1>11, <1>12 DEF sys2, t

\* The writes of an analysis of an active monitor: the phase, the guard, both
\* or neither.
Adjusts(ws) ==
    /\ ws \in Seq(Pairs) /\ Distinct(ws)
    /\ \A i \in DOMAIN ws : ws[i][1] \in {"rwnd_offset_ms", "prediction_guard_ms"}

\* enter_learning: whatever is written before, the kernel ends switched off,
\* and the period is not touched.
LEMMA DisableWill ==
  ASSUME NEW sys \in Sysctls, NEW ws, Adjusts(ws)
  PROVE  LET all == ws \o DisableWrites
         IN  /\ all \in Seq(Pairs) /\ Distinct(all) /\ PeriodFirst(sys, all)
             /\ Will(sys, all, "rwnd_enable", 0) /\ Will(sys, all, "dynamic_enable", 0)
<1> DEFINE all == ws \o DisableWrites
           n == Len(ws)
<1>1. /\ DisableWrites \in Seq(Pairs) /\ Len(DisableWrites) = 2
      /\ DisableWrites[1] = <<"rwnd_enable", 0>> /\ DisableWrites[2] = <<"dynamic_enable", 0>>
  BY DEF DisableWrites, Pairs, SysctlNames, Switches
<1>2. ws \in Seq(Pairs) /\ n \in Nat /\ DOMAIN ws = 1..n
  BY LenProperties DEF Adjusts
<1> DEFINE d == DisableWrites
<1>9. /\ all \in Seq(Pairs) /\ Len(all) = n + Len(d)
      /\ \A i \in 1..(n + Len(d)) : all[i] = IF i <= n THEN ws[i] ELSE d[i - n]
  <2> HIDE DEF d
  <2>1. d \in Seq(Pairs) /\ all = ws \o d
    BY <1>1 DEF d
  <2> HIDE DEF all
  <2> QED BY <1>2, <2>1, ConcatProperties
<1> HIDE DEF n, all
<1>3. /\ all \in Seq(Pairs) /\ Len(all) = n + 2
      /\ \A i \in 1..(n + 2) : all[i] = IF i <= n THEN ws[i] ELSE DisableWrites[i - n]
  BY <1>1, <1>9
<1>4. DOMAIN all = 1..(n + 2)
  BY <1>3, LenProperties
<1>5. /\ \A i \in 1..n : i \in DOMAIN all /\ all[i] = ws[i]
      /\ n + 1 \in DOMAIN all /\ all[n + 1] = <<"rwnd_enable", 0>>
      /\ n + 2 \in DOMAIN all /\ all[n + 2] = <<"dynamic_enable", 0>>
      /\ \A i \in DOMAIN all : i \in 1..n \/ i = n + 1 \/ i = n + 2
  <2>1. all[n + 1] = DisableWrites[1] /\ all[n + 2] = DisableWrites[2]
    <3>1. (n + 1) - n = 1 /\ (n + 2) - n = 2
      BY <1>2
    <3>2. n + 1 \in 1..(n + 2) /\ n + 2 \in 1..(n + 2) /\ ~(n + 1 <= n) /\ ~(n + 2 <= n)
      BY <1>2
    <3> QED BY <1>3, <3>1, <3>2
  <2> QED BY <1>1, <1>2, <1>3, <1>4, <2>1
<1>6. /\ \A i \in 1..n : all[i][1] \in {"rwnd_offset_ms", "prediction_guard_ms"}
      /\ all[n + 1][1] = "rwnd_enable" /\ all[n + 2][1] = "dynamic_enable"
  BY <1>2, <1>5 DEF Adjusts
<1>7. Distinct(all)
  <2>1. \A i, j \in 1..n : i # j => all[i][1] # all[j][1]
    BY <1>2, <1>5 DEF Adjusts, Distinct
  <2> QED BY <1>5, <1>6, <2>1 DEF Distinct
<1>8. PeriodFirst(sys, all)
  BY <1>5, <1>6 DEF PeriodFirst
<1> QED BY <1>3, <1>5, <1>7, <1>8 DEF Will, all

\* The list of an analysis: the offset if the phase is corrected, the guard if
\* it is changed; the rest of the kernel's settings are left alone.
LEMMA AdjustWill ==
  ASSUME NEW sys \in Sysctls, NEW resync \in BOOLEAN, NEW guarded \in BOOLEAN,
         NEW offset \in Nat, NEW guard \in Nat
  PROVE  LET ws == (IF resync THEN <<<<"rwnd_offset_ms", offset>>>> ELSE <<>>)
                   \o (IF guarded THEN <<<<"prediction_guard_ms", guard>>>> ELSE <<>>)
         IN  /\ Adjusts(ws)
             /\ resync => Will(sys, ws, "rwnd_offset_ms", offset)
             /\ ~resync => Will(sys, ws, "rwnd_offset_ms", sys.rwnd_offset_ms)
<1> DEFINE a == IF resync THEN <<<<"rwnd_offset_ms", offset>>>> ELSE <<>>
           b == IF guarded THEN <<<<"prediction_guard_ms", guard>>>> ELSE <<>>
           ws == a \o b
<1>1. /\ a \in Seq(Pairs) /\ Len(a) = (IF resync THEN 1 ELSE 0)
      /\ resync => a[1] = <<"rwnd_offset_ms", offset>>
  BY DEF Pairs, SysctlNames, AtLeastZero
<1>2. /\ b \in Seq(Pairs) /\ Len(b) = (IF guarded THEN 1 ELSE 0)
      /\ guarded => b[1] = <<"prediction_guard_ms", guard>>
  BY DEF Pairs, SysctlNames, AtLeastOne
<1> HIDE DEF a, b
<1>3. /\ ws \in Seq(Pairs) /\ Len(ws) = Len(a) + Len(b)
      /\ \A i \in 1..(Len(a) + Len(b)) : ws[i] = IF i <= Len(a) THEN a[i] ELSE b[i - Len(a)]
  BY <1>1, <1>2, ConcatProperties
<1> HIDE DEF ws
<1>4. DOMAIN ws = 1..(Len(a) + Len(b))
  BY <1>3, LenProperties
<1>5. CASE resync /\ guarded
  <2>1. DOMAIN ws = 1..2 /\ ws[1] = <<"rwnd_offset_ms", offset>>
        /\ ws[2] = <<"prediction_guard_ms", guard>>
    BY <1>1, <1>2, <1>3, <1>4, <1>5
  <2> QED BY <1>3, <1>5, <2>1 DEF Adjusts, Distinct, Will, ws, a, b
<1>6. CASE resync /\ ~guarded
  <2>1. DOMAIN ws = 1..1 /\ ws[1] = <<"rwnd_offset_ms", offset>>
    BY <1>1, <1>2, <1>3, <1>4, <1>6
  <2> QED BY <1>3, <1>6, <2>1 DEF Adjusts, Distinct, Will, ws, a, b
<1>7. CASE ~resync /\ guarded
  <2>1. DOMAIN ws = 1..1 /\ ws[1] = <<"prediction_guard_ms", guard>>
    BY <1>1, <1>2, <1>3, <1>4, <1>7
  <2> QED BY <1>3, <1>7, <2>1 DEF Adjusts, Distinct, Will, ws, a, b
<1>8. CASE ~resync /\ ~guarded
  <2>1. DOMAIN ws = {}
    BY <1>1, <1>2, <1>3, <1>4, <1>8
  <2> QED BY <1>3, <1>8, <2>1 DEF Adjusts, Distinct, Will, ws, a, b
<1> QED BY <1>5, <1>6, <1>7, <1>8

\* program_redhat: the timing first, then the switches.
LEMMA ProgramWill ==
  ASSUME NEW sys \in Sysctls, NEW period \in Nat, NEW anchor \in Nat, sys.rwnd_enable = 0
  PROVE  LET ws == ProgramWrites(period, anchor)
         IN  /\ ws \in Seq(Pairs) /\ Distinct(ws) /\ PeriodFirst(sys, ws)
             /\ Will(sys, ws, "rwnd_enable", 1) /\ Will(sys, ws, "dynamic_enable", 1)
             /\ Will(sys, ws, "rwnd_period_ms", PeriodMs(period))
             /\ Will(sys, ws, "rwnd_offset_ms", OffsetMs(period, anchor))
<1> DEFINE p == PeriodMs(period)
           o == OffsetMs(period, anchor)
           ws == ProgramWrites(period, anchor)
<1>1. p \in Nat /\ o \in Nat
  BY MsNat
<1>2. ws = <<<<"rwnd_period_ms", p>>, <<"rwnd_offset_ms", o>>,
             <<"rwnd_enable", 1>>, <<"dynamic_enable", 1>>>>
  BY DEF ProgramWrites
<1> HIDE DEF p, o
<1>3. ws \in Seq(Pairs)
  BY <1>1, <1>2 DEF Pairs, SysctlNames, Switches, AtLeastOne, AtLeastZero
<1>4. /\ DOMAIN ws = 1..4 /\ ws[1] = <<"rwnd_period_ms", p>> /\ ws[2] = <<"rwnd_offset_ms", o>>
      /\ ws[3] = <<"rwnd_enable", 1>> /\ ws[4] = <<"dynamic_enable", 1>>
  BY <1>2
<1> HIDE DEF ws
<1>5. \A i \in DOMAIN ws : i = 1 \/ i = 2 \/ i = 3 \/ i = 4
  BY <1>4
<1>6. Distinct(ws) /\ PeriodFirst(sys, ws)
  BY <1>4, <1>5 DEF Distinct, PeriodFirst
<1>7. /\ Will(sys, ws, "rwnd_enable", 1) /\ Will(sys, ws, "dynamic_enable", 1)
      /\ Will(sys, ws, "rwnd_period_ms", p) /\ Will(sys, ws, "rwnd_offset_ms", o)
  BY <1>4 DEF Will
<1> QED BY <1>3, <1>6, <1>7 DEF ws, p, o

-----------------------------------------------------------------------------
(* The invariant.                                                          *)

Modes == {LEARNING, CONFIRM, SLEEP, VALIDATE}

MonStates ==
    [active : BOOLEAN, mode : Modes, locked : Nat, anchor : Nat, targets : SUBSET Targets,
     fits : BoundedSeq(Periods, LockWindow), errors : BoundedSeq(PhaseErrors, ConsensusWindow),
     samples : Nat, guard : Nat, mismatch : Nat, valid : Nat]

\* A controller state the loop may come back to: it has not counted enough
\* mismatches to relearn, and an active one watches enough targets.
StateOK(s) ==
    /\ s \in MonStates
    /\ s.mismatch # 0 => s.mismatch < RelearnCount
    /\ s.active => Cardinality(s.targets) >= MinTargets

On(s) == IF s.active THEN 1 ELSE 0

\* Once the writes ws are made, the kernel is what the state s asks for.
Follow(sys, ws, s) ==
    /\ Will(sys, ws, "rwnd_enable", On(s)) /\ Will(sys, ws, "dynamic_enable", On(s))
    /\ s.active => /\ Will(sys, ws, "rwnd_period_ms", PeriodMs(s.locked))
                   /\ Will(sys, ws, "rwnd_offset_ms", OffsetMs(s.locked, s.anchor))

MonInv ==
    /\ sysctl \in Sysctls /\ alive \in BOOLEAN
    /\ todo \in Seq(Pairs) /\ Distinct(todo) /\ PeriodFirst(sysctl, todo)
    /\ StateOK(m) /\ timer \in [Timers -> Nat] /\ procs \subseteq Targets
    /\ alive => Follow(sysctl, todo, m)

\* With nothing left to write, the kernel is what it will be.
LEMMA WillNow ==
  ASSUME NEW sys, NEW name, NEW v
  PROVE  Will(sys, <<>>, name, v) <=> sys[name] = v
BY DEF Will

\* The empty list of writes.
LEMMA NoWrites == Adjusts(<<>>)
BY DEF Adjusts, Distinct

\* The state of main() at the start.
LEMMA FreshOK == StateOK(FreshState) /\ ~FreshState.active
<1>1. <<>> \in BoundedSeq(Periods, LockWindow) /\ <<>> \in BoundedSeq(PhaseErrors, ConsensusWindow)
  BY DEF BoundedSeq
<1> DEFINE F == BoundedSeq(Periods, LockWindow)
           E == BoundedSeq(PhaseErrors, ConsensusWindow)
<1>2. <<>> \in F /\ <<>> \in E
  BY <1>1
<1> HIDE DEF F, E
<1>3. FreshState \in [active : BOOLEAN, mode : Modes, locked : Nat, anchor : Nat,
                      targets : SUBSET Targets, fits : F, errors : E, samples : Nat,
                      guard : Nat, mismatch : Nat, valid : Nat]
  BY <1>2 DEF FreshState, Modes
<1>4. ~FreshState.active /\ FreshState.mismatch = 0
  BY DEF FreshState
<1> QED BY <1>3, <1>4 DEF StateOK, MonStates, F, E

\* start_probe_processes starts some of the targets it is given.
LEMMA StartedSome ==
  ASSUME NEW ts \in SUBSET Targets, NEW p \in Started(ts)
  PROVE  p \subseteq Targets
BY DEF Started

\* A state that is switched off is followed by any list that switches off.
LEMMA FollowOff ==
  ASSUME NEW sys, NEW ws, NEW s, ~s.active,
         Will(sys, ws, "rwnd_enable", 0), Will(sys, ws, "dynamic_enable", 0)
  PROVE  Follow(sys, ws, s)
BY DEF Follow, On

\* enter_learning
LEMMA EnterLearningStep ==
  ASSUME MonInv, NEW ws, Adjusts(ws), EnterLearning(ws), UNCHANGED <<sysctl, alive>>
  PROVE  MonInv'
<1>1. /\ todo' = ws \o DisableWrites /\ m' = FreshState
      /\ procs' \subseteq Targets
  BY StartedSome DEF EnterLearning
<1>2. timer' \in [Timers -> Nat]
  <2> DEFINE c == IF m.locked = 0 THEN timer.cooldown ELSE CooldownCycles * m.locked
  <2>1. timer' = [timer EXCEPT !.learn = LearnTime, !.analysis = AnalysisEvery, !.cooldown = c]
    BY DEF EnterLearning
  <2>2. m.locked \in Nat /\ timer \in [Timers -> Nat] /\ "cooldown" \in Timers
    BY DEF MonInv, StateOK, MonStates, Timers
  <2>3. c \in Nat /\ LearnTime \in Nat /\ AnalysisEvery \in Nat
    BY <2>2, MonitorAssumption
  <2> HIDE DEF c
  <2> QED BY <2>1, <2>2, <2>3
<1> DEFINE all == ws \o DisableWrites
<1>3. /\ all \in Seq(Pairs) /\ Distinct(all) /\ PeriodFirst(sysctl, all)
      /\ Will(sysctl, all, "rwnd_enable", 0) /\ Will(sysctl, all, "dynamic_enable", 0)
  BY DisableWill DEF MonInv
<1> HIDE DEF all
<1>4. Follow(sysctl, all, FreshState)
  BY <1>3, FreshOK, FollowOff
<1>5. todo' = all
  BY <1>1 DEF all
<1> QED BY <1>1, <1>2, <1>3, <1>4, <1>5, FreshOK DEF MonInv

\* Writes of an analysis never name the period.
LEMMA AdjustsPeriod ==
  ASSUME NEW sys, NEW ws, Adjusts(ws)
  PROVE  PeriodFirst(sys, ws)
BY DEF Adjusts, PeriodFirst

\* enter_sleep
LEMMA EnterSleepStep ==
  ASSUME MonInv, NEW s, StateOK(s), NEW left \in [Timers -> Nat], NEW ws, Adjusts(ws),
         Follow(sysctl, ws, s), EnterSleep(s, left, ws), UNCHANGED <<sysctl, alive>>
  PROVE  MonInv'
<1> DEFINE n == [s EXCEPT !.mode = SLEEP, !.valid = 0]
<1>1. /\ todo' = ws /\ m' = n /\ procs' = {}
      /\ timer' = [left EXCEPT !.validation = ValidationInterval, !.analysis = 0]
  BY DEF EnterSleep
<1>2. timer' \in [Timers -> Nat]
  BY <1>1, MonitorAssumption
<1>3. /\ n \in MonStates /\ n.active = s.active /\ n.locked = s.locked /\ n.anchor = s.anchor
      /\ n.targets = s.targets /\ n.mismatch = s.mismatch
  BY DEF StateOK, MonStates, Modes
<1> HIDE DEF n
<1>4. StateOK(n)
  BY <1>3 DEF StateOK
<1>5. Follow(sysctl, ws, n)
  BY <1>3 DEF Follow, On
<1>6. ws \in Seq(Pairs) /\ Distinct(ws) /\ PeriodFirst(sysctl, ws)
  BY AdjustsPeriod DEF Adjusts
<1> QED BY <1>1, <1>2, <1>4, <1>5, <1>6 DEF MonInv

\* The deadline of a session
LEMMA CloseSessionStep ==
  ASSUME MonInv, NEW s, StateOK(s), NEW left \in [Timers -> Nat], NEW ws, Adjusts(ws),
         Follow(sysctl, ws, s), CloseSession(s, left, ws), UNCHANGED <<sysctl, alive>>
  PROVE  MonInv'
<1>1. EnterSleep(s, left, ws) \/ EnterLearning(ws)
  BY DEF CloseSession
<1> QED BY <1>1, EnterSleepStep, EnterLearningStep

\* start_validation
LEMMA StartValidationStep ==
  ASSUME MonInv, StartValidation
  PROVE  MonInv'
<1>1. todo = <<>> /\ UNCHANGED <<sysctl, alive>>
  BY DEF StartValidation
<1>2. CASE EnterLearning(<<>>)
  BY <1>1, <1>2, EnterLearningStep, NoWrites
<1>3. ASSUME NEW started \in Started(m.targets), procs' = started,
             m' = [m EXCEPT !.mode = VALIDATE, !.valid = 0, !.errors = <<>>, !.samples = 0],
             timer' = [timer EXCEPT !.session = ValidationCycles * m.locked,
                                    !.analysis = FirstAnalysis],
             UNCHANGED todo
      PROVE  MonInv'
  <2> DEFINE n == [m EXCEPT !.mode = VALIDATE, !.valid = 0, !.errors = <<>>, !.samples = 0]
             v == ValidationCycles * m.locked
             E == BoundedSeq(PhaseErrors, ConsensusWindow)
             F == BoundedSeq(Periods, LockWindow)
  <2>1. m.targets \in SUBSET Targets /\ m.locked \in Nat
    BY DEF MonInv, StateOK, MonStates
  <2>2. procs' \subseteq Targets
    BY <1>3, <2>1, StartedSome
  <2>3. v \in Nat /\ FirstAnalysis \in Nat /\ timer \in [Timers -> Nat]
    <3>1. ValidationCycles \in Nat /\ FirstAnalysis \in Nat
      BY MonitorAssumption
    <3>2. v \in Nat
      BY <2>1, <3>1
    <3> QED BY <3>1, <3>2 DEF MonInv
  <2> HIDE DEF v
  <2>4. timer' \in [Timers -> Nat]
    BY <1>3, <2>3 DEF v
  <2>5. <<>> \in E
    BY DEF BoundedSeq
  <2> HIDE DEF E, F
  <2>6. n \in MonStates /\ n.active = m.active /\ n.locked = m.locked /\ n.anchor = m.anchor
        /\ n.targets = m.targets /\ n.mismatch = m.mismatch
    BY <2>5 DEF MonInv, StateOK, MonStates, Modes, E, F
  <2>7. m' = n
    BY <1>3
  <2> HIDE DEF n
  <2>8. StateOK(n) /\ (alive => Follow(sysctl, todo, n))
    BY <2>6 DEF StateOK, MonInv, Follow, On
  <2> QED BY <1>1, <1>3, <2>2, <2>4, <2>7, <2>8 DEF MonInv
<1> QED BY <1>2, <1>3 DEF StartValidation

\* The deadline between two analyses
LEMMA BetweenStep ==
  ASSUME MonInv, BetweenAnalyses
  PROVE  MonInv'
<1>1. CloseSession(m, timer, <<>>) /\ UNCHANGED <<sysctl, alive>> /\ alive /\ todo = <<>>
  BY DEF BetweenAnalyses
<1>2. StateOK(m) /\ timer \in [Timers -> Nat] /\ Follow(sysctl, <<>>, m)
  BY <1>1 DEF MonInv
<1> QED BY <1>1, <1>2, NoWrites, CloseSessionStep

-----------------------------------------------------------------------------
(* One analysis.                                                           *)

\* What the steps of an analysis leave alone.
Core(s) == <<s.active, s.locked, s.targets>>

\* The period fit only counts towards relearning.
LEMMA JudgeState ==
  ASSUME NEW s \in MonStates, NEW fit
  PROVE  /\ Judge(s, fit) \in MonStates /\ Core(Judge(s, fit)) = Core(s)
         /\ Judge(s, fit).anchor = s.anchor
<1> DEFINE F == BoundedSeq(Periods, LockWindow)
           E == BoundedSeq(PhaseErrors, ConsensusWindow)
           a == [s EXCEPT !.mismatch = s.mismatch + 1]
           b == [s EXCEPT !.mismatch = 0]
<1>1. Judge(s, fit) = s \/ Judge(s, fit) = a \/ Judge(s, fit) = b
  BY DEF Judge
<1>2. s.mismatch + 1 \in Nat
  BY DEF MonStates
<1> HIDE DEF E, F
<1>3. a \in MonStates /\ Core(a) = Core(s) /\ a.anchor = s.anchor
  BY <1>2 DEF MonStates, Core, E, F
<1>4. b \in MonStates /\ Core(b) = Core(s) /\ b.anchor = s.anchor
  BY DEF MonStates, Core, E, F
<1> HIDE DEF a, b
<1> QED BY <1>1, <1>3, <1>4

\* An event on the lattice is added to the histories.
LEMMA TakeEventState ==
  ASSUME NEW s \in MonStates, NEW seen \in BOOLEAN, NEW err \in PhaseErrors
  PROVE  LET t == TakeEvent(s, seen, err)
         IN  /\ t \in MonStates /\ Core(t) = Core(s)
             /\ t.anchor = s.anchor /\ t.mismatch = s.mismatch
             /\ seen => t.errors \in Seq(PhaseErrors) /\ Len(t.errors) # 0
<1> DEFINE F == BoundedSeq(Periods, LockWindow)
           E == BoundedSeq(PhaseErrors, ConsensusWindow)
           e == Push(s.errors, err, ConsensusWindow)
           g == IF s.samples < GuardMinSamples THEN s.samples + 1 ELSE s.samples
           v == IF s.valid < ConfirmMin + ValidationMin THEN s.valid + 1 ELSE s.valid
           t == [s EXCEPT !.errors = e, !.samples = g, !.valid = v]
<1>1. TakeEvent(s, seen, err) = IF ~seen THEN s ELSE t
  BY DEF TakeEvent
<1>2. g \in Nat /\ v \in Nat
  BY DEF MonStates
<1>3. e \in E /\ e \in Seq(PhaseErrors) /\ Len(e) # 0
  <2>1. s.errors \in E /\ ConsensusWindow \in Nat \ {0}
    BY MonitorAssumption DEF MonStates
  <2> QED BY <2>1, PushBounded
<1> HIDE DEF E, F, e, g, v
<1>4. /\ t \in MonStates /\ Core(t) = Core(s)
      /\ t.anchor = s.anchor /\ t.mismatch = s.mismatch /\ t.errors = e
  BY <1>2, <1>3 DEF MonStates, Core, E, F
<1> HIDE DEF t
<1> QED BY <1>1, <1>3, <1>4

\* program_redhat_phase_only's correction: the anchor stays a natural whatever the sign of the error.
LEMMA ResyncState ==
  ASSUME NEW s \in MonStates, s.errors \in Seq(PhaseErrors), Len(s.errors) # 0
  PROVE  /\ Resync(s) \in MonStates /\ Core(Resync(s)) = Core(s)
         /\ Resync(s).mismatch = s.mismatch
<1> DEFINE F == BoundedSeq(Periods, LockWindow)
           E == BoundedSeq(PhaseErrors, ConsensusWindow)
           span == 2 * Resolution * PeriodMs(s.locked)
           x == (Median(s.errors) * AlphaPercent) \div 100
           a == (s.anchor + x) % span
           t == [s EXCEPT !.anchor = a, !.errors = <<>>]
<1>1. Resync(s) = t
  BY DEF Resync
<1>2. s.locked \in Nat /\ s.anchor \in Nat
  BY DEF MonStates
<1>3. span \in Nat \ {0}
  <2> DEFINE p == PeriodMs(s.locked)
             r == 2 * Resolution
  <2>3. Resolution \in Nat \ {0}
    BY MonitorAssumption
  <2>4. p \in Nat \ {0}
    BY <1>2, MsNat
  <2>5. r \in Nat \ {0}
    BY <2>3
  <2>1. p \in Nat \ {0} /\ r \in Nat \ {0}
    BY <2>4, <2>5
  <2> HIDE DEF p, r
  <2>2. r * p \in Nat \ {0}
    BY <2>1
  <2> QED BY <2>2 DEF p, r
<1>4. x \in Int
  <2> DEFINE md == Median(s.errors)
  <2>1. md \in Int /\ AlphaPercent \in Int
    BY MedianIn, MonitorAssumption
  <2> HIDE DEF md
  <2>2. md * AlphaPercent \in Int
    BY <2>1
  <2> DEFINE y == md * AlphaPercent
  <2> HIDE DEF y
  <2>3. y \div 100 \in Int
    BY <2>2 DEF y
  <2> QED BY <2>3 DEF y, md
<1> HIDE DEF span, x
<1>5. a \in Nat
  BY <1>2, <1>3, <1>4
<1>6. <<>> \in E
  BY DEF BoundedSeq
<1> HIDE DEF E, F, a
<1>7. t \in MonStates /\ Core(t) = Core(s) /\ t.mismatch = s.mismatch
  BY <1>5, <1>6 DEF MonStates, Core, E, F
<1> QED BY <1>1, <1>7

\* The state and the writes an analysis of an active monitor comes to.
LEMMA AnalysisState ==
  ASSUME NEW s \in MonStates, s.active, NEW sys \in Sysctls, Follow(sys, <<>>, s),
         NEW fit, NEW seen \in BOOLEAN, NEW err \in PhaseErrors, NEW guard \in GuardValues
  PROVE  LET judged  == Judge(s, fit)
             taken   == TakeEvent(judged, seen, err)
             resync  == seen /\ ResyncDue(taken)
             phased  == IF resync THEN Resync(taken) ELSE taken
             guarded == seen /\ GuardDue(phased, guard)
             final   == IF guarded THEN [phased EXCEPT !.guard = guard] ELSE phased
             writes  == (IF resync THEN PhaseWrites(final.locked, final.anchor) ELSE <<>>)
                        \o (IF guarded THEN <<<<"prediction_guard_ms", guard>>>> ELSE <<>>)
         IN  /\ final \in MonStates /\ Core(final) = Core(s)
             /\ final.mismatch = judged.mismatch
             /\ Adjusts(writes) /\ Follow(sys, writes, final)
<1> DEFINE judged  == Judge(s, fit)
           taken   == TakeEvent(judged, seen, err)
           resync  == seen /\ ResyncDue(taken)
           phased  == IF resync THEN Resync(taken) ELSE taken
           guarded == seen /\ GuardDue(phased, guard)
           set     == [phased EXCEPT !.guard = guard]
           final   == IF guarded THEN set ELSE phased
           offset  == OffsetMs(final.locked, final.anchor)
           writes  == (IF resync THEN <<<<"rwnd_offset_ms", offset>>>> ELSE <<>>)
                      \o (IF guarded THEN <<<<"prediction_guard_ms", guard>>>> ELSE <<>>)
<1>1. judged \in MonStates /\ Core(judged) = Core(s) /\ judged.anchor = s.anchor
  BY JudgeState
<1> HIDE DEF judged
<1>2. /\ taken \in MonStates /\ Core(taken) = Core(s)
      /\ taken.anchor = s.anchor /\ taken.mismatch = judged.mismatch
      /\ seen => taken.errors \in Seq(PhaseErrors) /\ Len(taken.errors) # 0
  BY <1>1, TakeEventState
<1> HIDE DEF taken
<1>3. resync \in BOOLEAN /\ guarded \in BOOLEAN
  BY DEF ResyncDue, GuardDue
<1>4. /\ phased \in MonStates /\ Core(phased) = Core(s) /\ phased.mismatch = judged.mismatch
      /\ ~resync => phased.anchor = s.anchor
  BY <1>2, ResyncState
<1> HIDE DEF resync, phased
<1>5. /\ set \in MonStates /\ Core(set) = Core(phased)
      /\ set.mismatch = phased.mismatch /\ set.anchor = phased.anchor
  <2> DEFINE F == BoundedSeq(Periods, LockWindow)
             E == BoundedSeq(PhaseErrors, ConsensusWindow)
  <2>1. guard \in Nat
    BY MonitorAssumption
  <2> HIDE DEF E, F
  <2> QED BY <1>4, <2>1 DEF MonStates, Core, E, F
<1> HIDE DEF guarded, set
<1>6. /\ final \in MonStates /\ Core(final) = Core(s) /\ final.mismatch = judged.mismatch
      /\ ~resync => final.anchor = s.anchor
  BY <1>4, <1>5
<1> HIDE DEF final
<1>7. final.locked = s.locked /\ final.active /\ final.locked \in Nat /\ final.anchor \in Nat
  BY <1>6 DEF Core, MonStates
<1>8. offset \in Nat /\ guard \in Nat
  BY <1>7, MsNat, MonitorAssumption
<1>9. ~resync => offset = sys.rwnd_offset_ms
  BY <1>6, <1>7, WillNow DEF Follow
<1> HIDE DEF offset
<1>10. /\ Adjusts(writes)
       /\ resync => Will(sys, writes, "rwnd_offset_ms", offset)
       /\ ~resync => Will(sys, writes, "rwnd_offset_ms", sys.rwnd_offset_ms)
  BY <1>3, <1>8, AdjustWill
<1> HIDE DEF writes
<1>11. Will(sys, writes, "rwnd_offset_ms", offset)
  BY <1>3, <1>9, <1>10
<1>12. ASSUME NEW name \in {"rwnd_enable", "dynamic_enable", "rwnd_period_ms"}
       PROVE  Will(sys, writes, name, sys[name])
  BY <1>10 DEF Will, Adjusts
<1>13. /\ sys["rwnd_enable"] = 1 /\ sys["dynamic_enable"] = 1
       /\ sys["rwnd_period_ms"] = PeriodMs(final.locked)
  BY <1>7, WillNow DEF Follow, On
<1>14. Follow(sys, writes, final)
  <2>1. /\ Will(sys, writes, "rwnd_enable", 1) /\ Will(sys, writes, "dynamic_enable", 1)
        /\ Will(sys, writes, "rwnd_period_ms", PeriodMs(final.locked))
    BY <1>12, <1>13
  <2> QED BY <1>7, <1>11, <2>1 DEF Follow, On, offset
<1>15. PhaseWrites(final.locked, final.anchor) = <<<<"rwnd_offset_ms", offset>>>>
  BY DEF PhaseWrites, offset
<1> QED BY <1>6, <1>10, <1>14, <1>15 DEF writes, final, set, guarded, phased, resync, taken, judged

\* An analysis while ACTIVE
LEMMA AnalyseActiveStep ==
  ASSUME MonInv, NEW fit, NEW seen \in BOOLEAN, NEW err \in PhaseErrors,
         NEW guard \in GuardValues, AnalyseActive(fit, seen, err, guard)
  PROVE  MonInv'
<1> DEFINE judged  == Judge(m, fit)
           taken   == TakeEvent(judged, seen, err)
           resync  == seen /\ ResyncDue(taken)
           phased  == IF resync THEN Resync(taken) ELSE taken
           guarded == seen /\ GuardDue(phased, guard)
           final   == IF guarded THEN [phased EXCEPT !.guard = guard] ELSE phased
           late    == [timer EXCEPT !.resync = ResyncCycles * m.locked]
           left    == IF resync THEN late ELSE timer
           writes  == (IF resync THEN PhaseWrites(final.locked, final.anchor) ELSE <<>>)
                      \o (IF guarded THEN <<<<"prediction_guard_ms", guard>>>> ELSE <<>>)
<1>1. /\ alive /\ todo = <<>> /\ m.active /\ UNCHANGED <<sysctl, alive>>
      /\ \/ judged.mismatch >= RelearnCount /\ EnterLearning(<<>>)
         \/ judged.mismatch < RelearnCount /\ CloseSession(final, left, writes)
         \/ EnterLearning(writes)
         \/ /\ judged.mismatch < RelearnCount
            /\ m' = final /\ todo' = writes
            /\ timer' = [left EXCEPT !.analysis = AnalysisEvery]
            /\ UNCHANGED procs
  BY DEF AnalyseActive, Analysing
<1>2. m \in MonStates /\ sysctl \in Sysctls /\ Follow(sysctl, <<>>, m)
      /\ timer \in [Timers -> Nat]
  BY <1>1 DEF MonInv, StateOK
<1>3. /\ final \in MonStates /\ Core(final) = Core(m) /\ final.mismatch = judged.mismatch
      /\ Adjusts(writes) /\ Follow(sysctl, writes, final)
  BY <1>1, <1>2, AnalysisState
<1>4. late \in [Timers -> Nat]
  <2> DEFINE v == ResyncCycles * m.locked
  <2>1. ResyncCycles \in Nat /\ m.locked \in Nat
    BY <1>2, MonitorAssumption DEF MonStates
  <2>2. v \in Nat
    BY <2>1
  <2> HIDE DEF v
  <2>3. [timer EXCEPT !.resync = v] \in [Timers -> Nat]
    BY <1>2, <2>2
  <2> QED BY <2>3 DEF v
<1>5. left \in [Timers -> Nat]
  BY <1>2, <1>4
<1> HIDE DEF judged, writes, final, left
<1>6. judged.mismatch < RelearnCount => StateOK(final)
  <2>1. m.active => Cardinality(m.targets) >= MinTargets
    BY DEF MonInv, StateOK
  <2> QED BY <1>3, <2>1 DEF StateOK, Core
<1>7. CASE EnterLearning(<<>>) \/ EnterLearning(writes)
  BY <1>1, <1>3, <1>7, NoWrites, EnterLearningStep
<1>8. CASE judged.mismatch < RelearnCount /\ CloseSession(final, left, writes)
  BY <1>1, <1>3, <1>5, <1>6, <1>8, CloseSessionStep
<1>9. CASE /\ judged.mismatch < RelearnCount
           /\ m' = final /\ todo' = writes
           /\ timer' = [left EXCEPT !.analysis = AnalysisEvery]
           /\ UNCHANGED procs
  <2>1. timer' \in [Timers -> Nat]
    <3>1. AnalysisEvery \in Nat
      BY MonitorAssumption
    <3> QED BY <1>5, <1>9, <3>1
  <2>2. writes \in Seq(Pairs) /\ Distinct(writes) /\ PeriodFirst(sysctl, writes)
    BY <1>3, AdjustsPeriod DEF Adjusts
  <2> QED BY <1>1, <1>3, <1>6, <1>9, <2>1, <2>2 DEF MonInv
<1> QED BY <1>1, <1>7, <1>8, <1>9

\* A good fit is added to the ones collected in LEARNING.
LEMMA LearnedFits ==
  ASSUME MonInv, NEW fit \in Observed
  PROVE  /\ Learned(fit) \in BoundedSeq(Periods, LockWindow)
         /\ MayActivate(fit) => Median(Learned(fit)) \in Nat
<1>1. m.fits \in BoundedSeq(Periods, LockWindow) /\ LockWindow \in Nat \ {0}
  BY MonitorAssumption DEF MonInv, StateOK, MonStates
<1>2. fit.quality = "good" => fit.period \in Periods
  BY DEF Observed, NoFit, Fits
<1> DEFINE p == Push(m.fits, fit.period, LockWindow)
<1>3. fit.quality = "good" => /\ p \in BoundedSeq(Periods, LockWindow)
                              /\ p \in Seq(Periods) /\ Len(p) # 0
  BY <1>1, <1>2, PushBounded
<1>4. Periods \in SUBSET Int /\ Periods \subseteq Nat
  BY MonitorAssumption
<1>5. fit.quality = "good" => Median(p) \in Nat
  <2> HIDE DEF p
  <2> QED BY <1>3, <1>4, MedianIn
<1>6. Learned(fit) = IF fit.quality = "good" THEN p ELSE m.fits
  BY DEF Learned
<1>7. MayActivate(fit) => fit.quality = "good"
  BY DEF MayActivate
<1> HIDE DEF p
<1> QED BY <1>1, <1>3, <1>5, <1>6, <1>7

\* An analysis while LEARNING
LEMMA LearnStep ==
  ASSUME MonInv, NEW fit \in Observed, Learn(fit)
  PROVE  MonInv'
<1> DEFINE f == Learned(fit)
           n == [m EXCEPT !.fits = f]
           E == BoundedSeq(PhaseErrors, ConsensusWindow)
           F == BoundedSeq(Periods, LockWindow)
<1>1. /\ m' = n /\ timer' = [timer EXCEPT !.analysis = AnalysisEvery]
      /\ UNCHANGED <<sysctl, alive, todo, procs>>
  BY DEF Learn
<1>2. f \in F
  BY LearnedFits
<1>3. timer' \in [Timers -> Nat]
  <2>1. AnalysisEvery \in Nat /\ timer \in [Timers -> Nat]
    BY MonitorAssumption DEF MonInv
  <2> QED BY <1>1, <2>1
<1> HIDE DEF E, F, f
<1>4. /\ n \in MonStates /\ n.active = m.active /\ n.locked = m.locked /\ n.anchor = m.anchor
      /\ n.targets = m.targets /\ n.mismatch = m.mismatch
  BY <1>2 DEF MonInv, StateOK, MonStates, E, F
<1> HIDE DEF n
<1>5. StateOK(n) /\ (alive => Follow(sysctl, todo, n))
  BY <1>4 DEF StateOK, MonInv, Follow, On
<1> QED BY <1>1, <1>3, <1>5 DEF MonInv

\* The activation: the kernel is switched off before it, so the period may be
\* written.
LEMMA ActivateStep ==
  ASSUME MonInv, NEW fit \in Observed, NEW anchor \in Anchors, NEW chosen \in SUBSET Targets,
         Activate(fit, anchor, chosen)
  PROVE  MonInv'
<1> DEFINE f == Learned(fit)
           period == Median(f)
           ts == IF Cardinality(chosen) >= MinTargets THEN chosen ELSE Targets
           n == [m EXCEPT !.active = TRUE, !.mode = CONFIRM, !.fits = f,
                    !.locked = period, !.anchor = anchor, !.mismatch = 0,
                    !.errors = <<>>, !.samples = 0, !.valid = 0, !.targets = ts]
           c == ConfirmCycles * period
           r == ResyncCycles * period
           ws == ProgramWrites(period, anchor)
           E == BoundedSeq(PhaseErrors, ConsensusWindow)
           F == BoundedSeq(Periods, LockWindow)
<1>1. /\ alive /\ todo = <<>> /\ ~m.active /\ MayActivate(fit)
      /\ m' = n /\ todo' = ws
      /\ timer' = [timer EXCEPT !.analysis = AnalysisEvery, !.session = c, !.resync = r]
      /\ UNCHANGED <<sysctl, alive, procs>>
  BY DEF Activate, Analysing
<1>2. f \in F /\ period \in Nat
  BY <1>1, LearnedFits
<1>3. anchor \in Nat
  BY MonitorAssumption
<1>4. sysctl \in Sysctls /\ sysctl.rwnd_enable = 0
  BY <1>1, WillNow DEF MonInv, Follow, On
<1> HIDE DEF f, period
<1>5. timer' \in [Timers -> Nat]
  <2>1. /\ AnalysisEvery \in Nat /\ timer \in [Timers -> Nat]
        /\ ConfirmCycles \in Nat /\ ResyncCycles \in Nat
    BY MonitorAssumption DEF MonInv
  <2>2. c \in Nat /\ r \in Nat
    BY <1>2, <2>1
  <2> HIDE DEF c, r
  <2> QED BY <1>1, <2>1, <2>2
<1>6. ts \in SUBSET Targets /\ Cardinality(ts) >= MinTargets
  <2>1. IsFiniteSet(Targets) /\ MinTargets \in 1..Cardinality(Targets)
    BY MonitorAssumption
  <2>2. Cardinality(Targets) \in Nat
    BY <2>1, FS_CardinalityType
  <2> QED BY <2>1, <2>2
<1>7. <<>> \in E
  BY DEF BoundedSeq
<1> HIDE DEF E, F, ts
<1>8. /\ n \in MonStates /\ n.active /\ n.locked = period /\ n.anchor = anchor
      /\ n.targets = ts /\ n.mismatch = 0
  BY <1>2, <1>3, <1>6, <1>7 DEF MonInv, StateOK, MonStates, Modes, E, F
<1> HIDE DEF n
<1>9. StateOK(n)
  BY <1>6, <1>8 DEF StateOK
<1>10. /\ ws \in Seq(Pairs) /\ Distinct(ws) /\ PeriodFirst(sysctl, ws)
       /\ Will(sysctl, ws, "rwnd_enable", 1) /\ Will(sysctl, ws, "dynamic_enable", 1)
       /\ Will(sysctl, ws, "rwnd_period_ms", PeriodMs(period))
       /\ Will(sysctl, ws, "rwnd_offset_ms", OffsetMs(period, anchor))
  BY <1>2, <1>3, <1>4, ProgramWill
<1> HIDE DEF ws
<1>11. Follow(sysctl, ws, n)
  BY <1>8, <1>10 DEF Follow, On
<1> QED BY <1>1, <1>5, <1>9, <1>10, <1>11 DEF MonInv

-----------------------------------------------------------------------------
(* The rest of the monitor.                                                *)

\* One `sysctl -w'
LEMMA WriteStep ==
  ASSUME MonInv, Write
  PROVE  MonInv'
<1> DEFINE t == Tail(todo)
           sys == [sysctl EXCEPT ![todo[1][1]] = todo[1][2]]
<1>1. todo # <<>> /\ sysctl' = sys /\ todo' = t /\ UNCHANGED <<alive, m, timer, procs>>
  BY DEF Write
<1>2. /\ sys \in Sysctls /\ t \in Seq(Pairs) /\ Distinct(t) /\ PeriodFirst(sys, t)
      /\ \A name \in SysctlNames, v \in Nat :
            Will(sysctl, todo, name, v) => Will(sys, t, name, v)
  BY <1>1, WriteWill DEF MonInv
<1> HIDE DEF t, sys
<1>3. ASSUME alive PROVE Follow(sys, t, m)
  <2>1. m.locked \in Nat /\ m.anchor \in Nat
    BY DEF MonInv, StateOK, MonStates
  <2>2. PeriodMs(m.locked) \in Nat /\ OffsetMs(m.locked, m.anchor) \in Nat /\ On(m) \in Nat
    BY <2>1, MsNat DEF On
  <2>3. {"rwnd_enable", "dynamic_enable", "rwnd_period_ms", "rwnd_offset_ms"}
          \subseteq SysctlNames
    BY DEF SysctlNames, Switches, AtLeastOne, AtLeastZero
  <2>4. Follow(sysctl, todo, m)
    BY <1>3 DEF MonInv
  <2> QED BY <1>2, <2>2, <2>3, <2>4 DEF Follow
<1> QED BY <1>1, <1>2, <1>3 DEF MonInv

\* The end of the monitor process
LEMMA ExitStep ==
  ASSUME MonInv, Exit
  PROVE  MonInv'
<1>1. /\ alive' = FALSE /\ todo' = <<>> /\ procs' = {} /\ m' = FreshState
      /\ timer' = [n \in Timers |-> 0] /\ sysctl' = sysctl
  BY DEF Exit
<1>2. <<>> \in Seq(Pairs) /\ Distinct(<<>>) /\ PeriodFirst(sysctl, <<>>)
  BY NoWrites, AdjustsPeriod DEF Adjusts
<1> QED BY <1>1, <1>2, FreshOK DEF MonInv

\* The start of the monitor process
LEMMA StartStep ==
  ASSUME MonInv, Start
  PROVE  MonInv'
<1>1. /\ alive' = TRUE /\ todo' = DisableWrites /\ m' = FreshState /\ sysctl' = sysctl
      /\ procs' \in Started(Targets)
      /\ timer' = [[n \in Timers |-> 0] EXCEPT !.analysis = AnalysisEvery, !.learn = LearnTime]
  BY DEF Start
<1>2. procs' \subseteq Targets
  BY <1>1, StartedSome
<1>3. timer' \in [Timers -> Nat]
  <2>1. AnalysisEvery \in Nat /\ LearnTime \in Nat
    BY MonitorAssumption
  <2> QED BY <1>1, <2>1
<1> DEFINE d == DisableWrites
           e == <<>> \o d
<1>4. d \in Seq(Pairs)
  BY DEF DisableWrites, Pairs, SysctlNames, Switches
<1>5. e = d
  <2> HIDE DEF d
  <2> QED BY <1>4, ConcatEmptySeq
<1>6. /\ Distinct(e) /\ PeriodFirst(sysctl, e)
      /\ Will(sysctl, e, "rwnd_enable", 0) /\ Will(sysctl, e, "dynamic_enable", 0)
  BY NoWrites, DisableWill DEF MonInv
<1> HIDE DEF d, e
<1>7. Follow(sysctl, d, FreshState)
  BY <1>5, <1>6, FreshOK, FollowOff
<1>8. todo' = d
  BY <1>1 DEF d
<1> QED BY <1>1, <1>2, <1>3, <1>4, <1>5, <1>6, <1>7, <1>8, FreshOK DEF MonInv

\* Every step preserves the invariant.
LEMMA MonNext == MonInv /\ [Next]_vars => MonInv'
<1> SUFFICES ASSUME MonInv, [Next]_vars PROVE MonInv'
  OBVIOUS
<1>1. CASE Start
  BY <1>1, StartStep
<1>2. CASE StartWithoutProbes
  <2> DEFINE sys == [sysctl EXCEPT !.rwnd_enable = 0, !.dynamic_enable = 0]
  <2>1. ~alive /\ sysctl' = sys /\ UNCHANGED <<alive, todo, m, timer, procs>>
    BY <1>2 DEF StartWithoutProbes
  <2>2. sys \in Sysctls /\ sys.rwnd_enable = 0
    BY DEF MonInv, Sysctls, SysctlNames, Switches
  <2> HIDE DEF sys
  <2>3. PeriodFirst(sys, todo)
    BY <2>2 DEF MonInv, PeriodFirst
  <2> QED BY <2>1, <2>2, <2>3 DEF MonInv
<1>3. CASE Stop \/ WriteFails
  BY <1>3, ExitStep DEF Stop, WriteFails
<1>4. CASE Write
  BY <1>4, WriteStep
<1>5. CASE Loop
  <2>1. ASSUME NEW fit \in Observed, NEW seen \in {FALSE, Observing}, NEW err \in PhaseErrors,
               NEW guard \in GuardValues, AnalyseActive(fit, seen, err, guard)
        PROVE  MonInv'
    <3>1. seen \in BOOLEAN
      BY DEF Observing
    <3> QED BY <2>1, <3>1, AnalyseActiveStep
  <2> QED BY <1>5, <2>1, StartValidationStep, BetweenStep, LearnStep, ActivateStep DEF Loop
<1>6. CASE Tick
  <2>1. timer' \in [Timers -> Nat]
    <3>1. AnalysisWindow \in Nat /\ timer \in [Timers -> Nat]
      BY MonitorAssumption DEF MonInv
    <3>2. \A n \in Timers : timer[n] # 0 => timer[n] - 1 \in Nat
      BY <3>1
    <3> QED BY <1>6, <3>1, <3>2 DEF Tick
  <2> QED BY <1>6, <2>1 DEF Tick, MonInv
<1>7. ASSUME NEW t \in Targets, PingDies(t) PROVE MonInv'
  BY <1>7 DEF PingDies, MonInv
<1>8. CASE UNCHANGED vars
  BY <1>8 DEF vars, MonInv
<1> QED BY <1>1, <1>2, <1>3, <1>4, <1>5, <1>6, <1>7, <1>8 DEF Next

\* The initial state satisfies the invariant.
LEMMA MonInit == Init => MonInv
<1> SUFFICES ASSUME Init PROVE MonInv
  OBVIOUS
<1>1. <<>> \in Seq(Pairs) /\ Distinct(<<>>) /\ PeriodFirst(sysctl, <<>>)
  BY NoWrites, AdjustsPeriod DEF Adjusts
<1>2. sysctl \in Sysctls
  BY MonitorAssumption DEF Init
<1> QED BY <1>1, <1>2, FreshOK DEF Init, MonInv

\* The invariant holds in every reachable state.
THEOREM MonInvariance == Spec => []MonInv
BY MonInit, MonNext, PTL DEF Spec

-----------------------------------------------------------------------------
\* program_redhat, program_redhat_phase_only, enter_learning: at the head of
\* the loop the kernel is switched on exactly while the monitor is ACTIVE, and
\* predicts with the locked period and phase, for all estimates and failures.
THEOREM KernelAlwaysFollows == Spec => []KernelFollows
<1>1. MonInv => KernelFollows
  <2> SUFFICES ASSUME MonInv PROVE KernelFollows
    OBVIOUS
  <2>1. \A i \in DOMAIN todo : todo[i] \in SysctlNames \X Nat
    BY ElementOfSeq, LenProperties DEF MonInv, Pairs
  <2>2. MonitorTypeOK
    BY <2>1 DEF MonInv, StateOK, MonStates, Modes, MonitorTypeOK
  <2>3. ASSUME alive, todo = <<>>
        PROVE  /\ sysctl.rwnd_enable = (IF m.active THEN 1 ELSE 0)
               /\ sysctl.dynamic_enable = sysctl.rwnd_enable
               /\ m.active => /\ sysctl.rwnd_period_ms = PeriodMs(m.locked)
                              /\ sysctl.rwnd_offset_ms = OffsetMs(m.locked, m.anchor)
    BY <2>3, WillNow DEF MonInv, Follow, On
  <2> QED BY <2>2, <2>3 DEF KernelFollows
<1> QED BY <1>1, MonInvariance, PTL

\* "Never rewrite period_ms while ACTIVE": no step changes the period of a
\* kernel that is switched on.
THEOREM PeriodNeverRewritten == Spec => PeriodFixedWhileOn
<1> DEFINE Fixed == sysctl'.rwnd_period_ms # sysctl.rwnd_period_ms => sysctl.rwnd_enable = 0
<1>1. MonInv /\ [Next]_vars => [Fixed]_vars
  <2> SUFFICES ASSUME MonInv, [Next]_vars, sysctl'.rwnd_period_ms # sysctl.rwnd_period_ms
               PROVE  sysctl.rwnd_enable = 0
    OBVIOUS
  <2>1. sysctl \in Sysctls /\ "rwnd_period_ms" \in SysctlNames
    BY DEF MonInv, SysctlNames, AtLeastOne
  <2>2. CASE Write
    <3>1. todo # <<>> /\ sysctl' = [sysctl EXCEPT ![todo[1][1]] = todo[1][2]]
      BY <2>2 DEF Write
    <3>2. todo[1][1] = "rwnd_period_ms"
      BY <2>1, <3>1 DEF Sysctls
    <3>3. 1 \in DOMAIN todo
      <4>1. todo \in Seq(Pairs)
        BY DEF MonInv
      <4>2. Len(todo) \in Nat /\ DOMAIN todo = 1..Len(todo) /\ Len(todo) # 0
        BY <3>1, <4>1, LenProperties, EmptySeq
      <4> QED BY <4>2
    <3> QED BY <3>2, <3>3 DEF MonInv, PeriodFirst
  <2>3. CASE StartWithoutProbes
    <3>1. sysctl'.rwnd_period_ms = sysctl.rwnd_period_ms
      BY <2>1, <2>3 DEF StartWithoutProbes, Sysctls
    <3> QED BY <3>1
  <2>4. CASE Loop
    <3>1. StartValidation => UNCHANGED sysctl
      BY DEF StartValidation
    <3>2. BetweenAnalyses => UNCHANGED sysctl
      BY DEF BetweenAnalyses
    <3>3. ASSUME NEW fit, Learn(fit)
          PROVE  UNCHANGED sysctl
      BY <3>3 DEF Learn
    <3>4. ASSUME NEW fit, NEW anchor, NEW chosen, Activate(fit, anchor, chosen)
          PROVE  UNCHANGED sysctl
      BY <3>4 DEF Activate
    <3>5. ASSUME NEW fit, NEW seen, NEW err, NEW guard, AnalyseActive(fit, seen, err, guard)
          PROVE  UNCHANGED sysctl
      BY <3>5 DEF AnalyseActive
    <3>6. UNCHANGED sysctl
      BY <2>4, <3>1, <3>2, <3>3, <3>4, <3>5 DEF Loop
    <3> QED BY <3>6
  <2>5. CASE Stop \/ WriteFails \/ Start \/ Tick \/ \E t \in Targets : PingDies(t)
    <3>1. UNCHANGED sysctl
      BY <2>5 DEF Stop, WriteFails, Exit, Start, Tick, PingDies
    <3> QED BY <3>1
  <2>6. CASE UNCHANGED vars
    BY <2>6 DEF vars
  <2> QED BY <2>2, <2>3, <2>4, <2>5, <2>6 DEF Next
<1> QED BY <1>1, MonInvariance, PTL DEF Spec, PeriodFixedWhileOn
=============================================================================
