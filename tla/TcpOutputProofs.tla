-------------------------- MODULE TcpOutputProofs --------------------------
(***************************************************************************)
(* What the output functions of TcpSender do to the queues of a socket,    *)
(* for every choice of the constants.  Good says what a socket satisfies:  *)
(* the two queues are what was sent and what waits (SentPart, UnsentPart), *)
(* the counters are the sums over the retransmit queue (Counted), the hint *)
(* skips nothing (HintOK), what the call sent is within the window (TxIn), *)
(* and no assertion failed.  Loops of the code are runs of Iterate:        *)
(* LoopExists and Upward carry a set of states through one.  A predicate   *)
(* such as RtxStep or Wrote says what one of the output functions may do   *)
(* to a socket; the lemma of the function shows that it does no more.      *)
(***************************************************************************)
EXTENDS TcpSender, SequenceTheorems, FiniteSetTheorems, TLAPS

-----------------------------------------------------------------------------
(* Numbers, loops and sequences *)

\* A non-empty set of naturals has a least element.
LEMMA LeastNat ==
  ASSUME NEW T \in SUBSET Nat, T # {}
  PROVE  \E x \in T : \A y \in T : x <= y
<1>1. PICK x \in T : \A y \in T : ~(<<y, x>> \in OpToRel(<, Nat))
  BY WFMin, NatLessThanWellFounded
<1>2. \A y \in T : ~(y < x)
  BY <1>1 DEF OpToRel
<1> QED BY <1>2

\* Induction on a set of numbers up to n.
LEMMA Induct ==
  ASSUME NEW n \in Nat, NEW Q, 0 \in Q, \A i \in 1..n : i - 1 \in Q => i \in Q
  PROVE  n \in Q /\ \A i \in 0..n : i \in Q
<1> DEFINE T == {i \in 0..n : i \notin Q}
<1> SUFFICES ASSUME T # {} PROVE FALSE
  OBVIOUS
<1>1. T \in SUBSET Nat
  OBVIOUS
<1>2. \A i \in T : i \in 0..n /\ i \notin Q
  OBVIOUS
<1>3. \A i \in 0..n : i \notin T => i \in Q
  OBVIOUS
<1> HIDE DEF T
<1>4. PICK x \in T : \A y \in T : x <= y
  BY <1>1, LeastNat
<1>5. x \in 1..n /\ x - 1 \in 0..n /\ x - 1 \notin T
  BY <1>2, <1>4
<1> QED BY <1>2, <1>3, <1>4, <1>5

\* A value that every turn of a loop keeps in S is in S at the end.
LEMMA Upward ==
  ASSUME NEW n \in Nat, NEW S, NEW f, f[0] \in S,
         \A i \in 1..n : f[i - 1] \in S => f[i] \in S
  PROVE  f[n] \in S /\ \A i \in 0..n : f[i] \in S
<1> DEFINE Q == {i \in 0..n : f[i] \in S}
<1>1. 0 \in Q
  OBVIOUS
<1>2. \A i \in 1..n : i - 1 \in Q => i \in Q
  OBVIOUS
<1>3. \A i \in Q : f[i] \in S
  OBVIOUS
<1> HIDE DEF Q
<1>4. n \in Q /\ \A i \in 0..n : i \in Q
  BY <1>1, <1>2, Induct
<1> QED BY <1>3, <1>4

\* F is the body of a loop that starts with base, runs n times and stays in S.
LoopBody(n, S, base, F) == n \in Nat /\ base \in S /\ F \in [S \X (1..n) -> S]

\* g holds the values of the loop.
LoopOf(g, n, S, base, F) ==
    /\ g = [k \in 0..n |-> IF k = 0 THEN base ELSE F[<<g[k - 1], k>>]]
    /\ \A k \in 0..n : g[k] \in S

\* The recursive function behind a loop exists.
LEMMA LoopExists ==
  ASSUME NEW n, NEW S, NEW base, NEW F, LoopBody(n, S, base, F)
  PROVE  \E g : LoopOf(g, n, S, base, F)
<1> SUFFICES ASSUME n \in Nat, base \in S, F \in [S \X (1..n) -> S]
             PROVE  \E g : LoopOf(g, n, S, base, F)
  BY DEF LoopBody
<1> DEFINE Ok(k, g) == /\ g = [i \in 0..k |-> IF i = 0 THEN base ELSE F[<<g[i - 1], i>>]]
                       /\ \A i \in 0..k : g[i] \in S
           Q == {k \in 0..n : \E g : Ok(k, g)}
<1>1. Ok(0, [i \in 0..0 |-> base])
  OBVIOUS
<1>2. \A k \in Q : k \in 0..n /\ \E g : Ok(k, g)
  OBVIOUS
<1>3. \A k \in 0..n : (\E g : Ok(k, g)) => k \in Q
  OBVIOUS
<1> HIDE DEF Ok, Q
<1>4. ASSUME NEW x \in 1..n, x - 1 \in Q PROVE x \in Q
  <2>1. PICK g : Ok(x - 1, g)
    BY <1>2, <1>4
  <2> DEFINE h == [i \in 0..x |-> IF i = x THEN F[<<g[x - 1], x>>] ELSE g[i]]
  <2>2. g = [i \in 0..x - 1 |-> IF i = 0 THEN base ELSE F[<<g[i - 1], i>>]]
    BY <2>1 DEF Ok
  <2>3. \A i \in 0..x - 1 : g[i] \in S
    BY <2>1 DEF Ok
  <2>4. F[<<g[x - 1], x>>] \in S
    BY <2>3
  <2>5. \A i \in 0..x : h[i] \in S
    BY <2>3, <2>4
  <2>6. \A i \in 0..x - 1 : g[i] = IF i = 0 THEN base ELSE F[<<g[i - 1], i>>]
    BY <2>2
  <2>7. (\A i \in 0..x - 1 : h[i] = g[i]) /\ h[x] = F[<<g[x - 1], x>>]
    OBVIOUS
  <2>8. h = [i \in 0..x |-> h[i]]
    OBVIOUS
  <2> HIDE DEF h
  <2>9. \A i \in 0..x : h[i] = IF i = 0 THEN base ELSE F[<<h[i - 1], i>>]
    <3> TAKE i \in 0..x
    <3>1. CASE i = x
      BY <3>1, <2>7
    <3>2. CASE i # x
      <4>1. i \in 0..x - 1 /\ (i # 0 => i - 1 \in 0..x - 1)
        BY <3>2
      <4> QED BY <4>1, <2>6, <2>7
    <3> QED BY <3>1, <3>2
  <2>10. h = [i \in 0..x |-> IF i = 0 THEN base ELSE F[<<h[i - 1], i>>]]
    BY <2>8, <2>9
  <2>11. Ok(x, h)
    BY <2>5, <2>10 DEF Ok
  <2> QED BY <2>11, <1>3
<1>5. 0 \in Q
  BY <1>1, <1>3
<1>6. n \in Q
  BY <1>4, <1>5, Induct
<1>7. PICK g : Ok(n, g)
  BY <1>2, <1>6
<1>8. LoopOf(g, n, S, base, F)
  BY <1>7 DEF Ok, LoopOf
<1> QED BY <1>8

\* Division of naturals with remainder.
LEMMA Quotient ==
  ASSUME NEW x \in Nat, NEW u \in Nat \ {0}
  PROVE  /\ x \div u \in Nat /\ x % u \in 0..u - 1 /\ x % u <= x
         /\ x >= 2 * u => x \div u >= 2
<1>1. x \div u \in Nat /\ x % u \in 0..u - 1
  OBVIOUS
<1>2. x % u <= x
  OBVIOUS
<1>3. ASSUME x >= 2 * u PROVE x \div u >= 2
  <2> DEFINE q == x \div u
  <2>1. x < q * u + u
    OBVIOUS
  <2> SUFFICES ASSUME q <= 1 PROVE FALSE
    BY <1>1
  <2>2. q \in Nat
    BY <1>1
  <2> HIDE DEF q
  <2>3. q = 0 \/ q = 1
    BY <2>2
  <2>4. q * u <= u
    BY <2>3
  <2> QED BY <2>1, <2>2, <2>3, <1>3
<1> QED BY <1>1, <1>2, <1>3

\* The product of naturals.
LEMMA Product ==
  ASSUME NEW x \in Nat, NEW y \in Nat
  PROVE  x * y \in Nat /\ (y > 0 => x * y >= x)
<1>1. x * y \in Nat
  OBVIOUS
<1>2. y > 0 => x * y >= x
  OBVIOUS
<1> QED BY <1>1, <1>2

\* The smaller and the larger of two integers.
LEMMA MinPair ==
  ASSUME NEW a \in Int, NEW b \in Int
  PROVE  /\ Min({a, b}) = IF a <= b THEN a ELSE b
         /\ Max({a, b}) = IF a >= b THEN a ELSE b
<1>1. CASE a <= b
  <2>1. Min({a, b}) \in {a, b} /\ \A y \in {a, b} : Min({a, b}) <= y
    <3>1. \E x \in {a, b} : \A y \in {a, b} : x <= y
      BY <1>1
    <3> QED BY <3>1 DEF Min
  <2>2. Max({a, b}) \in {a, b} /\ \A y \in {a, b} : Max({a, b}) >= y
    <3>1. \E x \in {a, b} : \A y \in {a, b} : x >= y
      BY <1>1
    <3> QED BY <3>1 DEF Max
  <2> QED BY <1>1, <2>1, <2>2
<1>2. CASE ~(a <= b)
  <2>1. Min({a, b}) \in {a, b} /\ \A y \in {a, b} : Min({a, b}) <= y
    <3>1. \E x \in {a, b} : \A y \in {a, b} : x <= y
      BY <1>2
    <3> QED BY <3>1 DEF Min
  <2>2. Max({a, b}) \in {a, b} /\ \A y \in {a, b} : Max({a, b}) >= y
    <3>1. \E x \in {a, b} : \A y \in {a, b} : x >= y
      BY <1>2
    <3> QED BY <3>1 DEF Max
  <2> QED BY <1>2, <2>1, <2>2
<1> QED BY <1>1, <1>2

\* A sequence of at least one element: its length, ends and tail.
LEMMA SeqEnds ==
  ASSUME NEW T, NEW s \in Seq(T), s # <<>>
  PROVE  /\ Len(s) \in Nat \ {0} /\ DOMAIN s = 1..Len(s)
         /\ Head(s) = s[1] /\ s[1] \in T
         /\ Last(s) = s[Len(s)] /\ s[Len(s)] \in T
         /\ Tail(s) \in Seq(T) /\ Len(Tail(s)) = Len(s) - 1
         /\ \A i \in 1..Len(s) - 1 : Tail(s)[i] = s[i + 1]
<1>1. Len(s) \in Nat \ {0}
  BY EmptySeq
<1>2. DOMAIN s = 1..Len(s) /\ \A i \in 1..Len(s) : s[i] \in T
  BY LenProperties
<1>3. Head(s) = s[1] /\ Last(s) = s[Len(s)]
  BY DEF Last
<1>4. Tail(s) \in Seq(T) /\ Len(Tail(s)) = Len(s) - 1
      /\ \A i \in 1..Len(Tail(s)) : Tail(s)[i] = s[i + 1]
  BY HeadTailProperties
<1> QED BY <1>1, <1>2, <1>3, <1>4

\* The facts about a sequence that the provers need.
LEMMA SeqFacts ==
  ASSUME NEW T, NEW s \in Seq(T)
  PROVE  /\ Len(s) \in Nat /\ DOMAIN s = 1..Len(s)
         /\ \A i \in 1..Len(s) : s[i] \in T
         /\ s = <<>> <=> Len(s) = 0
<1>1. Len(s) \in Nat /\ DOMAIN s = 1..Len(s) /\ \A i \in 1..Len(s) : s[i] \in T
  BY LenProperties
<1>2. s = <<>> <=> Len(s) = 0
  BY EmptySeq
<1> QED BY <1>1, <1>2

\* One element of a sequence replaced by another.
LEMMA SplicedOne ==
  ASSUME NEW T, NEW s \in Seq(T), NEW i \in 1..Len(s), NEW x \in T
  PROVE  /\ Spliced(s, i, <<x>>) \in Seq(T) /\ Len(Spliced(s, i, <<x>>)) = Len(s)
         /\ \A k \in 1..Len(s) : Spliced(s, i, <<x>>)[k] = IF k = i THEN x ELSE s[k]
<1> DEFINE n == Len(s)
           a == SubSeq(s, 1, i - 1)
           p == <<x>>
           z == SubSeq(s, i + 1, n)
           ap == a \o p
           r == ap \o z
<1>1. n \in Nat /\ i \in 1..n /\ \A k \in 1..n : s[k] \in T
  BY SeqFacts
<1>2. Spliced(s, i, <<x>>) = r
  BY DEF Spliced
<1> HIDE DEF n
<1>3. a \in Seq(T) /\ Len(a) = i - 1 /\ \A k \in 1..i - 1 : a[k] = s[k]
  <2>1. \A k \in 1..i - 1 : s[k] \in T
    BY <1>1
  <2> QED BY <1>1, <2>1, SubSeqProperties
<1>4. z \in Seq(T) /\ Len(z) = n - i /\ \A k \in 1..n - i : z[k] = s[i + k]
  <2>1. \A k \in i + 1..n : s[k] \in T
    BY <1>1
  <2> QED BY <1>1, <2>1, SubSeqProperties
<1>5. p \in Seq(T) /\ Len(p) = 1 /\ p[1] = x
  OBVIOUS
<1> HIDE DEF a, z, p
<1>6. ap \in Seq(T) /\ Len(ap) = i /\ \A k \in 1..i : ap[k] = IF k = i THEN x ELSE s[k]
  <2>1. ap \in Seq(T) /\ Len(ap) = Len(a) + Len(p)
        /\ \A k \in 1..Len(a) + Len(p) : ap[k] = IF k <= Len(a) THEN a[k] ELSE p[k - Len(a)]
    BY <1>3, <1>5, ConcatProperties
  <2> HIDE DEF ap
  <2> QED BY <1>1, <1>3, <1>5, <2>1
<1> HIDE DEF ap
<1>7. r \in Seq(T) /\ Len(r) = Len(ap) + Len(z)
      /\ \A k \in 1..Len(ap) + Len(z) : r[k] = IF k <= Len(ap) THEN ap[k] ELSE z[k - Len(ap)]
  BY <1>4, <1>6, ConcatProperties
<1> HIDE DEF r
<1>8. Len(ap) + Len(z) = n
  BY <1>1, <1>4, <1>6
<1>9. ASSUME NEW k \in 1..n PROVE r[k] = IF k = i THEN x ELSE s[k]
  <2>1. r[k] = IF k <= i THEN ap[k] ELSE z[k - i]
    BY <1>6, <1>7, <1>8
  <2>2. CASE k <= i
    <3>1. k \in 1..i
      BY <1>1, <2>2
    <3> QED BY <1>6, <2>1, <2>2, <3>1
  <2>3. CASE ~(k <= i)
    <3>1. k - i \in 1..n - i /\ i + (k - i) = k /\ k # i
      BY <1>1, <2>3
    <3> QED BY <1>4, <2>1, <2>3, <3>1
  <2> QED BY <2>2, <2>3
<1> QED BY <1>2, <1>7, <1>8, <1>9 DEF n

\* One element of a sequence replaced by two.
LEMMA SplicedTwo ==
  ASSUME NEW T, NEW s \in Seq(T), NEW i \in 1..Len(s), NEW p,
         NEW x \in T, NEW y \in T, p = <<x, y>>
  PROVE  /\ Spliced(s, i, p) \in Seq(T) /\ Len(Spliced(s, i, p)) = Len(s) + 1
         /\ \A k \in 1..Len(s) + 1 :
              Spliced(s, i, p)[k] = IF k < i THEN s[k] ELSE IF k = i THEN x
                                    ELSE IF k = i + 1 THEN y ELSE s[k - 1]
<1> DEFINE n == Len(s)
           a == SubSeq(s, 1, i - 1)
           z == SubSeq(s, i + 1, n)
           ap == a \o p
           r == ap \o z
<1>1. n \in Nat /\ i \in 1..n /\ \A k \in 1..n : s[k] \in T
  BY SeqFacts
<1>2. Spliced(s, i, p) = r
  BY DEF Spliced
<1> HIDE DEF n
<1>3. a \in Seq(T) /\ Len(a) = i - 1 /\ \A k \in 1..i - 1 : a[k] = s[k]
  <2>1. \A k \in 1..i - 1 : s[k] \in T
    BY <1>1
  <2> QED BY <1>1, <2>1, SubSeqProperties
<1>4. z \in Seq(T) /\ Len(z) = n - i /\ \A k \in 1..n - i : z[k] = s[i + k]
  <2>1. \A k \in i + 1..n : s[k] \in T
    BY <1>1
  <2> QED BY <1>1, <2>1, SubSeqProperties
<1>5. p \in Seq(T) /\ Len(p) = 2 /\ p[1] = x /\ p[2] = y
  OBVIOUS
<1> HIDE DEF a, z
<1>6. ap \in Seq(T) /\ Len(ap) = i + 1
      /\ \A k \in 1..i + 1 : ap[k] = IF k < i THEN s[k] ELSE IF k = i THEN x ELSE y
  <2>1. ap \in Seq(T) /\ Len(ap) = Len(a) + Len(p)
        /\ \A k \in 1..Len(a) + Len(p) : ap[k] = IF k <= Len(a) THEN a[k] ELSE p[k - Len(a)]
    BY <1>3, <1>5, ConcatProperties
  <2> HIDE DEF ap
  <2> QED BY <1>1, <1>3, <1>5, <2>1
<1> HIDE DEF ap
<1>7. r \in Seq(T) /\ Len(r) = Len(ap) + Len(z)
      /\ \A k \in 1..Len(ap) + Len(z) : r[k] = IF k <= Len(ap) THEN ap[k] ELSE z[k - Len(ap)]
  BY <1>4, <1>6, ConcatProperties
<1> HIDE DEF r
<1>8. \A k \in 1..n + 1 : r[k] = IF k < i THEN s[k] ELSE IF k = i THEN x
                                    ELSE IF k = i + 1 THEN y ELSE s[k - 1]
  <2> TAKE k \in 1..n + 1
  <2>1. CASE k <= i + 1
    BY <1>1, <1>4, <1>6, <1>7, <2>1
  <2>2. CASE k > i + 1
    <3>1. k - (i + 1) \in 1..n - i /\ k \in 1..Len(ap) + Len(z) /\ i + (k - (i + 1)) = k - 1
      BY <1>1, <1>4, <1>6, <2>2
    <3> QED BY <1>1, <1>4, <1>6, <1>7, <2>2, <3>1
  <2> QED BY <1>1, <2>1, <2>2
<1>9. Len(r) = n + 1
  BY <1>1, <1>4, <1>6, <1>7
<1> QED BY <1>2, <1>7, <1>8, <1>9 DEF n

\* Two neighbours of a sequence replaced by one element.
LEMMA JoinedTwo ==
  ASSUME NEW T, NEW s \in Seq(T), NEW i \in 1..Len(s), i # Len(s), NEW x \in T
  PROVE  /\ Joined(s, i, x) \in Seq(T) /\ Len(Joined(s, i, x)) = Len(s) - 1
         /\ \A k \in 1..Len(s) - 1 :
              Joined(s, i, x)[k] = IF k < i THEN s[k] ELSE IF k = i THEN x ELSE s[k + 1]
<1> DEFINE n == Len(s)
           a == SubSeq(s, 1, i - 1)
           p == <<x>>
           z == SubSeq(s, i + 2, n)
           ap == a \o p
           r == Joined(s, i, x)
<1>1. n \in Nat /\ i \in 1..n /\ i < n /\ \A k \in 1..n : s[k] \in T
  BY SeqFacts
<1>2. r = ap \o z
  BY DEF Joined
<1> HIDE DEF n, r
<1>3. a \in Seq(T) /\ Len(a) = i - 1 /\ \A k \in 1..i - 1 : a[k] = s[k]
  <2>1. \A k \in 1..i - 1 : s[k] \in T
    BY <1>1
  <2> QED BY <1>1, <2>1, SubSeqProperties
<1>4. z \in Seq(T) /\ Len(z) = n - i - 1 /\ \A k \in 1..n - i - 1 : z[k] = s[i + 1 + k]
  <2>1. \A k \in i + 2..n : s[k] \in T
    BY <1>1
  <2> QED BY <1>1, <2>1, SubSeqProperties
<1>5. p \in Seq(T) /\ Len(p) = 1 /\ p[1] = x
  OBVIOUS
<1> HIDE DEF a, z, p
<1>6. ap \in Seq(T) /\ Len(ap) = i /\ \A k \in 1..i : ap[k] = IF k = i THEN x ELSE s[k]
  <2>1. ap \in Seq(T) /\ Len(ap) = Len(a) + Len(p)
        /\ \A k \in 1..Len(a) + Len(p) : ap[k] = IF k <= Len(a) THEN a[k] ELSE p[k - Len(a)]
    BY <1>3, <1>5, ConcatProperties
  <2> HIDE DEF ap
  <2>2. Len(a) = i - 1 /\ Len(p) = 1
    BY <1>3, <1>5
  <2>3. Len(ap) = i
    BY <1>1, <2>1, <2>2
  <2>4. ASSUME NEW k \in 1..i PROVE ap[k] = IF k = i THEN x ELSE s[k]
    <3>1. k \in 1..Len(a) + Len(p) /\ (k <= Len(a) <=> k # i) /\ (k = i => k - Len(a) = 1)
          /\ (k # i => k \in 1..i - 1)
      BY <1>1, <2>2
    <3> QED BY <1>3, <1>5, <2>1, <3>1
  <2> QED BY <2>1, <2>3, <2>4
<1> HIDE DEF ap
<1> DEFINE c == ap \o z
<1>7. c \in Seq(T) /\ Len(c) = Len(ap) + Len(z)
      /\ \A k \in 1..Len(ap) + Len(z) : c[k] = IF k <= Len(ap) THEN ap[k] ELSE z[k - Len(ap)]
  BY <1>4, <1>6, ConcatProperties
<1>8. r = c
  BY <1>2
<1> HIDE DEF c
<1>9. \A k \in 1..n - 1 : c[k] = IF k < i THEN s[k] ELSE IF k = i THEN x ELSE s[k + 1]
  <2> TAKE k \in 1..n - 1
  <2>1. CASE k <= i
    <3>1. k \in 1..i /\ k \in 1..Len(ap) + Len(z) /\ k <= Len(ap)
      BY <1>1, <1>4, <1>6, <2>1
    <3> QED BY <1>1, <1>6, <1>7, <3>1
  <2>2. CASE k > i
    <3>1. k - i \in 1..n - i - 1 /\ k \in 1..Len(ap) + Len(z) /\ i + 1 + (k - i) = k + 1
      BY <1>1, <1>4, <1>6, <2>2
    <3> QED BY <1>1, <1>4, <1>6, <1>7, <2>2, <3>1
  <2> QED BY <1>1, <2>1, <2>2
<1>10. Len(c) = n - 1
  <2>1. Len(c) = Len(ap) + Len(z) /\ Len(ap) = i /\ Len(z) = n - i - 1
    BY <1>4, <1>6, <1>7
  <2> QED BY <1>1, <2>1
<1> QED BY <1>7, <1>8, <1>9, <1>10 DEF n, r

\* The last element of a sequence replaced by another.
LEMMA LastReplaced ==
  ASSUME NEW T, NEW s \in Seq(T), s # <<>>, NEW x \in T
  PROVE  /\ Append(Front(s), x) \in Seq(T) /\ Len(Append(Front(s), x)) = Len(s)
         /\ \A k \in 1..Len(s) : Append(Front(s), x)[k] = IF k = Len(s) THEN x ELSE s[k]
<1> DEFINE n == Len(s)
           a == SubSeq(s, 1, n - 1)
           r == Append(a, x)
<1>1. n \in Nat \ {0} /\ \A k \in 1..n : s[k] \in T
  BY SeqFacts
<1>2. Append(Front(s), x) = r
  BY DEF Front
<1> HIDE DEF n
<1>3. a \in Seq(T) /\ Len(a) = n - 1 /\ \A k \in 1..n - 1 : a[k] = s[k]
  <2>1. \A k \in 1..n - 1 : s[k] \in T
    BY <1>1
  <2> QED BY <1>1, <2>1, SubSeqProperties
<1> HIDE DEF a
<1>4. r \in Seq(T) /\ Len(r) = Len(a) + 1 /\ r[Len(r)] = x /\ \A k \in 1..Len(a) : r[k] = a[k]
  BY <1>3, AppendProperties
<1> HIDE DEF r
<1> QED BY <1>1, <1>2, <1>3, <1>4 DEF n

\* An element added at the end of a sequence.
LEMMA Appended ==
  ASSUME NEW T, NEW s \in Seq(T), NEW x \in T
  PROVE  /\ Append(s, x) \in Seq(T) /\ Len(Append(s, x)) = Len(s) + 1
         /\ \A k \in 1..Len(s) + 1 : Append(s, x)[k] = IF k = Len(s) + 1 THEN x ELSE s[k]
<1> DEFINE r == Append(s, x)
<1>1. Len(s) \in Nat
  BY SeqFacts
<1>2. r \in Seq(T) /\ Len(r) = Len(s) + 1 /\ r[Len(r)] = x /\ \A k \in 1..Len(s) : r[k] = s[k]
  BY AppendProperties
<1> HIDE DEF r
<1>3. \A k \in 1..Len(s) + 1 : k # Len(s) + 1 => k \in 1..Len(s)
  BY <1>1
<1> QED BY <1>1, <1>2, <1>3 DEF r

-----------------------------------------------------------------------------
(* Buffers *)

SkbRec ==
    [seq : Nat, end : Nat, syn : BOOLEAN, fin : BOOLEAN, acked : BOOLEAN,
     retrans : BOOLEAN, lost : BOOLEAN, pc : Nat, gso : Nat]

\* A buffer is a range with room for its flags.  Only a SYN begins the
\* sequence numbers, a buffer that counts for several segments is larger than
\* one of them, and what was retransmitted was lost and is not SACKed.
Skb ==
    {b \in SkbRec : /\ b.seq <= b.end /\ Size(b) >= 0
                    /\ b.syn => b.seq = 0 /\ b.end = 1 /\ ~b.fin
                    /\ b.pc > 1 => b.gso > 0 /\ Size(b) > b.gso
                    /\ b.retrans => b.lost
                    /\ b.acked => ~b.lost}

\* A flag counts for one or for nothing.
LEMMA BitIs ==
  ASSUME NEW x \in BOOLEAN
  PROVE  /\ Bit(x) \in {0, 1} /\ Bit(x) \in Int
         /\ x => Bit(x) = 1
         /\ ~x => Bit(x) = 0
BY DEF Bit

\* What is known of a record of a buffer, and of its payload.
LEMMA SkbFields ==
  ASSUME NEW b \in SkbRec
  PROVE  /\ b.seq \in Nat /\ b.end \in Nat /\ b.syn \in BOOLEAN /\ b.fin \in BOOLEAN
         /\ b.acked \in BOOLEAN /\ b.retrans \in BOOLEAN /\ b.lost \in BOOLEAN
         /\ b.pc \in Nat /\ b.gso \in Nat
         /\ Bit(b.fin) \in {0, 1} /\ Bit(b.syn) \in {0, 1}
         /\ Size(b) \in Int
         /\ Size(b) = b.end - b.seq - Bit(b.fin) - Bit(b.syn)
<1>1. /\ b.seq \in Nat /\ b.end \in Nat /\ b.syn \in BOOLEAN /\ b.fin \in BOOLEAN
      /\ b.acked \in BOOLEAN /\ b.retrans \in BOOLEAN /\ b.lost \in BOOLEAN
      /\ b.pc \in Nat /\ b.gso \in Nat
  BY DEF SkbRec
<1>2. Bit(b.fin) \in {0, 1} /\ Bit(b.syn) \in {0, 1}
  BY <1>1, BitIs
<1>3. Size(b) = b.end - b.seq - Bit(b.fin) - Bit(b.syn)
  BY DEF Size
<1> QED BY <1>1, <1>2, <1>3

\* A buffer of a queue, taken apart and put together.
LEMMA SkbIs ==
  ASSUME NEW b \in SkbRec
  PROVE  b \in Skb <=> /\ b.seq <= b.end /\ Size(b) >= 0
                       /\ b.syn => b.seq = 0 /\ b.end = 1 /\ ~b.fin
                       /\ b.pc > 1 => b.gso > 0 /\ Size(b) > b.gso
                       /\ b.retrans => b.lost
                       /\ b.acked => ~b.lost
BY DEF Skb

\* Two records that differ in what a segment count is made of only.
SameRange(a, b) ==
    /\ a.seq = b.seq /\ a.end = b.end /\ a.syn = b.syn /\ a.fin = b.fin
    /\ a.acked = b.acked /\ a.retrans = b.retrans /\ a.lost = b.lost

\* Counting the segments of a buffer anew.
LEMMA SetTsoSegsIs ==
  ASSUME NEW b \in SkbRec, NEW mss \in Nat \ {0},
         b.seq <= b.end, Size(b) >= 0, b.syn => b.seq = 0 /\ b.end = 1 /\ ~b.fin,
         b.retrans => b.lost, b.acked => ~b.lost
  PROVE  /\ SetTsoSegs(b, mss) \in Skb /\ SameRange(SetTsoSegs(b, mss), b)
         /\ Size(SetTsoSegs(b, mss)) = Size(b)
         /\ SetTsoSegs(b, mss).pc >= 1
         /\ SetTsoSegs(b, mss).pc > 1 <=> Size(b) > mss
<1> DEFINE t == SetTsoSegs(b, mss)
           z == Size(b)
           p == (z + mss - 1) \div mss
<1>1. z \in Int
  BY SkbFields
<1>2. z <= mss => t = [b EXCEPT !.pc = 1, !.gso = 0]
  BY DEF SetTsoSegs
<1>3. ~(z <= mss) => t = [b EXCEPT !.pc = p, !.gso = mss]
  BY DEF SetTsoSegs
<1>4. z > mss => p \in Nat /\ p > 1
  <2> HIDE DEF z
  <2> SUFFICES ASSUME z > mss PROVE p \in Nat /\ p > 1
    OBVIOUS
  <2>1. z + mss - 1 \in Nat /\ z + mss - 1 >= 2 * mss
    BY <1>1
  <2>2. p \in Nat /\ p >= 2
    BY <2>1, Quotient
  <2> QED BY <2>2
<1>5. t \in SkbRec /\ SameRange(t, b) /\ t.pc >= 1
      /\ (z <= mss => t.pc = 1 /\ t.gso = 0) /\ (~(z <= mss) => t.pc = p /\ t.gso = mss)
  <2> HIDE DEF p, z, t
  <2>1. CASE z <= mss
    <3> DEFINE one == 1
               none == 0
    <3>1. one \in Nat /\ none \in Nat /\ one >= 1
      OBVIOUS
    <3>2. t = [b EXCEPT !.pc = one, !.gso = none]
      BY <1>2, <2>1
    <3> HIDE DEF one, none
    <3>3. t \in SkbRec /\ t.pc = one /\ t.gso = none
      BY <3>1, <3>2 DEF SkbRec
    <3>4. SameRange(t, b)
      BY <3>2 DEF SkbRec, SameRange
    <3> QED BY <3>1, <3>3, <3>4, <2>1 DEF one, none
  <2>2. CASE ~(z <= mss)
    <3>1. p \in Nat /\ p >= 1
      BY <1>1, <1>4, <2>2
    <3> QED BY <1>3, <2>2, <3>1 DEF SkbRec, SameRange
  <2> QED BY <2>1, <2>2
<1>6. Size(t) = z
  BY <1>5 DEF Size, SameRange
<1> HIDE DEF t
<1>7. t.pc > 1 <=> z > mss
  <2> HIDE DEF p, z
  <2> QED BY <1>1, <1>4, <1>5
<1>8. t.pc > 1 => t.gso > 0 /\ Size(t) > t.gso
  <2> HIDE DEF p, z
  <2> QED BY <1>1, <1>5, <1>6, <1>7
<1>9. /\ t.seq <= t.end /\ Size(t) >= 0
      /\ t.syn => t.seq = 0 /\ t.end = 1 /\ ~t.fin
      /\ t.retrans => t.lost
      /\ t.acked => ~t.lost
  <2> HIDE DEF p
  <2> QED BY <1>5, <1>6 DEF SameRange
<1>10. t \in Skb
  BY <1>5, <1>8, <1>9, SkbIs
<1> QED BY <1>5, <1>6, <1>7, <1>10 DEF t

\* A buffer as tcp_init_tso_segs leaves it: counted, for this segment size.
LEMMA InitTsoSegsIs ==
  ASSUME NEW b \in Skb, NEW mss \in Nat \ {0}
  PROVE  /\ InitTsoSegs(b, mss) \in Skb /\ SameRange(InitTsoSegs(b, mss), b)
         /\ Size(InitTsoSegs(b, mss)) = Size(b)
         /\ InitTsoSegs(b, mss).pc >= 1
         /\ InitTsoSegs(b, mss).pc > 1 => Size(b) > mss
<1>1. b \in SkbRec
  BY DEF Skb
<1>2. /\ b.seq <= b.end /\ Size(b) >= 0
      /\ b.syn => b.seq = 0 /\ b.end = 1 /\ ~b.fin
      /\ b.pc > 1 => b.gso > 0 /\ Size(b) > b.gso
      /\ b.retrans => b.lost
      /\ b.acked => ~b.lost
  BY <1>1, SkbIs
<1>3. b.pc \in Nat /\ b.gso \in Nat /\ Size(b) \in Int
  BY <1>1, SkbFields
<1>4. CASE b.pc = 0 \/ (b.pc > 1 /\ b.gso # mss)
  <2>1. InitTsoSegs(b, mss) = SetTsoSegs(b, mss)
    BY <1>4 DEF InitTsoSegs
  <2>2. /\ SetTsoSegs(b, mss) \in Skb /\ SameRange(SetTsoSegs(b, mss), b)
        /\ Size(SetTsoSegs(b, mss)) = Size(b)
        /\ SetTsoSegs(b, mss).pc >= 1
        /\ SetTsoSegs(b, mss).pc > 1 <=> Size(b) > mss
    BY <1>1, <1>2, SetTsoSegsIs
  <2> QED BY <2>1, <2>2
<1>5. CASE ~(b.pc = 0 \/ (b.pc > 1 /\ b.gso # mss))
  <2>1. InitTsoSegs(b, mss) = b
    BY <1>5 DEF InitTsoSegs
  <2>2. b.pc >= 1 /\ (b.pc > 1 => Size(b) > mss)
    BY <1>2, <1>3, <1>5
  <2>3. SameRange(b, b)
    BY DEF SameRange
  <2> QED BY <2>1, <2>2, <2>3
<1> QED BY <1>4, <1>5

\* The two parts of a buffer that is cut behind len bytes of payload.
LEMMA HalvesIs ==
  ASSUME NEW b \in Skb, NEW mss \in Nat \ {0}, NEW len \in Nat,
         len <= Size(b), Size(b) > 0
  PROVE  \E x, y \in Skb :
           /\ Halves(b, len, mss) = <<x, y>>
           /\ x.seq = b.seq /\ x.end = b.seq + len /\ x.fin = FALSE
           /\ y.seq = b.seq + len /\ y.end = b.end /\ y.fin = b.fin
           /\ x.acked = b.acked /\ x.retrans = b.retrans /\ x.lost = b.lost
           /\ y.acked = b.acked /\ y.retrans = b.retrans /\ y.lost = b.lost
           /\ x.pc >= 1 /\ y.pc >= 1
           /\ x.pc > 1 <=> len > mss
           /\ x.syn = FALSE /\ y.syn = FALSE
<1> DEFINE at == b.seq + len
           u == [b EXCEPT !.end = b.seq + len, !.fin = FALSE]
           v == [b EXCEPT !.seq = b.seq + len]
<1>1. b \in SkbRec
  BY DEF Skb
<1>2. /\ b.seq <= b.end /\ Size(b) >= 0
      /\ b.syn => b.seq = 0 /\ b.end = 1 /\ ~b.fin
      /\ b.pc > 1 => b.gso > 0 /\ Size(b) > b.gso
      /\ b.retrans => b.lost
      /\ b.acked => ~b.lost
  BY <1>1, SkbIs
<1>3. /\ b.seq \in Nat /\ b.end \in Nat /\ b.syn \in BOOLEAN /\ b.fin \in BOOLEAN
      /\ Bit(b.fin) \in {0, 1} /\ Bit(b.syn) \in {0, 1}
      /\ Size(b) = b.end - b.seq - Bit(b.fin) - Bit(b.syn)
  BY <1>1, SkbFields
<1>4. b.syn = FALSE
  <2>1. b.syn => Bit(b.syn) = 1
    BY <1>3, BitIs
  <2> QED BY <1>2, <1>3, <2>1
<1>5. Bit(FALSE) = 0
  BY DEF Bit
<1>6. at \in Nat /\ b.seq <= at /\ at <= b.end - Bit(b.fin)
  BY <1>3, <1>4, <1>5
<1> HIDE DEF at
<1>7. u = [b EXCEPT !.end = at, !.fin = FALSE] /\ v = [b EXCEPT !.seq = at]
  BY DEF at
<1> HIDE DEF u, v
<1>8. u \in SkbRec /\ u.seq = b.seq /\ u.end = at /\ u.fin = FALSE /\ u.syn = b.syn
      /\ u.acked = b.acked /\ u.retrans = b.retrans /\ u.lost = b.lost
  BY <1>1, <1>6, <1>7 DEF SkbRec
<1>9. v \in SkbRec /\ v.seq = at /\ v.end = b.end /\ v.fin = b.fin /\ v.syn = b.syn
      /\ v.acked = b.acked /\ v.retrans = b.retrans /\ v.lost = b.lost
  BY <1>1, <1>6, <1>7 DEF SkbRec
<1>10. Size(u) = len
  <2>1. Size(u) = u.end - u.seq - Bit(u.fin) - Bit(u.syn)
    BY DEF Size
  <2>2. Bit(u.fin) = 0 /\ Bit(u.syn) = 0
    BY <1>4, <1>8 DEF Bit
  <2>3. u.end = b.seq + len /\ u.seq = b.seq
    BY <1>8 DEF at
  <2> QED BY <2>1, <2>2, <2>3, <1>3
<1>11. Size(v) >= 0 /\ v.seq <= v.end
  <2>1. Size(v) = v.end - v.seq - Bit(v.fin) - Bit(v.syn)
    BY DEF Size
  <2>2. Bit(v.fin) = Bit(b.fin) /\ Bit(v.syn) = 0
    BY <1>4, <1>9 DEF Bit
  <2>3. v.end = b.end /\ v.seq = at
    BY <1>9
  <2>4. Size(v) = b.end - at - Bit(b.fin)
    BY <2>1, <2>2, <2>3, <1>3, <1>6
  <2> QED BY <2>4, <1>3, <1>6, <1>9
<1>12. /\ SetTsoSegs(u, mss) \in Skb /\ SameRange(SetTsoSegs(u, mss), u)
       /\ SetTsoSegs(u, mss).pc >= 1
       /\ SetTsoSegs(u, mss).pc > 1 <=> Size(u) > mss
  <2>1. u.seq <= u.end /\ Size(u) >= 0 /\ ~u.syn /\ (u.retrans => u.lost) /\ (u.acked => ~u.lost)
    BY <1>2, <1>4, <1>6, <1>8, <1>10
  <2> QED BY <1>8, <2>1, SetTsoSegsIs
<1>13. /\ SetTsoSegs(v, mss) \in Skb /\ SameRange(SetTsoSegs(v, mss), v)
       /\ SetTsoSegs(v, mss).pc >= 1
  <2>1. v.seq <= v.end /\ Size(v) >= 0 /\ ~v.syn /\ (v.retrans => v.lost) /\ (v.acked => ~v.lost)
    BY <1>2, <1>4, <1>9, <1>11
  <2> QED BY <1>9, <2>1, SetTsoSegsIs
<1>14. Halves(b, len, mss) = <<SetTsoSegs(u, mss), SetTsoSegs(v, mss)>>
  BY DEF Halves, u, v
<1> DEFINE x == SetTsoSegs(u, mss)
           y == SetTsoSegs(v, mss)
<1>15. /\ x.seq = b.seq /\ x.end = b.seq + len /\ x.fin = FALSE
       /\ x.acked = b.acked /\ x.retrans = b.retrans /\ x.lost = b.lost
       /\ x.syn = FALSE
  BY <1>4, <1>8, <1>12 DEF SameRange, at
<1>16. /\ y.seq = b.seq + len /\ y.end = b.end /\ y.fin = b.fin
       /\ y.acked = b.acked /\ y.retrans = b.retrans /\ y.lost = b.lost
       /\ y.syn = FALSE
  BY <1>4, <1>9, <1>13 DEF SameRange, at
<1>17. /\ Halves(b, len, mss) = <<x, y>>
       /\ x \in Skb /\ y \in Skb /\ x.pc >= 1 /\ y.pc >= 1 /\ (x.pc > 1 <=> len > mss)
  BY <1>10, <1>12, <1>13, <1>14
<1> HIDE DEF x, y
<1> QED BY <1>15, <1>16, <1>17

\* What is left of a buffer behind the bytes before seq.
LEMMA TrimHeadIs ==
  ASSUME NEW b \in Skb, NEW seq \in Nat, b.seq < seq, seq < b.end
  PROVE  /\ TrimHead(b, seq) \in Skb
         /\ TrimHead(b, seq).seq = seq /\ TrimHead(b, seq).end = b.end
         /\ TrimHead(b, seq).fin = b.fin /\ TrimHead(b, seq).acked = b.acked
         /\ TrimHead(b, seq).retrans = b.retrans /\ TrimHead(b, seq).lost = b.lost
         /\ b.pc >= 1 => TrimHead(b, seq).pc >= 1
<1> DEFINE r == [b EXCEPT !.seq = seq]
           t == TrimHead(b, seq)
<1>1. b \in SkbRec
  BY DEF Skb
<1>2. /\ b.seq <= b.end /\ Size(b) >= 0
      /\ b.syn => b.seq = 0 /\ b.end = 1 /\ ~b.fin
      /\ b.pc > 1 => b.gso > 0 /\ Size(b) > b.gso
      /\ b.retrans => b.lost
      /\ b.acked => ~b.lost
  BY <1>1, SkbIs
<1>3. /\ b.seq \in Nat /\ b.end \in Nat /\ b.syn \in BOOLEAN /\ b.fin \in BOOLEAN
      /\ b.pc \in Nat /\ b.gso \in Nat
      /\ Bit(b.fin) \in {0, 1} /\ Bit(b.syn) \in {0, 1}
  BY <1>1, SkbFields
<1>4. b.syn = FALSE
  BY <1>2, <1>3
<1>5. r \in SkbRec /\ r.seq = seq /\ r.end = b.end /\ r.fin = b.fin /\ r.syn = b.syn
      /\ r.acked = b.acked /\ r.retrans = b.retrans /\ r.lost = b.lost
      /\ r.pc = b.pc /\ r.gso = b.gso
  BY <1>1 DEF SkbRec
<1>6. t = IF r.pc > 1 THEN SetTsoSegs(r, r.gso) ELSE r
  BY DEF TrimHead
<1> HIDE DEF r, t
<1>7. Size(r) >= 0 /\ r.seq <= r.end
  <2>1. Size(r) = r.end - r.seq - Bit(r.fin) - Bit(r.syn)
    BY DEF Size
  <2>2. Bit(r.fin) = Bit(b.fin) /\ Bit(r.syn) = 0
    BY <1>4, <1>5 DEF Bit
  <2>3. r.end = b.end /\ r.seq = seq
    BY <1>5
  <2>4. Size(r) = b.end - seq - Bit(b.fin)
    BY <2>1, <2>2, <2>3, <1>3
  <2> QED BY <2>4, <1>3, <1>5
<1>8. ~r.syn /\ (r.retrans => r.lost) /\ (r.acked => ~r.lost)
  BY <1>2, <1>4, <1>5
<1>9. CASE r.pc > 1
  <2>1. r.gso \in Nat \ {0}
    BY <1>2, <1>3, <1>5, <1>9
  <2>2. t = SetTsoSegs(r, r.gso)
    BY <1>6, <1>9
  <2>3. t \in Skb /\ SameRange(t, r) /\ t.pc >= 1
    BY <1>5, <1>7, <1>8, <2>1, <2>2, SetTsoSegsIs
  <2> QED BY <2>3, <1>5 DEF SameRange, t
<1>10. CASE ~(r.pc > 1)
  <2>1. t = r
    BY <1>6, <1>10
  <2>2. r \in Skb
    BY <1>5, <1>7, <1>8, <1>10, SkbIs
  <2> QED BY <2>1, <2>2, <1>5 DEF t
<1> QED BY <1>9, <1>10

\* A buffer of the retransmit queue as the retransmission finds it.
LEMMA UnackedIs ==
  ASSUME NEW b \in Skb, NEW una \in Nat, b.pc >= 1, b.end > una \/ b.seq >= una
  PROVE  /\ Unacked(b, una) \in Skb
         /\ Unacked(b, una).seq = IF b.seq < una THEN una ELSE b.seq
         /\ Unacked(b, una).end = b.end
         /\ Unacked(b, una).fin = b.fin /\ Unacked(b, una).acked = b.acked
         /\ Unacked(b, una).retrans = b.retrans /\ Unacked(b, una).lost = b.lost
         /\ Unacked(b, una).pc >= 1
<1>1. b \in SkbRec
  BY DEF Skb
<1>2. (b.syn => b.seq = 0 /\ b.end = 1) /\ b.seq \in Nat /\ b.end \in Nat /\ b.syn \in BOOLEAN
  BY <1>1, SkbIs, SkbFields
<1>3. ~(b.syn /\ b.seq < una)
  BY <1>2
<1>4. Unacked(b, una) = IF b.seq < una THEN TrimHead(b, una) ELSE b
  BY <1>3 DEF Unacked
<1>5. CASE b.seq < una
  <2>1. b.seq < una /\ una < b.end
    BY <1>2, <1>5
  <2>2. Unacked(b, una) = TrimHead(b, una)
    BY <1>4, <1>5
  <2> QED BY <1>5, <2>1, <2>2, TrimHeadIs
<1>6. CASE ~(b.seq < una)
  BY <1>4, <1>6
<1> QED BY <1>5, <1>6

\* Two neighbours joined.
LEMMA JoinIs ==
  ASSUME NEW a \in Skb, NEW b \in Skb, a.end = b.seq, ~a.syn, ~a.fin, a.pc <= 1
  PROVE  LET both == [a EXCEPT !.end = b.end, !.fin = @ \/ b.fin]
         IN /\ both \in Skb /\ both.seq = a.seq /\ both.end = b.end /\ both.fin = b.fin
            /\ both.acked = a.acked /\ both.retrans = a.retrans /\ both.lost = a.lost
            /\ both.pc = a.pc
<1> DEFINE both == [a EXCEPT !.end = b.end, !.fin = @ \/ b.fin]
<1>1. a \in SkbRec /\ b \in SkbRec
  BY DEF Skb
<1>2. /\ a.seq <= a.end
      /\ b.seq <= b.end /\ Size(b) >= 0
      /\ a.retrans => a.lost
      /\ a.acked => ~a.lost
  BY <1>1, SkbIs
<1>3. /\ a.seq \in Nat /\ a.end \in Nat /\ a.syn = FALSE /\ a.fin = FALSE /\ a.pc \in Nat
      /\ b.seq \in Nat /\ b.end \in Nat /\ b.fin \in BOOLEAN /\ b.syn \in BOOLEAN
      /\ Bit(b.fin) \in {0, 1} /\ Bit(b.syn) \in {0, 1}
      /\ Size(b) = b.end - b.seq - Bit(b.fin) - Bit(b.syn)
  BY <1>1, SkbFields
<1>4. both = [a EXCEPT !.end = b.end, !.fin = b.fin]
  BY <1>3
<1> HIDE DEF both
<1>5. both \in SkbRec /\ both.seq = a.seq /\ both.end = b.end /\ both.fin = b.fin
      /\ both.acked = a.acked /\ both.retrans = a.retrans /\ both.lost = a.lost
      /\ both.pc = a.pc /\ both.syn = a.syn
  BY <1>1, <1>3, <1>4 DEF SkbRec
<1>6. Size(both) >= 0 /\ both.seq <= both.end
  <2>1. Size(both) = both.end - both.seq - Bit(both.fin) - Bit(both.syn)
    BY DEF Size
  <2>2. Bit(both.fin) = Bit(b.fin) /\ Bit(both.syn) = 0
    BY <1>3, <1>5 DEF Bit
  <2>3. both.end = b.end /\ both.seq = a.seq
    BY <1>5
  <2>4. Size(both) = b.end - a.seq - Bit(b.fin)
    BY <2>1, <2>2, <2>3, <1>3
  <2> QED BY <2>4, <1>2, <1>3, <1>5
<1>7. ~both.syn /\ (both.retrans => both.lost) /\ (both.acked => ~both.lost)
      /\ ~(both.pc > 1)
  BY <1>2, <1>3, <1>5
<1>8. both \in Skb
  BY <1>5, <1>6, <1>7, SkbIs
<1> QED BY <1>5, <1>8 DEF both

-----------------------------------------------------------------------------
(* The two queues *)

Linked(q) == \A i \in 1..Len(q) - 1 : q[i].end = q[i + 1].seq

\* Only the last buffer of a queue may carry the FIN, and only if f says so.
FinLast(q, f) == \A i \in 1..Len(q) : q[i].fin => i = Len(q) /\ f

\* A buffer of the retransmit queue is counted and not yet acknowledged; one
\* that counts for several segments is not acknowledged in part either.
RtxOK(b, una) ==
    /\ b.pc >= 1
    /\ b.end > una \/ b.seq >= una
    /\ b.pc > 1 => b.seq >= una

\* The retransmit queue: what was sent from una to nxt.
SentPart(q, una, nxt, f) ==
    /\ q \in Seq(Skb) /\ una \in Nat /\ nxt \in Nat
    /\ una <= nxt
    /\ Linked(q)
    /\ Len(q) = 0 => una = nxt
    /\ Len(q) > 0 => q[1].seq <= una /\ q[Len(q)].end = nxt
    /\ \A i \in 1..Len(q) : RtxOK(q[i], una)
    /\ FinLast(q, f)

\* A buffer that was never sent has no marks.
Plain(b) == ~b.acked /\ ~b.retrans /\ ~b.lost

AllPlain(q) == \A i \in 1..Len(q) : Plain(q[i])

\* The write queue: what waits from nxt to wseq.
UnsentPart(q, nxt, wseq, f) ==
    /\ AllPlain(q)
    /\ q \in Seq(Skb) /\ nxt \in Nat /\ wseq \in Nat
    /\ nxt <= wseq
    /\ Linked(q)
    /\ Len(q) = 0 => nxt = wseq
    /\ Len(q) > 0 => q[1].seq = nxt /\ q[Len(q)].end = wseq
    /\ FinLast(q, f)

\* The range of a buffer of a queue.
LEMMA SkbRange ==
  ASSUME NEW b \in Skb
  PROVE  b.seq \in Nat /\ b.end \in Nat /\ b.seq <= b.end /\ b.pc \in Nat
         /\ b.fin \in BOOLEAN
BY SkbIs, SkbFields DEF Skb

\* In a linked queue a buffer ends where a later one begins, or before.
LEMMA LinkedOrder ==
  ASSUME NEW q \in Seq(Skb), Linked(q), NEW i \in 1..Len(q), NEW j \in 1..Len(q), i < j
  PROVE  q[i].end <= q[j].seq
<1> DEFINE n == Len(q)
           Q == {k \in 0..n - i - 1 : q[i].end <= q[i + 1 + k].seq}
<1>1. n \in Nat /\ \A k \in 1..n : q[k] \in Skb
  BY SeqFacts
<1>2. \A k \in 1..n : q[k].seq \in Nat /\ q[k].end \in Nat /\ q[k].seq <= q[k].end
  BY <1>1, SkbRange
<1>3. \A k \in 1..n - 1 : q[k].end = q[k + 1].seq
  BY DEF Linked
<1>4. i \in 1..n /\ j \in 1..n
  OBVIOUS
<1> HIDE DEF n
<1>5. 0 \in Q
  BY <1>1, <1>2, <1>3, <1>4
<1>6. ASSUME NEW k \in 1..n - i - 1, k - 1 \in Q PROVE k \in Q
  <2>1. i + k \in 1..n - 1 /\ i + 1 + (k - 1) = i + k /\ i + k \in 1..n /\ i + k + 1 \in 1..n
        /\ i + 1 + k = i + k + 1
    BY <1>1, <1>4
  <2>2. q[i].end <= q[i + k].seq
    BY <1>6, <2>1
  <2>3. q[i + k].seq <= q[i + k].end /\ q[i + k].end = q[i + k + 1].seq
    BY <1>2, <1>3, <2>1
  <2>4. q[i].end <= q[i + k + 1].seq
    BY <1>2, <1>4, <2>1, <2>2, <2>3
  <2> QED BY <1>4, <2>1, <2>4
<1>7. n - i - 1 \in Nat /\ j - i - 1 \in 0..n - i - 1 /\ i + 1 + (j - i - 1) = j
  BY <1>1, <1>4
<1>8. \A k \in Q : q[i].end <= q[i + 1 + k].seq
  OBVIOUS
<1> HIDE DEF Q
<1>9. \A k \in 0..n - i - 1 : k \in Q
  BY <1>5, <1>6, <1>7, Induct
<1> QED BY <1>7, <1>8, <1>9

\* What is before a buffer of the retransmit queue is not acknowledged either:
\* only the first one may begin below una.
LEMMA SentOrder ==
  ASSUME NEW q, NEW una, NEW nxt, NEW f, SentPart(q, una, nxt, f)
  PROVE  /\ \A i \in 1..Len(q) : q[i] \in Skb /\ RtxOK(q[i], una) /\ q[i].end <= nxt
         /\ \A i \in 2..Len(q) : q[i].seq >= una
<1>1. /\ q \in Seq(Skb) /\ una \in Nat /\ nxt \in Nat /\ Linked(q)
      /\ (Len(q) > 0 => q[Len(q)].end = nxt)
      /\ \A i \in 1..Len(q) : RtxOK(q[i], una)
  BY DEF SentPart
<1>2. Len(q) \in Nat /\ \A i \in 1..Len(q) : q[i] \in Skb
  BY <1>1, SeqFacts
<1>3. \A i \in 1..Len(q) : q[i].seq \in Nat /\ q[i].end \in Nat /\ q[i].seq <= q[i].end
  BY <1>2, SkbRange
<1>4. ASSUME NEW i \in 1..Len(q) PROVE q[i].end <= nxt
  <2>1. CASE i = Len(q)
    BY <1>1, <1>2, <1>3, <2>1
  <2>2. CASE i # Len(q)
    <3>1. i < Len(q) /\ Len(q) \in 1..Len(q)
      BY <1>2, <2>2
    <3>2. q[i].end <= q[Len(q)].seq
      BY <1>1, <3>1, LinkedOrder
    <3> QED BY <1>1, <1>2, <1>3, <3>1, <3>2
  <2> QED BY <2>1, <2>2
<1>5. ASSUME NEW i \in 2..Len(q) PROVE q[i].seq >= una
  <2>1. i - 1 \in 1..Len(q) - 1 /\ i - 1 \in 1..Len(q) /\ i - 1 + 1 = i /\ i \in 1..Len(q)
    BY <1>2
  <2>2. q[i - 1].end = q[i].seq
    BY <1>1, <2>1 DEF Linked
  <2>3. q[i - 1].end > una \/ q[i - 1].seq >= una
    BY <1>1, <2>1 DEF RtxOK
  <2> QED BY <1>1, <1>3, <2>1, <2>2, <2>3
<1> QED BY <1>1, <1>2, <1>4, <1>5

\* Replacing a buffer of the retransmit queue: the range stays, or its head
\* below una goes.
LEMMA SentReplaced ==
  ASSUME NEW q, NEW una, NEW nxt, NEW f, SentPart(q, una, nxt, f),
         NEW i \in 1..Len(q), NEW x \in Skb, RtxOK(x, una),
         x.seq = q[i].seq \/ (q[i].seq < una /\ x.seq = una),
         x.end = q[i].end, x.fin = q[i].fin
  PROVE  /\ SentPart(Spliced(q, i, <<x>>), una, nxt, f)
         /\ Len(Spliced(q, i, <<x>>)) = Len(q)
         /\ \A k \in 1..Len(q) : Spliced(q, i, <<x>>)[k] = IF k = i THEN x ELSE q[k]
<1> DEFINE n == Len(q)
           r == Spliced(q, i, <<x>>)
<1>1. q \in Seq(Skb) /\ una \in Nat /\ nxt \in Nat /\ una <= nxt
  BY DEF SentPart
<1>2. /\ \A k \in 1..n - 1 : q[k].end = q[k + 1].seq
      /\ n > 0 => q[1].seq <= una /\ q[n].end = nxt
      /\ \A k \in 1..n : RtxOK(q[k], una)
  BY DEF SentPart, Linked
<1>3. \A k \in 1..n : q[k].fin => k = n /\ f
  BY DEF SentPart, FinLast
<1>4. \A k \in 2..n : q[k].seq >= una
  BY SentOrder
<1>5. n \in Nat /\ i \in 1..n /\ \A k \in 1..n : q[k] \in Skb
  BY <1>1, SeqFacts
<1>6. \A k \in 1..n : q[k].seq \in Nat /\ q[k].end \in Nat
  BY <1>5, SkbRange
<1>7. r \in Seq(Skb) /\ Len(r) = n /\ \A k \in 1..n : r[k] = IF k = i THEN x ELSE q[k]
  <2>1. q \in Seq(Skb) /\ i \in 1..Len(q) /\ x \in Skb
    BY <1>1
  <2>2. /\ Spliced(q, i, <<x>>) \in Seq(Skb) /\ Len(Spliced(q, i, <<x>>)) = Len(q)
        /\ \A k \in 1..Len(q) : Spliced(q, i, <<x>>)[k] = IF k = i THEN x ELSE q[k]
    BY ONLY <2>1, SplicedOne
  <2> QED BY <2>2
<1> HIDE DEF n, r
<1>8. x.seq = q[i].seq \/ (i = 1 /\ x.seq = una)
  BY <1>1, <1>4, <1>5, <1>6
<1>9. ASSUME NEW k \in 1..n - 1 PROVE r[k].end = r[k + 1].seq
  <2>1. k \in 1..n /\ k + 1 \in 1..n /\ k + 1 # 1
    BY <1>5
  <2>2. r[k].end = q[k].end /\ r[k + 1].seq = q[k + 1].seq
    BY <1>5, <1>7, <1>8, <2>1
  <2> QED BY <1>2, <2>2
<1>10. n > 0 /\ r[1].seq <= una /\ r[n].end = nxt
  <2>1. 1 \in 1..n /\ n \in 1..n /\ n > 0
    BY <1>5
  <2>2. r[n].end = q[n].end
    BY <1>7, <2>1
  <2>3. r[1].seq = q[1].seq \/ r[1].seq = una
    BY <1>7, <1>8, <2>1
  <2> QED BY <1>1, <1>2, <2>1, <2>2, <2>3
<1>11. \A k \in 1..n : RtxOK(r[k], una)
  BY <1>2, <1>7
<1>12. \A k \in 1..n : r[k].fin => k = n /\ f
  BY <1>3, <1>7
<1>13. Linked(r)
  BY <1>7, <1>9 DEF Linked
<1>14. FinLast(r, f)
  BY <1>7, <1>12 DEF FinLast
<1>15. SentPart(r, una, nxt, f)
  BY <1>1, <1>5, <1>7, <1>10, <1>11, <1>13, <1>14 DEF SentPart
<1> QED BY <1>7, <1>15 DEF n, r

\* Cutting a buffer of the retransmit queue in two.
LEMMA SentCut ==
  ASSUME NEW q, NEW una, NEW nxt, NEW f, SentPart(q, una, nxt, f),
         NEW i \in 1..Len(q), NEW p, NEW x \in Skb, NEW y \in Skb, p = <<x, y>>,
         RtxOK(x, una), RtxOK(y, una),
         x.seq = q[i].seq, x.end = y.seq, y.end = q[i].end,
         x.fin = FALSE, y.fin = q[i].fin
  PROVE  /\ SentPart(Spliced(q, i, p), una, nxt, f)
         /\ Len(Spliced(q, i, p)) = Len(q) + 1
         /\ \A k \in 1..Len(q) + 1 :
              Spliced(q, i, p)[k] = IF k < i THEN q[k] ELSE IF k = i THEN x
                                    ELSE IF k = i + 1 THEN y ELSE q[k - 1]
<1> DEFINE n == Len(q)
           r == Spliced(q, i, p)
<1>1. q \in Seq(Skb) /\ una \in Nat /\ nxt \in Nat /\ una <= nxt
  BY DEF SentPart
<1>2. /\ \A k \in 1..n - 1 : q[k].end = q[k + 1].seq
      /\ n > 0 => q[1].seq <= una /\ q[n].end = nxt
      /\ \A k \in 1..n : RtxOK(q[k], una)
  BY DEF SentPart, Linked
<1>3. \A k \in 1..n : q[k].fin => k = n /\ f
  BY DEF SentPart, FinLast
<1>4. n \in Nat /\ i \in 1..n
  BY <1>1, SeqFacts
<1>5. r \in Seq(Skb) /\ Len(r) = n + 1
      /\ \A k \in 1..n + 1 : r[k] = IF k < i THEN q[k] ELSE IF k = i THEN x
                                    ELSE IF k = i + 1 THEN y ELSE q[k - 1]
  BY <1>1, SplicedTwo
<1> HIDE DEF n, r
<1>6. ASSUME NEW k \in 1..n PROVE r[k].end = r[k + 1].seq
  <2>1. CASE k < i - 1
    <3>1. k \in 1..n - 1 /\ k \in 1..n + 1 /\ k + 1 \in 1..n + 1 /\ k < i /\ k + 1 < i
      BY <1>4, <2>1
    <3> QED BY <1>2, <1>5, <3>1
  <2>2. CASE k = i - 1
    <3>1. k \in 1..n - 1 /\ k \in 1..n + 1 /\ k + 1 \in 1..n + 1 /\ k < i /\ k + 1 = i
      BY <1>4, <2>2
    <3>2. r[k] = q[k] /\ r[k + 1] = x /\ q[k].end = q[i].seq
      BY <1>2, <1>5, <3>1
    <3> QED BY <3>2
  <2>3. CASE k = i
    <3>1. k \in 1..n + 1 /\ k + 1 \in 1..n + 1 /\ ~(k < i) /\ ~(k + 1 < i) /\ k + 1 # i
      BY <1>4, <2>3
    <3>2. r[k] = x /\ r[k + 1] = y
      BY <1>5, <2>3, <3>1
    <3> QED BY <3>2
  <2>4. CASE k = i + 1
    <3>1. k \in 1..n + 1 /\ k + 1 \in 1..n + 1 /\ ~(k < i) /\ k # i /\ ~(k + 1 < i) /\ k + 1 # i
          /\ k + 1 # i + 1 /\ k + 1 - 1 = i + 1 /\ i \in 1..n - 1
      BY <1>4, <2>4
    <3>2. r[k] = y /\ r[k + 1] = q[i + 1] /\ q[i].end = q[i + 1].seq
      BY <1>2, <1>5, <2>4, <3>1
    <3> QED BY <3>2
  <2>5. CASE k > i + 1
    <3>1. k \in 1..n + 1 /\ k + 1 \in 1..n + 1 /\ ~(k < i) /\ k # i /\ k # i + 1
          /\ ~(k + 1 < i) /\ k + 1 # i
          /\ k + 1 # i + 1 /\ k + 1 - 1 = k /\ k - 1 \in 1..n - 1 /\ k - 1 + 1 = k
      BY <1>4, <2>5
    <3>2. r[k] = q[k - 1] /\ r[k + 1] = q[k]
      BY <1>5, <3>1
    <3>3. q[k - 1].end = q[k].seq
      BY <1>2, <3>1
    <3> QED BY <3>2, <3>3
  <2> QED BY <1>4, <2>1, <2>2, <2>3, <2>4, <2>5
<1>7. n > 0 /\ r[1].seq <= una /\ r[n + 1].end = nxt
  <2>1. 1 \in 1..n + 1 /\ n + 1 \in 1..n + 1 /\ n > 0 /\ ~(n + 1 < i) /\ n + 1 # i
        /\ n + 1 - 1 = n
    BY <1>4
  <2>2. r[1].seq = q[1].seq
    <3>1. CASE i = 1
      BY <1>5, <2>1, <3>1
    <3>2. CASE i # 1
      <4>1. 1 < i
        BY <1>4, <3>2
      <4> QED BY <1>5, <2>1, <4>1
    <3> QED BY <3>1, <3>2
  <2>3. r[n + 1].end = q[n].end
    <3>1. CASE i = n
      BY <1>5, <2>1, <3>1
    <3>2. CASE i # n
      <4> DEFINE m == n + 1
      <4>1. m \in 1..n + 1 /\ ~(m < i) /\ m # i /\ m # i + 1 /\ m - 1 = n
        BY <1>4, <3>2
      <4> HIDE DEF m
      <4>2. r[m] = q[m - 1]
        BY <1>5, <4>1
      <4> QED BY <4>1, <4>2 DEF m
    <3> QED BY <3>1, <3>2
  <2> QED BY <1>2, <2>1, <2>2, <2>3
<1>8. ASSUME NEW k \in 1..n + 1
      PROVE  RtxOK(r[k], una) /\ (r[k].fin => k = n + 1 /\ f)
  <2>1. CASE k < i
    <3>1. k \in 1..n /\ k # n
      BY <1>4, <2>1
    <3> QED BY <1>2, <1>3, <1>5, <2>1, <3>1
  <2>2. CASE k = i
    <3>1. r[k] = x
      BY <1>5, <2>2
    <3> QED BY <3>1
  <2>3. CASE k = i + 1
    <3>1. ~(k < i) /\ k # i /\ (i = n => k = n + 1)
      BY <1>4, <2>3
    <3>2. r[k] = y
      BY <1>5, <2>3, <3>1
    <3> QED BY <1>3, <1>4, <3>1, <3>2
  <2>4. CASE k > i + 1
    <3>1. ~(k < i) /\ k # i /\ k # i + 1 /\ k - 1 \in 1..n /\ (k - 1 = n => k = n + 1)
      BY <1>4, <2>4
    <3>2. r[k] = q[k - 1]
      BY <1>5, <3>1
    <3> QED BY <1>2, <1>3, <3>1, <3>2
  <2> QED BY <1>4, <2>1, <2>2, <2>3, <2>4
<1>9. Linked(r)
  <2>1. Len(r) - 1 = n
    BY <1>4, <1>5
  <2> QED BY <1>6, <2>1 DEF Linked
<1>10. FinLast(r, f)
  BY <1>5, <1>8 DEF FinLast
<1>11. n + 1 # 0 /\ n + 1 > 0
  BY <1>4
<1>12. SentPart(r, una, nxt, f)
  BY <1>1, <1>5, <1>7, <1>8, <1>9, <1>10, <1>11 DEF SentPart
<1> QED BY <1>5, <1>12 DEF n, r

\* Joining two neighbours of the retransmit queue.
LEMMA SentJoined ==
  ASSUME NEW q, NEW una, NEW nxt, NEW f, SentPart(q, una, nxt, f),
         NEW i \in 1..Len(q), i # Len(q), NEW x \in Skb, RtxOK(x, una),
         x.seq = q[i].seq, x.end = q[i + 1].end, x.fin = q[i + 1].fin
  PROVE  /\ SentPart(Joined(q, i, x), una, nxt, f)
         /\ Len(Joined(q, i, x)) = Len(q) - 1
         /\ \A k \in 1..Len(q) - 1 :
              Joined(q, i, x)[k] = IF k < i THEN q[k] ELSE IF k = i THEN x ELSE q[k + 1]
<1> DEFINE n == Len(q)
           r == Joined(q, i, x)
<1>1. q \in Seq(Skb) /\ una \in Nat /\ nxt \in Nat /\ una <= nxt
  BY DEF SentPart
<1>2. /\ \A k \in 1..n - 1 : q[k].end = q[k + 1].seq
      /\ n > 0 => q[1].seq <= una /\ q[n].end = nxt
      /\ \A k \in 1..n : RtxOK(q[k], una)
  BY DEF SentPart, Linked
<1>3. \A k \in 1..n : q[k].fin => k = n /\ f
  BY DEF SentPart, FinLast
<1>4. n \in Nat /\ i \in 1..n /\ i < n
  BY <1>1, SeqFacts
<1>5. r \in Seq(Skb) /\ Len(r) = n - 1
      /\ \A k \in 1..n - 1 : r[k] = IF k < i THEN q[k] ELSE IF k = i THEN x ELSE q[k + 1]
  <2>1. Joined(q, i, x) \in Seq(Skb)
    BY <1>1, JoinedTwo
  <2>2. Len(Joined(q, i, x)) = Len(q) - 1
    BY <1>1, JoinedTwo
  <2>3. \A k \in 1..Len(q) - 1 :
              Joined(q, i, x)[k] = IF k < i THEN q[k] ELSE IF k = i THEN x ELSE q[k + 1]
    BY <1>1, JoinedTwo
  <2> QED BY <2>1, <2>2, <2>3
<1> HIDE DEF n, r
<1>6. ASSUME NEW k \in 1..n - 2 PROVE r[k].end = r[k + 1].seq
  <2>1. k \in 1..n - 1 /\ k + 1 \in 1..n - 1
    BY <1>4
  <2>2. CASE k < i - 1
    <3>1. k < i /\ k + 1 < i
      BY <1>4, <2>2
    <3> QED BY <1>2, <1>5, <2>1, <3>1
  <2>3. CASE k = i - 1
    <3>1. k < i /\ k + 1 = i
      BY <1>4, <2>3
    <3>2. r[k] = q[k] /\ r[k + 1] = x /\ q[k].end = q[i].seq
      BY <1>2, <1>5, <2>1, <3>1
    <3> QED BY <3>2
  <2>4. CASE k = i
    <3>1. ~(k + 1 < i) /\ k + 1 # i /\ k + 1 + 1 = i + 2 /\ i + 1 \in 1..n - 1 /\ i + 1 + 1 = i + 2
          /\ ~(k < i)
      BY <1>4, <2>4
    <3>2. r[k] = x /\ r[k + 1] = q[i + 2]
      BY <1>5, <2>1, <2>4, <3>1
    <3>3. q[i + 1].end = q[i + 2].seq
      BY <1>2, <3>1
    <3> QED BY <3>2, <3>3
  <2>5. CASE k > i
    <3>1. ~(k < i) /\ k # i /\ ~(k + 1 < i) /\ k + 1 # i
      BY <1>4, <2>5
    <3>2. r[k] = q[k + 1] /\ r[k + 1] = q[k + 1 + 1]
      BY <1>5, <2>1, <3>1
    <3>3. q[k + 1].end = q[k + 1 + 1].seq
      BY <1>2, <2>1
    <3> QED BY <3>2, <3>3
  <2> QED BY <1>4, <2>2, <2>3, <2>4, <2>5
<1>7. n - 1 > 0 /\ r[1].seq <= una /\ r[n - 1].end = nxt
  <2>1. 1 \in 1..n - 1 /\ n - 1 \in 1..n - 1 /\ n > 0 /\ n - 1 > 0 /\ n - 1 + 1 = n
        /\ ~(n - 1 < i)
    BY <1>4
  <2>2. r[1].seq = q[1].seq
    <3>1. CASE i = 1
      BY <1>5, <2>1, <3>1
    <3>2. CASE i # 1
      <4>1. 1 < i
        BY <1>4, <3>2
      <4> QED BY <1>5, <2>1, <4>1
    <3> QED BY <3>1, <3>2
  <2>3. r[n - 1].end = q[n].end
    <3>1. CASE n - 1 = i
      BY <1>5, <2>1, <3>1
    <3>2. CASE n - 1 # i
      BY <1>5, <2>1, <3>2
    <3> QED BY <3>1, <3>2
  <2> QED BY <1>2, <2>1, <2>2, <2>3
<1>8. ASSUME NEW k \in 1..n - 1
      PROVE  RtxOK(r[k], una) /\ (r[k].fin => k = n - 1 /\ f)
  <2>1. k \in 1..n /\ k + 1 \in 1..n /\ i + 1 \in 1..n
    BY <1>4
  <2>2. CASE k < i
    <3>1. k # n
      BY <1>4, <2>2
    <3> QED BY <1>2, <1>3, <1>5, <2>1, <2>2, <3>1
  <2>3. CASE k = i
    <3>1. r[k] = x
      BY <1>5, <2>3
    <3>2. i + 1 = n => k = n - 1
      BY <1>4, <2>3
    <3> QED BY <1>3, <2>1, <3>1, <3>2
  <2>4. CASE k > i
    <3>1. ~(k < i) /\ k # i /\ (k + 1 = n => k = n - 1)
      BY <1>4, <2>4
    <3>2. r[k] = q[k + 1]
      BY <1>5, <3>1
    <3> QED BY <1>2, <1>3, <2>1, <3>1, <3>2
  <2> QED BY <1>4, <2>2, <2>3, <2>4
<1>9. Linked(r)
  <2>1. Len(r) - 1 = n - 2
    BY <1>4, <1>5
  <2> QED BY <1>6, <2>1 DEF Linked
<1>10. FinLast(r, f)
  BY <1>5, <1>8 DEF FinLast
<1>11. n - 1 # 0
  BY <1>7, <1>4
<1>12. SentPart(r, una, nxt, f)
  BY <1>1, <1>5, <1>7, <1>8, <1>9, <1>10, <1>11 DEF SentPart
<1> QED BY <1>5, <1>12 DEF n, r

\* A buffer that was sent joins the retransmit queue.
LEMMA SentGrown ==
  ASSUME NEW q, NEW una, NEW nxt, SentPart(q, una, nxt, FALSE), NEW f,
         NEW x \in Skb, RtxOK(x, una), x.seq = nxt, x.fin => f
  PROVE  /\ SentPart(Append(q, x), una, x.end, f)
         /\ Len(Append(q, x)) = Len(q) + 1
         /\ \A k \in 1..Len(q) + 1 : Append(q, x)[k] = IF k = Len(q) + 1 THEN x ELSE q[k]
<1> DEFINE n == Len(q)
           r == Append(q, x)
<1>1. q \in Seq(Skb) /\ una \in Nat /\ nxt \in Nat /\ una <= nxt
  BY DEF SentPart
<1>2. /\ \A k \in 1..n - 1 : q[k].end = q[k + 1].seq
      /\ n > 0 => q[1].seq <= una /\ q[n].end = nxt
      /\ n = 0 => una = nxt
      /\ \A k \in 1..n : RtxOK(q[k], una)
  BY DEF SentPart, Linked
<1>3. \A k \in 1..n : ~q[k].fin
  BY DEF SentPart, FinLast
<1>4. n \in Nat
  BY <1>1, SeqFacts
<1>5. r \in Seq(Skb) /\ Len(r) = n + 1
      /\ \A k \in 1..n + 1 : r[k] = IF k = n + 1 THEN x ELSE q[k]
  BY <1>1, Appended
<1>6. x.seq \in Nat /\ x.end \in Nat /\ x.seq <= x.end
  BY SkbRange
<1> HIDE DEF n, r
<1>7. ASSUME NEW k \in 1..n PROVE r[k].end = r[k + 1].seq
  <2>1. k \in 1..n + 1 /\ k + 1 \in 1..n + 1 /\ k # n + 1 /\ (k + 1 = n + 1 <=> k = n)
        /\ (k # n => k \in 1..n - 1) /\ n > 0
    BY <1>4
  <2>2. CASE k = n
    BY <1>2, <1>5, <2>1, <2>2
  <2>3. CASE k # n
    BY <1>2, <1>5, <2>1, <2>3
  <2> QED BY <2>2, <2>3
<1>8. n + 1 > 0 /\ r[1].seq <= una /\ r[n + 1].end = x.end
  <2>1. 1 \in 1..n + 1 /\ n + 1 \in 1..n + 1 /\ n + 1 > 0
    BY <1>4
  <2>2. CASE n = 0
    BY <1>1, <1>2, <1>5, <2>1, <2>2
  <2>3. CASE n # 0
    <3>1. n > 0 /\ 1 # n + 1
      BY <1>4, <2>3
    <3> QED BY <1>2, <1>5, <2>1, <3>1
  <2> QED BY <2>2, <2>3
<1>9. ASSUME NEW k \in 1..n + 1
      PROVE  RtxOK(r[k], una) /\ (r[k].fin => k = n + 1 /\ f)
  <2>1. CASE k = n + 1
    BY <1>5, <2>1
  <2>2. CASE k # n + 1
    <3>1. k \in 1..n
      BY <1>4, <2>2
    <3> QED BY <1>2, <1>3, <1>5, <2>2, <3>1
  <2> QED BY <2>1, <2>2
<1>10. Linked(r)
  <2>1. Len(r) - 1 = n
    BY <1>4, <1>5
  <2> QED BY <1>7, <2>1 DEF Linked
<1>11. FinLast(r, f)
  BY <1>5, <1>9 DEF FinLast
<1>12. n + 1 # 0 /\ una <= x.end
  BY <1>1, <1>4, <1>6
<1>13. SentPart(r, una, x.end, f)
  BY <1>1, <1>5, <1>6, <1>8, <1>9, <1>10, <1>11, <1>12 DEF SentPart
<1> QED BY <1>5, <1>13 DEF n, r

\* The FIN on the last buffer of the retransmit queue, which takes a sequence
\* number more.
LEMMA SentExtended ==
  ASSUME NEW q, NEW una, NEW nxt, SentPart(q, una, nxt, FALSE), q # <<>>, NEW f,
         NEW x \in Skb, RtxOK(x, una), x.seq = q[Len(q)].seq, x.end >= nxt, x.fin => f
  PROVE  /\ SentPart(Append(Front(q), x), una, x.end, f)
         /\ Len(Append(Front(q), x)) = Len(q)
         /\ \A k \in 1..Len(q) : Append(Front(q), x)[k] = IF k = Len(q) THEN x ELSE q[k]
<1> DEFINE n == Len(q)
           r == Append(Front(q), x)
<1>1. q \in Seq(Skb) /\ una \in Nat /\ nxt \in Nat /\ una <= nxt
  BY DEF SentPart
<1>2. /\ \A k \in 1..n - 1 : q[k].end = q[k + 1].seq
      /\ n > 0 => q[1].seq <= una
      /\ \A k \in 1..n : RtxOK(q[k], una)
  BY DEF SentPart, Linked
<1>3. \A k \in 1..n : ~q[k].fin
  BY DEF SentPart, FinLast
<1>4. n \in Nat \ {0}
  BY <1>1, SeqEnds
<1>5. r \in Seq(Skb) /\ Len(r) = n /\ \A k \in 1..n : r[k] = IF k = n THEN x ELSE q[k]
  BY <1>1, LastReplaced
<1>6. x.seq \in Nat /\ x.end \in Nat /\ x.seq <= x.end /\ x.seq = q[n].seq
  BY SkbRange
<1> HIDE DEF n, r
<1>7. ASSUME NEW k \in 1..n - 1 PROVE r[k].end = r[k + 1].seq
  <2>1. k \in 1..n /\ k + 1 \in 1..n /\ k # n
    BY <1>4
  <2>2. r[k] = q[k] /\ r[k + 1].seq = q[k + 1].seq
    BY <1>5, <1>6, <2>1
  <2> QED BY <1>2, <2>2
<1>8. n > 0 /\ r[1].seq <= una /\ r[n].end = x.end
  <2>1. n > 0 /\ 1 \in 1..n /\ n \in 1..n
    BY <1>4
  <2>2. r[1].seq = q[1].seq
    BY <1>5, <1>6, <2>1
  <2> QED BY <1>2, <1>5, <2>1, <2>2
<1>9. \A k \in 1..n : RtxOK(r[k], una) /\ (r[k].fin => k = n /\ f)
  BY <1>2, <1>3, <1>5
<1>10. Linked(r)
  BY <1>5, <1>7 DEF Linked
<1>11. FinLast(r, f)
  BY <1>5, <1>9 DEF FinLast
<1>12. n # 0 /\ una <= x.end
  BY <1>1, <1>4, <1>6
<1>13. SentPart(r, una, x.end, f)
  BY <1>1, <1>5, <1>6, <1>8, <1>9, <1>10, <1>11, <1>12 DEF SentPart
<1> QED BY <1>5, <1>13 DEF n, r

\* Replacing the buffer at the head of the write queue by one of its range.
LEMMA UnsentReplaced ==
  ASSUME NEW q, NEW nxt, NEW wseq, NEW f, UnsentPart(q, nxt, wseq, f), q # <<>>,
         NEW x \in Skb, x.seq = q[1].seq, x.end = q[1].end, x.fin = q[1].fin, Plain(x)
  PROVE  /\ UnsentPart(Spliced(q, 1, <<x>>), nxt, wseq, f)
         /\ Len(Spliced(q, 1, <<x>>)) = Len(q) /\ Spliced(q, 1, <<x>>)[1] = x
         /\ \A k \in 2..Len(q) : Spliced(q, 1, <<x>>)[k] = q[k]
<1> DEFINE n == Len(q)
           r == Spliced(q, 1, <<x>>)
<1>1. q \in Seq(Skb) /\ nxt \in Nat /\ wseq \in Nat /\ nxt <= wseq
  BY DEF UnsentPart
<1>2. /\ \A k \in 1..n - 1 : q[k].end = q[k + 1].seq
      /\ n > 0 => q[1].seq = nxt /\ q[n].end = wseq
  BY DEF UnsentPart, Linked
<1>3. \A k \in 1..n : q[k].fin => k = n /\ f
  BY DEF UnsentPart, FinLast
<1>4. n \in Nat \ {0} /\ 1 \in 1..n /\ n \in 1..n
  <2>1. n \in Nat \ {0}
    BY <1>1, SeqEnds
  <2> HIDE DEF n
  <2> QED BY <2>1
<1>5. r \in Seq(Skb) /\ Len(r) = n /\ \A k \in 1..n : r[k] = IF k = 1 THEN x ELSE q[k]
  BY <1>1, <1>4, SplicedOne
<1> HIDE DEF n, r
<1>6. ASSUME NEW k \in 1..n - 1 PROVE r[k].end = r[k + 1].seq
  <2>1. k \in 1..n /\ k + 1 \in 1..n
    BY <1>4
  <2>2. r[k].end = q[k].end /\ r[k + 1].seq = q[k + 1].seq
    BY <1>5, <2>1
  <2> QED BY <1>2, <2>2
<1>7. n > 0 /\ r[1].seq = nxt /\ r[n].end = wseq
  <2>1. n > 0
    BY <1>4
  <2>2. r[1].seq = q[1].seq /\ r[n].end = q[n].end
    BY <1>4, <1>5
  <2> QED BY <1>2, <2>1, <2>2
<1>8. \A k \in 1..n : r[k].fin => k = n /\ f
  BY <1>3, <1>5
<1>9. Linked(r)
  BY <1>5, <1>6 DEF Linked
<1>10. FinLast(r, f)
  BY <1>5, <1>8 DEF FinLast
<1>11. AllPlain(r)
  BY <1>5 DEF UnsentPart, AllPlain, n
<1>12. UnsentPart(r, nxt, wseq, f)
  BY <1>1, <1>4, <1>5, <1>7, <1>9, <1>10, <1>11 DEF UnsentPart
<1>13. r[1] = x /\ \A k \in 2..n : r[k] = q[k]
  BY <1>4, <1>5
<1> QED BY <1>5, <1>12, <1>13 DEF n, r

\* Cutting the buffer at the head of the write queue in two.
LEMMA UnsentCut ==
  ASSUME NEW q, NEW nxt, NEW wseq, NEW f, UnsentPart(q, nxt, wseq, f), q # <<>>,
         NEW p, NEW x \in Skb, NEW y \in Skb, p = <<x, y>>,
         x.seq = q[1].seq, x.end = y.seq, y.end = q[1].end,
         x.fin = FALSE, y.fin = q[1].fin, Plain(x), Plain(y)
  PROVE  /\ UnsentPart(Spliced(q, 1, p), nxt, wseq, f)
         /\ Len(Spliced(q, 1, p)) = Len(q) + 1 /\ Spliced(q, 1, p)[1] = x
<1> DEFINE n == Len(q)
           r == Spliced(q, 1, p)
<1>1. q \in Seq(Skb) /\ nxt \in Nat /\ wseq \in Nat /\ nxt <= wseq
  BY DEF UnsentPart
<1>2. /\ \A k \in 1..n - 1 : q[k].end = q[k + 1].seq
      /\ n > 0 => q[1].seq = nxt /\ q[n].end = wseq
  BY DEF UnsentPart, Linked
<1>3. \A k \in 1..n : q[k].fin => k = n /\ f
  BY DEF UnsentPart, FinLast
<1>4. n \in Nat \ {0} /\ 1 \in 1..n /\ n \in 1..n
  <2>1. n \in Nat \ {0}
    BY <1>1, SeqEnds
  <2> HIDE DEF n
  <2> QED BY <2>1
<1>5. r \in Seq(Skb) /\ Len(r) = n + 1
      /\ \A k \in 1..n + 1 : r[k] = IF k < 1 THEN q[k] ELSE IF k = 1 THEN x
                                    ELSE IF k = 1 + 1 THEN y ELSE q[k - 1]
  BY <1>1, <1>4, SplicedTwo
<1> HIDE DEF n, r
<1>6. /\ r[1] = x /\ r[2] = y
      /\ \A k \in 3..n + 1 : r[k] = q[k - 1]
  BY <1>4, <1>5
<1>7. ASSUME NEW k \in 1..n PROVE r[k].end = r[k + 1].seq
  <2>1. CASE k = 1
    BY <1>6, <2>1
  <2>2. CASE k = 2
    <3>1. 1 \in 1..n - 1 /\ 3 \in 3..n + 1 /\ k + 1 = 3
      BY <1>4, <2>2
    <3> QED BY <1>2, <1>6, <2>2, <3>1
  <2>3. CASE k > 2
    <3>1. k - 1 \in 1..n - 1 /\ k \in 3..n + 1 /\ k + 1 \in 3..n + 1 /\ k - 1 + 1 = k /\ k + 1 - 1 = k
      BY <1>4, <2>3
    <3>2. r[k] = q[k - 1] /\ r[k + 1] = q[k]
      BY <1>6, <3>1
    <3>3. q[k - 1].end = q[k].seq
      BY <1>2, <3>1
    <3> QED BY <3>2, <3>3
  <2> QED BY <1>4, <2>1, <2>2, <2>3
<1>8. n + 1 > 0 /\ n > 0 /\ r[1].seq = nxt /\ r[n + 1].end = wseq
  <2>1. n > 0 /\ n + 1 > 0
    BY <1>4
  <2>2. r[1].seq = q[1].seq
    BY <1>6
  <2>3. r[n + 1].end = q[n].end
    <3>1. CASE n = 1
      BY <1>6, <3>1
    <3>2. CASE n # 1
      <4> DEFINE m == n + 1
      <4>1. m \in 3..n + 1 /\ m - 1 = n
        BY <1>4, <3>2
      <4> HIDE DEF m
      <4> QED BY <1>6, <4>1 DEF m
    <3> QED BY <3>1, <3>2
  <2> QED BY <1>2, <2>1, <2>2, <2>3
<1>9. ASSUME NEW k \in 1..n + 1 PROVE r[k].fin => k = n + 1 /\ f
  <2>1. CASE k = 1
    BY <1>6, <2>1
  <2>2. CASE k = 2
    <3>1. 1 = n => k = n + 1
      BY <2>2
    <3> QED BY <1>3, <1>4, <1>6, <2>2, <3>1
  <2>3. CASE k > 2
    <3>1. k \in 3..n + 1 /\ k - 1 \in 1..n /\ (k - 1 = n => k = n + 1)
      BY <1>4, <2>3
    <3> QED BY <1>3, <1>6, <3>1
  <2> QED BY <1>4, <2>1, <2>2, <2>3
<1>10. Linked(r)
  <2>1. Len(r) - 1 = n
    BY <1>4, <1>5
  <2> QED BY <1>7, <2>1 DEF Linked
<1>11. FinLast(r, f)
  BY <1>5, <1>9 DEF FinLast
<1>12. n + 1 # 0
  BY <1>4
<1>13. AllPlain(r)
  <2>1. \A k \in 1..n : Plain(q[k])
    BY DEF UnsentPart, AllPlain, n
  <2>2. \A k \in 3..n + 1 : k - 1 \in 1..n
    BY <1>4
  <2>3. \A k \in 1..n + 1 : k = 1 \/ k = 2 \/ k \in 3..n + 1
    BY <1>4
  <2> QED BY <1>5, <1>6, <2>1, <2>2, <2>3 DEF AllPlain
<1>14. UnsentPart(r, nxt, wseq, f)
  BY <1>1, <1>5, <1>8, <1>10, <1>11, <1>12, <1>13 DEF UnsentPart
<1> QED BY <1>5, <1>6, <1>14 DEF n, r

\* The buffer at the head of the write queue leaves it.
LEMMA UnsentPopped ==
  ASSUME NEW q, NEW nxt, NEW wseq, NEW f, UnsentPart(q, nxt, wseq, f), q # <<>>
  PROVE  /\ UnsentPart(Tail(q), q[1].end, wseq, f)
         /\ q[1] \in Skb /\ q[1].seq = nxt /\ Plain(q[1])
         /\ q[1].fin => f /\ Tail(q) = <<>>
         /\ Len(Tail(q)) = Len(q) - 1
<1> DEFINE n == Len(q)
           r == Tail(q)
<1>1. q \in Seq(Skb) /\ nxt \in Nat /\ wseq \in Nat /\ nxt <= wseq
  BY DEF UnsentPart
<1>2. /\ \A k \in 1..n - 1 : q[k].end = q[k + 1].seq
      /\ n > 0 => q[1].seq = nxt /\ q[n].end = wseq
  BY DEF UnsentPart, Linked
<1>3. \A k \in 1..n : q[k].fin => k = n /\ f
  BY DEF UnsentPart, FinLast
<1>4. n \in Nat \ {0}
  BY <1>1, SeqEnds
<1>5. r \in Seq(Skb) /\ Len(r) = n - 1 /\ \A k \in 1..n - 1 : r[k] = q[k + 1]
  BY <1>1, SeqEnds
<1>6. \A k \in 1..n : q[k] \in Skb
  BY <1>1, SeqFacts
<1>7. r = <<>> <=> Len(r) = 0
  BY <1>5, SeqFacts
<1>8. n > 1 => q[1].end <= q[n].seq
  <2> SUFFICES ASSUME n > 1 PROVE q[1].end <= q[n].seq
    OBVIOUS
  <2>1. Linked(q)
    BY DEF UnsentPart
  <2>2. 1 \in 1..n /\ n \in 1..n /\ 1 < n
    BY <1>4
  <2> QED BY <1>1, <2>1, <2>2, LinkedOrder
<1> HIDE DEF n, r
<1>9. 1 \in 1..n /\ n \in 1..n /\ n > 0
  BY <1>4
<1>10. /\ q[1].end \in Nat /\ q[1].seq \in Nat /\ q[1].seq <= q[1].end
       /\ q[n].end \in Nat /\ q[n].seq \in Nat /\ q[n].seq <= q[n].end
  BY <1>6, <1>9, SkbRange
<1>11. q[1].end <= wseq
  <2>1. CASE n = 1
    BY <1>1, <1>2, <1>9, <1>10, <2>1
  <2>2. CASE n # 1
    BY <1>1, <1>2, <1>4, <1>8, <1>9, <1>10, <2>2
  <2> QED BY <2>1, <2>2
<1>12. ASSUME NEW k \in 1..n - 2 PROVE r[k].end = r[k + 1].seq
  <2>1. k \in 1..n - 1 /\ k + 1 \in 1..n - 1
    BY <1>4
  <2>2. r[k] = q[k + 1] /\ r[k + 1] = q[k + 1 + 1]
    BY <1>5, <2>1
  <2>3. q[k + 1].end = q[k + 1 + 1].seq
    BY <1>2, <2>1
  <2> QED BY <2>2, <2>3
<1>13. n - 1 > 0 => r[1].seq = q[1].end /\ r[n - 1].end = wseq
  <2> SUFFICES ASSUME n - 1 > 0 PROVE r[1].seq = q[1].end /\ r[n - 1].end = wseq
    OBVIOUS
  <2>1. 1 \in 1..n - 1 /\ n - 1 \in 1..n - 1 /\ n - 1 + 1 = n /\ 1 + 1 = 2
    BY <1>4
  <2>2. r[1] = q[2] /\ q[1].end = q[2].seq
    BY <1>2, <1>5, <2>1
  <2>3. r[n - 1] = q[n]
    BY <1>5, <2>1
  <2> QED BY <1>2, <1>9, <2>2, <2>3
<1>14. n - 1 = 0 => q[1].end = wseq
  BY <1>2, <1>4, <1>9
<1>15. ASSUME NEW k \in 1..n - 1 PROVE r[k].fin => k = n - 1 /\ f
  <2>1. k + 1 \in 1..n /\ (k + 1 = n => k = n - 1)
    BY <1>4
  <2> QED BY <1>3, <1>5, <2>1
<1>16. Linked(r)
  <2>1. Len(r) - 1 = n - 2
    BY <1>4, <1>5
  <2> QED BY <1>12, <2>1 DEF Linked
<1>17. FinLast(r, f)
  BY <1>5, <1>15 DEF FinLast
<1>18. \A k \in 1..n : Plain(q[k])
  BY DEF UnsentPart, AllPlain, n
<1>19. AllPlain(r)
  <2>1. \A k \in 1..n - 1 : k + 1 \in 1..n
    BY <1>4
  <2> QED BY <1>5, <1>18, <2>1 DEF AllPlain
<1>20. UnsentPart(r, q[1].end, wseq, f)
  BY <1>1, <1>5, <1>10, <1>11, <1>13, <1>14, <1>16, <1>17, <1>19 DEF UnsentPart
<1>21. q[1].fin => f /\ r = <<>>
  <2>1. q[1].fin => n = 1 /\ f
    BY <1>3, <1>9
  <2>2. n = 1 => Len(r) = 0
    BY <1>5
  <2> QED BY <1>7, <2>1, <2>2
<1> QED BY <1>2, <1>5, <1>6, <1>9, <1>20, <1>21, <1>18 DEF n, r

\* New bytes in a buffer of their own at the end of the write queue.
LEMMA UnsentAdded ==
  ASSUME NEW q, NEW nxt, NEW wseq, UnsentPart(q, nxt, wseq, FALSE), NEW f,
         NEW x \in Skb, x.seq = wseq, x.fin => f, Plain(x)
  PROVE  UnsentPart(Append(q, x), nxt, x.end, f)
<1> DEFINE n == Len(q)
           r == Append(q, x)
<1>1. q \in Seq(Skb) /\ nxt \in Nat /\ wseq \in Nat /\ nxt <= wseq
  BY DEF UnsentPart
<1>2. /\ \A k \in 1..n - 1 : q[k].end = q[k + 1].seq
      /\ n > 0 => q[1].seq = nxt /\ q[n].end = wseq
      /\ n = 0 => nxt = wseq
  BY DEF UnsentPart, Linked
<1>3. \A k \in 1..n : ~q[k].fin
  BY DEF UnsentPart, FinLast
<1>4. n \in Nat
  BY <1>1, SeqFacts
<1>5. r \in Seq(Skb) /\ Len(r) = n + 1
      /\ \A k \in 1..n + 1 : r[k] = IF k = n + 1 THEN x ELSE q[k]
  BY <1>1, Appended
<1>6. x.seq \in Nat /\ x.end \in Nat /\ x.seq <= x.end
  BY SkbRange
<1> HIDE DEF n, r
<1>7. ASSUME NEW k \in 1..n PROVE r[k].end = r[k + 1].seq
  <2>1. k \in 1..n + 1 /\ k + 1 \in 1..n + 1 /\ k # n + 1 /\ (k + 1 = n + 1 <=> k = n)
        /\ (k # n => k \in 1..n - 1) /\ n > 0
    BY <1>4
  <2>2. CASE k = n
    BY <1>2, <1>5, <2>1, <2>2
  <2>3. CASE k # n
    BY <1>2, <1>5, <2>1, <2>3
  <2> QED BY <2>2, <2>3
<1>8. n + 1 > 0 /\ r[1].seq = nxt /\ r[n + 1].end = x.end
  <2>1. 1 \in 1..n + 1 /\ n + 1 \in 1..n + 1 /\ n + 1 > 0
    BY <1>4
  <2>2. CASE n = 0
    BY <1>1, <1>2, <1>5, <2>1, <2>2
  <2>3. CASE n # 0
    <3>1. n > 0 /\ 1 # n + 1
      BY <1>4, <2>3
    <3> QED BY <1>2, <1>5, <2>1, <3>1
  <2> QED BY <2>2, <2>3
<1>9. ASSUME NEW k \in 1..n + 1 PROVE r[k].fin => k = n + 1 /\ f
  <2>1. CASE k = n + 1
    BY <1>5, <2>1
  <2>2. CASE k # n + 1
    <3>1. k \in 1..n
      BY <1>4, <2>2
    <3> QED BY <1>3, <1>5, <2>2, <3>1
  <2> QED BY <2>1, <2>2
<1>10. Linked(r)
  <2>1. Len(r) - 1 = n
    BY <1>4, <1>5
  <2> QED BY <1>7, <2>1 DEF Linked
<1>11. FinLast(r, f)
  BY <1>5, <1>9 DEF FinLast
<1>12. n + 1 # 0 /\ nxt <= x.end
  BY <1>1, <1>4, <1>6
<1>13. AllPlain(r)
  <2>1. \A k \in 1..n : Plain(q[k])
    BY DEF UnsentPart, AllPlain, n
  <2>2. \A k \in 1..Len(r) : k # Len(r) => k \in 1..n
    BY <1>4, <1>5
  <2> QED BY <1>5, <2>1, <2>2 DEF AllPlain
<1>14. UnsentPart(r, nxt, x.end, f)
  BY <1>1, <1>5, <1>6, <1>8, <1>10, <1>11, <1>12, <1>13 DEF UnsentPart
<1> QED BY <1>14 DEF r

\* New bytes, or the FIN, in the last buffer of the write queue.
LEMMA UnsentExtended ==
  ASSUME NEW q, NEW nxt, NEW wseq, UnsentPart(q, nxt, wseq, FALSE), q # <<>>, NEW f,
         NEW x \in Skb, x.seq = q[Len(q)].seq, x.end >= wseq, x.fin => f, Plain(x)
  PROVE  UnsentPart(Append(Front(q), x), nxt, x.end, f)
<1> DEFINE n == Len(q)
           r == Append(Front(q), x)
<1>1. q \in Seq(Skb) /\ nxt \in Nat /\ wseq \in Nat /\ nxt <= wseq
  BY DEF UnsentPart
<1>2. /\ \A k \in 1..n - 1 : q[k].end = q[k + 1].seq
      /\ n > 0 => q[1].seq = nxt
  BY DEF UnsentPart, Linked
<1>3. \A k \in 1..n : ~q[k].fin
  BY DEF UnsentPart, FinLast
<1>4. n \in Nat \ {0}
  BY <1>1, SeqEnds
<1>5. r \in Seq(Skb) /\ Len(r) = n /\ \A k \in 1..n : r[k] = IF k = n THEN x ELSE q[k]
  BY <1>1, LastReplaced
<1>6. x.seq \in Nat /\ x.end \in Nat /\ x.seq = q[n].seq
  BY SkbRange
<1> HIDE DEF n, r
<1>7. ASSUME NEW k \in 1..n - 1 PROVE r[k].end = r[k + 1].seq
  <2>1. k \in 1..n /\ k + 1 \in 1..n /\ k # n
    BY <1>4
  <2>2. r[k] = q[k] /\ r[k + 1].seq = q[k + 1].seq
    BY <1>5, <1>6, <2>1
  <2> QED BY <1>2, <2>2
<1>8. n > 0 /\ r[1].seq = nxt /\ r[n].end = x.end
  <2>1. n > 0 /\ 1 \in 1..n /\ n \in 1..n
    BY <1>4
  <2>2. r[1].seq = q[1].seq
    BY <1>5, <1>6, <2>1
  <2> QED BY <1>2, <1>5, <2>1, <2>2
<1>9. \A k \in 1..n : r[k].fin => k = n /\ f
  BY <1>3, <1>5
<1>10. Linked(r)
  BY <1>5, <1>7 DEF Linked
<1>11. FinLast(r, f)
  BY <1>5, <1>9 DEF FinLast
<1>12. n # 0 /\ nxt <= x.end
  BY <1>1, <1>4, <1>6
<1>13. AllPlain(r)
  <2>1. \A k \in 1..n : Plain(q[k])
    BY DEF UnsentPart, AllPlain, n
  <2>2. \A k \in 1..Len(r) : k # Len(r) => k \in 1..n
    BY <1>4, <1>5
  <2> QED BY <1>5, <2>1, <2>2 DEF AllPlain
<1>14. UnsentPart(r, nxt, x.end, f)
  BY <1>1, <1>5, <1>6, <1>8, <1>10, <1>11, <1>12, <1>13 DEF UnsentPart
<1> QED BY <1>14 DEF r

\* The buffers from the j-th on, behind an MTU probe that ends in the j-th:
\* the probe takes the place of what it swallows.
LEMMA UnsentProbed ==
  ASSUME NEW q, NEW nxt, NEW wseq, NEW f, UnsentPart(q, nxt, wseq, f),
         NEW j \in 1..Len(q), NEW probe \in Skb, NEW x \in Skb, NEW r,
         probe.seq = nxt, probe.end = x.seq, probe.fin = FALSE,
         x.end = q[j].end, x.fin = q[j].fin, Plain(probe), Plain(x),
         r \in Seq(Skb), Len(r) = Len(q) - j + 2, r[1] = probe, r[2] = x,
         \A k \in 3..Len(r) : r[k] = q[j + k - 2]
  PROVE  UnsentPart(r, nxt, wseq, f)
<1> DEFINE n == Len(q)
           m == Len(r)
<1>1. q \in Seq(Skb) /\ nxt \in Nat /\ wseq \in Nat /\ nxt <= wseq
  BY DEF UnsentPart
<1>2. /\ \A k \in 1..n - 1 : q[k].end = q[k + 1].seq
      /\ n > 0 => q[1].seq = nxt /\ q[n].end = wseq
  BY DEF UnsentPart, Linked
<1>3. \A k \in 1..n : q[k].fin => k = n /\ f
  BY DEF UnsentPart, FinLast
<1>4. n \in Nat /\ j \in 1..n /\ m = n - j + 2 /\ \A k \in 3..m : r[k] = q[j + k - 2]
  BY <1>1, SeqFacts
<1> HIDE DEF n, m
<1>5. n \in Nat /\ j \in 1..n /\ m = n - j + 2 /\ m \in Nat /\ m >= 2
  BY <1>4
<1>6. ASSUME NEW k \in 1..m - 1 PROVE r[k].end = r[k + 1].seq
  <2>1. CASE k = 1
    BY <2>1
  <2>2. CASE k = 2
    <3>1. 3 \in 3..m /\ j + 3 - 2 = j + 1 /\ j \in 1..n - 1 /\ k + 1 = 3
      BY <1>4, <2>2
    <3>2. r[3] = q[j + 1]
      BY <1>4, <3>1
    <3>3. q[j].end = q[j + 1].seq
      BY <1>2, <3>1
    <3> QED BY <2>2, <3>1, <3>2, <3>3
  <2>3. CASE k > 2
    <3> DEFINE i == j + k - 2
    <3>1. k \in 3..m /\ k + 1 \in 3..m /\ i \in 1..n - 1 /\ j + (k + 1) - 2 = i + 1
      BY <1>4, <1>5, <2>3
    <3>2. r[k] = q[i] /\ r[k + 1] = q[j + (k + 1) - 2]
      BY <1>4, <3>1
    <3> HIDE DEF i
    <3>3. q[i].end = q[i + 1].seq
      BY <1>2, <3>1
    <3> QED BY <3>1, <3>2, <3>3
  <2> QED BY <1>5, <2>1, <2>2, <2>3
<1>7. r[m].end = wseq
  <2>1. n > 0
    BY <1>4
  <2>2. CASE j = n
    <3>1. m = 2
      BY <1>4, <2>2
    <3> QED BY <1>2, <2>1, <2>2, <3>1
  <2>3. CASE j # n
    <3>1. m \in 3..m /\ j + m - 2 = n
      BY <1>5, <2>3
    <3>2. r[m] = q[j + m - 2]
      BY <1>4, <3>1
    <3> QED BY <1>2, <2>1, <3>1, <3>2
  <2> QED BY <2>2, <2>3
<1>8. ASSUME NEW k \in 1..m PROVE r[k].fin => k = m /\ f
  <2>1. CASE k = 1
    BY <2>1
  <2>2. CASE k = 2
    <3>1. j = n => k = m
      BY <1>4, <2>2
    <3> QED BY <1>3, <1>4, <2>2, <3>1
  <2>3. CASE k > 2
    <3> DEFINE i == j + k - 2
    <3>1. k \in 3..m /\ i \in 1..n /\ (i = n => k = m)
      BY <1>4, <1>5, <2>3
    <3>2. r[k] = q[i]
      BY <1>4, <3>1
    <3> HIDE DEF i
    <3> QED BY <1>3, <3>1, <3>2
  <2> QED BY <1>5, <2>1, <2>2, <2>3
<1>9. Linked(r)
  BY <1>6 DEF Linked, m
<1>10. FinLast(r, f)
  BY <1>8 DEF FinLast, m
<1>11. m # 0 /\ m > 0
  BY <1>5
<1>12. AllPlain(r)
  <2>1. \A k \in 1..n : Plain(q[k])
    BY DEF UnsentPart, AllPlain, n
  <2>2. \A k \in 3..m : j + k - 2 \in 1..n
    BY <1>5
  <2>3. \A k \in 1..m : k = 1 \/ k = 2 \/ k \in 3..m
    BY <1>5
  <2> QED BY <1>4, <2>1, <2>2, <2>3 DEF AllPlain, m
<1> QED BY <1>1, <1>7, <1>9, <1>10, <1>11, <1>12 DEF UnsentPart, m

-----------------------------------------------------------------------------
(* Sockets *)

States   == {"CLOSE", "SYN_SENT", "ESTABLISHED", "FIN_WAIT1"}
Pendings == {"none", "retrans", "loss_probe", "probe0", "reo"}
CaStates == {"Open", "Recovery", "Loss"}
Corks    == SUBSET {"off", "cork"}
TxSets   == {t \in SUBSET [seq : Int, end : Int, fin : BOOLEAN] : IsFiniteSet(t)}

Sockets ==
    [state : States, una : Nat, nxt : Nat, wseq : Nat, wnd : Nat, cwnd : Nat \ {0},
     mss : Msses, packets_out : Int, lost_out : Int, retrans_out : Int,
     sacked_out : Int, rtx : Seq(Skb), wq : Seq(Skb), sml : Int, tlp : Int,
     pending : Pendings, hint : Nat, ca : CaStates, nonagle : Corks, mtup : Int,
     tx : TxSets, bug : BOOLEAN]

\* What no output function changes.
Frame(s, t) ==
    /\ t.state = s.state /\ t.una = s.una /\ t.wseq = s.wseq /\ t.wnd = s.wnd
    /\ t.mss = s.mss /\ t.nonagle = s.nonagle

SameCounts(s, t) ==
    /\ t.packets_out = s.packets_out /\ t.lost_out = s.lost_out
    /\ t.retrans_out = s.retrans_out /\ t.sacked_out = s.sacked_out

\* The rest of the fields but the queues, the hint and tx.
SameTimers(s, t) ==
    /\ t.cwnd = s.cwnd /\ t.sml = s.sml /\ t.tlp = s.tlp /\ t.pending = s.pending
    /\ t.ca = s.ca /\ t.mtup = s.mtup

\* Setting one field of a socket.
LEMMA SetRtx ==
  ASSUME NEW s \in Sockets, NEW q \in Seq(Skb)
  PROVE  LET t == [s EXCEPT !.rtx = q]
         IN /\ t \in Sockets /\ Frame(s, t) /\ SameCounts(s, t) /\ SameTimers(s, t)
            /\ t.rtx = q /\ t.wq = s.wq /\ t.nxt = s.nxt /\ t.hint = s.hint
            /\ t.tx = s.tx /\ t.bug = s.bug
BY DEF Sockets, Frame, SameCounts, SameTimers

\* tcp_adjust_pcount: packets leave the counters.
LEMMA AdjustPcountIs ==
  ASSUME NEW s \in Sockets, NEW b \in Skb, NEW d \in Int
  PROVE  LET t == AdjustPcount(s, b, d)
         IN /\ t \in Sockets /\ Frame(s, t) /\ SameTimers(s, t)
            /\ t.packets_out = s.packets_out - d
            /\ t.sacked_out  = s.sacked_out - (IF b.acked THEN d ELSE 0)
            /\ t.retrans_out = s.retrans_out - (IF b.retrans THEN d ELSE 0)
            /\ t.lost_out    = s.lost_out - (IF b.lost THEN d ELSE 0)
            /\ t.rtx = s.rtx /\ t.wq = s.wq /\ t.nxt = s.nxt /\ t.hint = s.hint
            /\ t.tx = s.tx /\ t.bug = s.bug
<1> DEFINE t == AdjustPcount(s, b, d)
           po == s.packets_out - d
           sa == s.sacked_out - d * Bit(b.acked)
           re == s.retrans_out - d * Bit(b.retrans)
           lo == s.lost_out - d * Bit(b.lost)
<1>1. b.acked \in BOOLEAN /\ b.retrans \in BOOLEAN /\ b.lost \in BOOLEAN
  BY SkbFields DEF Skb
<1>2. s.packets_out \in Int /\ s.sacked_out \in Int /\ s.retrans_out \in Int /\ s.lost_out \in Int
  BY DEF Sockets
<1>3. \A x \in BOOLEAN : d * Bit(x) = IF x THEN d ELSE 0
  BY DEF Bit
<1>4. /\ po \in Int
      /\ sa \in Int /\ sa = s.sacked_out - (IF b.acked THEN d ELSE 0)
      /\ re \in Int /\ re = s.retrans_out - (IF b.retrans THEN d ELSE 0)
      /\ lo \in Int /\ lo = s.lost_out - (IF b.lost THEN d ELSE 0)
  BY <1>1, <1>2, <1>3
<1>5. t = [s EXCEPT !.packets_out = po, !.sacked_out = sa, !.retrans_out = re, !.lost_out = lo]
  BY DEF AdjustPcount
<1> HIDE DEF po, sa, re, lo, t
<1>6. t \in Sockets
  <2>1. po \in Int /\ sa \in Int /\ re \in Int /\ lo \in Int
    BY <1>4
  <2> QED BY <1>5, <2>1 DEF Sockets
<1>7. /\ t.packets_out = po /\ t.sacked_out = sa /\ t.retrans_out = re /\ t.lost_out = lo
      /\ Frame(s, t) /\ SameTimers(s, t)
      /\ t.rtx = s.rtx /\ t.wq = s.wq /\ t.nxt = s.nxt /\ t.hint = s.hint
      /\ t.tx = s.tx /\ t.bug = s.bug
  BY <1>5 DEF Sockets, Frame, SameTimers
<1> QED BY <1>4, <1>6, <1>7 DEF t, po

-----------------------------------------------------------------------------
(* What the buffers of the retransmit queue add up to *)

Marks == {"out", "lost", "retrans", "sacked"}

Has(b, c) ==
    IF c = "out" THEN TRUE ELSE IF c = "lost" THEN b.lost
    ELSE IF c = "retrans" THEN b.retrans ELSE b.acked

Weight(b, c) == IF Has(b, c) THEN b.pc ELSE 0

\* p holds the sums of the first buffers of q.
Running(p, q, c) ==
    /\ p \in [0..Len(q) -> Int]
    /\ p[0] = 0
    /\ \A k \in 1..Len(q) : p[k] = p[k - 1] + Weight(q[k], c)

Sums(q, c, v) == \E p : Running(p, q, c) /\ p[Len(q)] = v

\* A buffer counts for a natural number.
LEMMA WeightNat ==
  ASSUME NEW b \in Skb, NEW c
  PROVE  Weight(b, c) \in Nat /\ Weight(b, c) \in Int
<1>1. b.pc \in Nat
  BY SkbRange
<1> QED BY <1>1 DEF Weight

\* The empty queue adds up to nothing.
LEMMA SumsEmpty ==
  ASSUME NEW c, NEW v
  PROVE  Sums(<<>>, c, v) <=> v = 0
<1>1. Len(<<>>) = 0
  BY EmptySeq
<1>2. ASSUME v = 0 PROVE Sums(<<>>, c, v)
  <2> DEFINE p == [k \in 0..0 |-> 0]
  <2>1. p \in [0..0 -> Int] /\ p[0] = 0 /\ \A k \in 1..0 : p[k] = p[k - 1] + Weight(<<>>[k], c)
    OBVIOUS
  <2> HIDE DEF p
  <2>2. Running(p, <<>>, c) /\ p[Len(<<>>)] = v
    BY <1>1, <1>2, <2>1 DEF Running
  <2> QED BY <2>2 DEF Sums
<1>3. ASSUME Sums(<<>>, c, v) PROVE v = 0
  BY <1>1, <1>3 DEF Sums, Running
<1> QED BY <1>2, <1>3

\* A buffer that joins the queue.
LEMMA SumsAppend ==
  ASSUME NEW q \in Seq(Skb), NEW r \in Seq(Skb), NEW x \in Skb, NEW c, NEW v, Sums(q, c, v),
         Len(r) = Len(q) + 1,
         \A k \in 1..Len(q) + 1 : r[k] = IF k = Len(q) + 1 THEN x ELSE q[k]
  PROVE  Sums(r, c, v + Weight(x, c)) /\ v \in Int
<1> DEFINE n == Len(q)
           w == Weight(x, c)
<1>1. PICK p : Running(p, q, c) /\ p[Len(q)] = v
  BY DEF Sums
<1>2. /\ p \in [0..n -> Int] /\ p[0] = 0 /\ p[n] = v
      /\ \A k \in 1..n : p[k] = p[k - 1] + Weight(q[k], c)
  BY <1>1 DEF Running
<1>3. n \in Nat /\ w \in Int /\ Len(r) = n + 1
      /\ \A k \in 1..n + 1 : r[k] = IF k = n + 1 THEN x ELSE q[k]
  BY SeqFacts, WeightNat
<1> DEFINE o == [k \in 0..n + 1 |-> IF k = n + 1 THEN v + w ELSE p[k]]
<1> HIDE DEF n, w
<1>4. v \in Int
  BY <1>2, <1>3
<1>5. o \in [0..n + 1 -> Int]
  BY <1>2, <1>3, <1>4
<1>6. o[0] = 0 /\ o[n + 1] = v + w /\ \A k \in 0..n : o[k] = p[k]
  BY <1>2, <1>3
<1> HIDE DEF o
<1>7. ASSUME NEW k \in 1..n + 1 PROVE o[k] = o[k - 1] + Weight(r[k], c)
  <2>1. CASE k = n + 1
    <3>1. k - 1 = n /\ n \in 0..n
      BY <1>3, <2>1
    <3>2. o[k - 1] = v /\ r[k] = x /\ o[k] = v + w
      BY <1>2, <1>3, <1>6, <2>1, <3>1
    <3> QED BY <3>2 DEF w
  <2>2. CASE k # n + 1
    <3>1. k \in 1..n /\ k \in 0..n /\ k - 1 \in 0..n
      BY <1>3, <2>2
    <3>2. r[k] = q[k] /\ o[k] = p[k] /\ o[k - 1] = p[k - 1]
      BY <1>3, <1>6, <2>2, <3>1
    <3> QED BY <1>2, <3>1, <3>2
  <2> QED BY <2>1, <2>2
<1>8. Running(o, r, c) /\ o[Len(r)] = v + w
  BY <1>3, <1>5, <1>6, <1>7 DEF Running
<1> QED BY <1>4, <1>8 DEF Sums, w

\* A buffer that is replaced.
LEMMA SumsReplace ==
  ASSUME NEW q \in Seq(Skb), NEW r \in Seq(Skb), NEW i \in 1..Len(q), NEW x \in Skb,
         NEW c, NEW v, Sums(q, c, v), Len(r) = Len(q),
         \A k \in 1..Len(q) : r[k] = IF k = i THEN x ELSE q[k]
  PROVE  Sums(r, c, v - Weight(q[i], c) + Weight(x, c)) /\ v \in Int
<1> DEFINE n == Len(q)
           d == Weight(x, c) - Weight(q[i], c)
<1>1. PICK p : Running(p, q, c) /\ p[Len(q)] = v
  BY DEF Sums
<1>2. /\ p \in [0..n -> Int] /\ p[0] = 0 /\ p[n] = v
      /\ \A k \in 1..n : p[k] = p[k - 1] + Weight(q[k], c)
  BY <1>1 DEF Running
<1>3. n \in Nat /\ i \in 1..n /\ Len(r) = n /\ \A k \in 1..n : r[k] = IF k = i THEN x ELSE q[k]
  BY SeqFacts
<1>4. \A k \in 1..n : q[k] \in Skb
  BY SeqFacts
<1>5. Weight(x, c) \in Int /\ \A k \in 1..n : Weight(q[k], c) \in Int
  BY <1>4, WeightNat
<1>6. d \in Int /\ v - Weight(q[i], c) + Weight(x, c) = v + d /\ v \in Int
      /\ Weight(x, c) = Weight(q[i], c) + d
  <2>1. v \in Int
    BY <1>2, <1>3
  <2> QED BY <1>3, <1>5, <2>1
<1> DEFINE o == [k \in 0..n |-> IF k < i THEN p[k] ELSE p[k] + d]
<1> HIDE DEF n, d
<1>7. \A k \in 0..n : p[k] \in Int
  BY <1>2
<1>8. o \in [0..n -> Int]
  BY <1>6, <1>7
<1>9. /\ \A k \in 0..n : k < i => o[k] = p[k]
      /\ \A k \in 0..n : k >= i => o[k] = p[k] + d
  BY <1>3
<1> HIDE DEF o
<1>10. o[0] = 0 /\ o[n] = v + d
  <2>1. 0 \in 0..n /\ 0 < i /\ n \in 0..n /\ n >= i
    BY <1>3
  <2> QED BY <1>2, <1>9, <2>1
<1>11. ASSUME NEW k \in 1..n PROVE o[k] = o[k - 1] + Weight(r[k], c)
  <2>1. k \in 0..n /\ k - 1 \in 0..n /\ p[k] = p[k - 1] + Weight(q[k], c)
        /\ p[k] \in Int /\ p[k - 1] \in Int /\ Weight(q[k], c) \in Int
    <3>1. k \in 0..n /\ k - 1 \in 0..n
      BY <1>3
    <3> QED BY <1>2, <1>5, <1>7, <3>1
  <2>2. CASE k < i
    <3>1. k - 1 < i /\ k # i
      BY <1>3, <2>2
    <3>2. r[k] = q[k] /\ o[k] = p[k] /\ o[k - 1] = p[k - 1]
      BY <1>3, <1>9, <2>1, <2>2, <3>1
    <3> QED BY <2>1, <3>2
  <2>3. CASE k = i
    <3>1. k - 1 < i /\ k >= i
      BY <1>3, <2>3
    <3>2. r[k] = x /\ o[k] = p[k] + d /\ o[k - 1] = p[k - 1]
      BY <1>3, <1>9, <2>1, <2>3, <3>1
    <3>3. Weight(r[k], c) = Weight(q[k], c) + d
      BY <1>6, <2>3, <3>2
    <3> QED BY <1>6, <2>1, <3>2, <3>3
  <2>4. CASE k > i
    <3>1. k - 1 >= i /\ k >= i /\ k # i
      BY <1>3, <2>4
    <3>2. r[k] = q[k] /\ o[k] = p[k] + d /\ o[k - 1] = p[k - 1] + d
      BY <1>3, <1>9, <2>1, <3>1
    <3> QED BY <1>6, <2>1, <3>2
  <2> QED BY <1>3, <2>2, <2>3, <2>4
<1>12. Running(o, r, c) /\ o[Len(r)] = v + d
  BY <1>3, <1>8, <1>10, <1>11 DEF Running
<1> QED BY <1>6, <1>12 DEF Sums

\* A buffer that is cut in two.
LEMMA SumsCut ==
  ASSUME NEW q \in Seq(Skb), NEW r \in Seq(Skb), NEW i \in 1..Len(q),
         NEW x \in Skb, NEW y \in Skb,
         NEW c, NEW v, Sums(q, c, v), Len(r) = Len(q) + 1,
         \A k \in 1..Len(q) + 1 : r[k] = IF k < i THEN q[k] ELSE IF k = i THEN x
                                         ELSE IF k = i + 1 THEN y ELSE q[k - 1]
  PROVE  Sums(r, c, v - Weight(q[i], c) + Weight(x, c) + Weight(y, c)) /\ v \in Int
<1> DEFINE n == Len(q)
           d == Weight(x, c) + Weight(y, c) - Weight(q[i], c)
           wx == Weight(x, c)
           wy == Weight(y, c)
           wi == Weight(q[i], c)
<1>1. PICK p : Running(p, q, c) /\ p[Len(q)] = v
  BY DEF Sums
<1>2. /\ p \in [0..n -> Int] /\ p[0] = 0 /\ p[n] = v
      /\ \A k \in 1..n : p[k] = p[k - 1] + Weight(q[k], c)
  BY <1>1 DEF Running
<1>3. n \in Nat /\ i \in 1..n /\ Len(r) = n + 1
      /\ \A k \in 1..n + 1 : r[k] = IF k < i THEN q[k] ELSE IF k = i THEN x
                                         ELSE IF k = i + 1 THEN y ELSE q[k - 1]
  BY SeqFacts
<1>4. \A k \in 1..n : q[k] \in Skb
  BY SeqFacts
<1>5. wx \in Int /\ wy \in Int /\ \A k \in 1..n : Weight(q[k], c) \in Int
  BY <1>4, WeightNat
<1>6. d \in Int /\ v - wi + wx + wy = v + d /\ v \in Int /\ wi \in Int /\ wx + wy = wi + d
  <2>1. v \in Int
    BY <1>2, <1>3
  <2>2. wi \in Int
    BY <1>3, <1>5
  <2> HIDE DEF wi, wx, wy
  <2>3. d = wx + wy - wi
    BY DEF wi, wx, wy
  <2> HIDE DEF d
  <2> QED BY <1>5, <2>1, <2>2, <2>3
<1> DEFINE o == [k \in 0..n + 1 |-> IF k < i THEN p[k] ELSE IF k = i THEN p[i - 1] + wx
                                    ELSE p[k - 1] + d]
<1> HIDE DEF n, d, wx, wy
<1>7. \A k \in 0..n : p[k] \in Int
  BY <1>2
<1>8. ASSUME NEW k \in 0..n + 1
      PROVE  /\ (k < i => k \in 0..n) /\ (k > i => k - 1 \in 0..n)
             /\ i - 1 \in 0..n
  BY <1>3
<1>9. o \in [0..n + 1 -> Int]
  <2>1. i - 1 \in 0..n
    BY <1>3
  <2>2. p[i - 1] + wx \in Int
    BY <1>5, <1>7, <2>1
  <2> SUFFICES ASSUME NEW k \in 0..n + 1
               PROVE  (IF k < i THEN p[k] ELSE IF k = i THEN p[i - 1] + wx
                       ELSE p[k - 1] + d) \in Int
    OBVIOUS
  <2>3. CASE k < i
    BY <1>7, <1>8, <2>3
  <2>4. CASE k = i
    BY <2>2, <2>4, <1>3
  <2>5. CASE k > i
    <3>1. p[k - 1] \in Int
      BY <1>7, <1>8, <2>5
    <3>2. ~(k < i) /\ k # i
      BY <1>3, <2>5
    <3> QED BY <1>6, <3>1, <3>2
  <2> QED BY <1>3, <2>3, <2>4, <2>5
<1>10. /\ \A k \in 0..n + 1 : k < i => o[k] = p[k]
       /\ \A k \in 0..n + 1 : k = i => o[k] = p[i - 1] + wx
       /\ \A k \in 0..n + 1 : k > i => o[k] = p[k - 1] + d
  BY <1>3
<1> HIDE DEF o
<1>11. o[0] = 0 /\ o[n + 1] = v + d
  <2> DEFINE m == n + 1
  <2>1. 0 \in 0..n + 1 /\ 0 < i /\ m \in 0..n + 1 /\ m > i /\ m - 1 = n
    BY <1>3
  <2> HIDE DEF m
  <2>2. o[m] = v + d
    BY <1>2, <1>10, <2>1
  <2> QED BY <1>2, <1>10, <2>1, <2>2 DEF m
<1>12. ASSUME NEW k \in 1..n + 1 PROVE o[k] = o[k - 1] + Weight(r[k], c)
  <2>1. k \in 0..n + 1 /\ k - 1 \in 0..n + 1
    BY <1>3
  <2>2. CASE k < i
    <3>1. k - 1 < i /\ k \in 1..n /\ k \in 0..n /\ k - 1 \in 0..n
      BY <1>3, <2>2
    <3>2. r[k] = q[k] /\ o[k] = p[k] /\ o[k - 1] = p[k - 1]
      BY <1>3, <1>10, <2>1, <2>2, <3>1
    <3> QED BY <1>2, <3>1, <3>2
  <2>3. CASE k = i
    <3>1. k - 1 < i
      BY <1>3, <2>3
    <3>2. r[k] = x /\ o[k] = p[i - 1] + wx /\ o[k - 1] = p[k - 1]
      BY <1>3, <1>10, <2>1, <2>3, <3>1
    <3> QED BY <2>3, <3>2 DEF wx
  <2>4. CASE k = i + 1
    <3>1. k - 1 = i /\ k > i /\ ~(k < i) /\ k # i /\ i \in 0..n + 1 /\ i \in 0..n /\ i - 1 \in 0..n
      BY <1>3, <2>4
    <3>2. r[k] = y
      BY <1>3, <2>4, <3>1
    <3>3. o[k] = p[i] + d /\ o[k - 1] = p[i - 1] + wx
      BY <1>10, <2>1, <3>1
    <3>4. p[i] = p[i - 1] + wi /\ p[i] \in Int /\ p[i - 1] \in Int
      BY <1>2, <1>3, <1>7, <3>1
    <3>5. o[k] = o[k - 1] + wy
      <4> DEFINE a == p[i - 1]
                 b == p[i]
      <4>1. a \in Int /\ b \in Int /\ b = a + wi /\ o[k] = b + d /\ o[k - 1] = a + wx
        BY <3>3, <3>4
      <4> HIDE DEF wi, a, b
      <4>2. wx \in Int /\ wy \in Int /\ wi \in Int /\ d \in Int /\ wx + wy = wi + d
        BY <1>5, <1>6
      <4> QED BY <4>1, <4>2
    <3> QED BY <3>2, <3>5 DEF wy
  <2>5. CASE k > i + 1
    <3> DEFINE m == k - 1
    <3>1. m \in 1..n /\ m > i /\ k > i /\ ~(k < i) /\ k # i /\ k # i + 1 /\ m \in 0..n /\ m - 1 \in 0..n
          /\ m \in 0..n + 1
      BY <1>3, <2>5
    <3>2. r[k] = q[m]
      BY <1>3, <3>1
    <3>3. o[k] = p[m] + d
      BY <1>10, <2>1, <3>1
    <3> HIDE DEF m
    <3>4. o[m] = p[m - 1] + d
      BY <1>10, <3>1
    <3>5. p[m] = p[m - 1] + Weight(q[m], c) /\ p[m] \in Int /\ p[m - 1] \in Int
          /\ Weight(q[m], c) \in Int
      BY <1>2, <1>5, <1>7, <3>1
    <3>6. o[k] = o[m] + Weight(r[k], c)
      BY <1>6, <3>2, <3>3, <3>4, <3>5
    <3> QED BY <3>6 DEF m
  <2> QED BY <1>3, <2>2, <2>3, <2>4, <2>5
<1>13. Running(o, r, c) /\ o[Len(r)] = v + d
  BY <1>3, <1>9, <1>11, <1>12 DEF Running
<1> QED BY <1>6, <1>13 DEF Sums, wx, wy

\* Two neighbours that become one buffer.
LEMMA SumsJoin ==
  ASSUME NEW q \in Seq(Skb), NEW r \in Seq(Skb), NEW i \in 1..Len(q), i # Len(q), NEW x \in Skb,
         NEW c, NEW v, Sums(q, c, v), Len(r) = Len(q) - 1,
         \A k \in 1..Len(q) - 1 : r[k] = IF k < i THEN q[k] ELSE IF k = i THEN x ELSE q[k + 1]
  PROVE  Sums(r, c, v - Weight(q[i], c) - Weight(q[i + 1], c) + Weight(x, c)) /\ v \in Int
<1> DEFINE n == Len(q)
           j == i + 1
           wx == Weight(x, c)
           wi == Weight(q[i], c)
           wj == Weight(q[j], c)
           d == wx - wi - wj
<1>1. PICK p : Running(p, q, c) /\ p[Len(q)] = v
  BY DEF Sums
<1>2. /\ p \in [0..n -> Int] /\ p[0] = 0 /\ p[n] = v
      /\ \A k \in 1..n : p[k] = p[k - 1] + Weight(q[k], c)
  BY <1>1 DEF Running
<1>3. n \in Nat /\ i \in 1..n /\ i < n /\ Len(r) = n - 1
      /\ \A k \in 1..n - 1 : r[k] = IF k < i THEN q[k] ELSE IF k = i THEN x ELSE q[k + 1]
  BY SeqFacts
<1>4. \A k \in 1..n : q[k] \in Skb
  BY SeqFacts
<1>5. \A k \in 1..n : Weight(q[k], c) \in Int
  BY <1>4, WeightNat
<1>6. i \in 1..n /\ j \in 1..n /\ j - 1 = i /\ i - 1 \in 0..n /\ i \in 0..n /\ j \in 0..n /\ j = i + 1
  BY <1>3
<1>7. wx \in Int /\ wi \in Int /\ wj \in Int /\ v \in Int
  BY <1>2, <1>3, <1>5, <1>6, WeightNat
<1> HIDE DEF j
<1> DEFINE o == [k \in 0..n - 1 |-> IF k < i THEN p[k] ELSE p[k + 1] + d]
<1>8. d \in Int /\ v - wi - wj + wx = v + d /\ wx = wi + wj + d
  <2> HIDE DEF wx, wi, wj
  <2> QED BY <1>7
<1> HIDE DEF d, n, wx, wi, wj
<1>9. \A k \in 0..n : p[k] \in Int
  BY <1>2
<1>10. \A k \in 0..n - 1 : k \in 0..n /\ k + 1 \in 0..n /\ p[k] \in Int /\ p[k + 1] \in Int
  BY <1>3, <1>9
<1>11. o \in [0..n - 1 -> Int]
  BY <1>8, <1>10
<1>12. /\ \A k \in 0..n - 1 : k < i => o[k] = p[k]
       /\ \A k \in 0..n - 1 : k >= i => o[k] = p[k + 1] + d
  BY <1>3
<1> HIDE DEF o
<1>13. o[0] = 0 /\ o[n - 1] = v + d
  <2> DEFINE m == n - 1
  <2>1. 0 \in 0..n - 1 /\ 0 < i /\ m \in 0..n - 1 /\ m >= i /\ m + 1 = n
    BY <1>3
  <2> HIDE DEF m
  <2>2. o[m] = v + d
    BY <1>2, <1>12, <2>1
  <2> QED BY <1>2, <1>12, <2>1, <2>2 DEF m
<1>14. ASSUME NEW k \in 1..n - 1 PROVE o[k] = o[k - 1] + Weight(r[k], c)
  <2> DEFINE l == k + 1
  <2>1. k \in 0..n - 1 /\ k - 1 \in 0..n - 1 /\ k \in 0..n /\ k - 1 \in 0..n /\ k \in 1..n
        /\ l \in 1..n /\ l - 1 = k /\ l \in 0..n /\ k - 1 + 1 = k
    BY <1>3
  <2> HIDE DEF l
  <2>2. CASE k < i
    <3>1. k - 1 < i
      BY <1>3, <2>2
    <3>2. r[k] = q[k] /\ o[k] = p[k] /\ o[k - 1] = p[k - 1]
      BY <1>3, <1>12, <2>1, <2>2, <3>1
    <3> QED BY <1>2, <2>1, <3>2
  <2>3. CASE k = i
    <3>1. k - 1 < i /\ k >= i /\ ~(k < i)
      BY <1>3, <2>3
    <3>2. r[k] = x
      BY <1>3, <2>3, <3>1
    <3>3. o[k] = p[j] + d /\ o[k - 1] = p[i - 1]
      BY <1>6, <1>12, <2>1, <2>3, <3>1
    <3>4. p[j] = p[i] + wj /\ p[i] = p[i - 1] + wi
      BY <1>2, <1>6 DEF wi, wj
    <3> DEFINE a == p[i - 1]
    <3>5. a \in Int
      BY <1>6, <1>9
    <3>6. o[k] = a + wi + wj + d /\ o[k - 1] = a
      BY <3>3, <3>4
    <3> HIDE DEF a
    <3>7. o[k] = o[k - 1] + wx
      <4>1. a + wi + wj + d = a + wx
        BY ONLY <1>7, <1>8, <3>5
      <4> QED BY ONLY <3>6, <4>1
    <3> QED BY <3>2, <3>7 DEF wx
  <2>4. CASE k > i
    <3>1. k - 1 >= i /\ k >= i /\ ~(k < i) /\ k # i
      BY <1>3, <2>4
    <3>2. r[k] = q[l]
      BY <1>3, <3>1 DEF l
    <3>3. o[k] = p[l] + d
      BY <1>12, <2>1, <3>1 DEF l
    <3>4. o[k - 1] = p[k] + d
      BY <1>12, <2>1, <3>1
    <3>5. p[l] = p[k] + Weight(q[l], c) /\ p[k] \in Int /\ Weight(q[l], c) \in Int
      BY <1>2, <1>5, <1>9, <2>1
    <3> QED BY <1>8, <3>2, <3>3, <3>4, <3>5
  <2> QED BY <1>3, <2>2, <2>3, <2>4
<1>15. Running(o, r, c) /\ o[Len(r)] = v + d
  BY <1>3, <1>11, <1>13, <1>14 DEF Running
<1> QED BY <1>7, <1>8, <1>15 DEF Sums, wx, wi, wj, j

\* The buffer at the head leaves.
LEMMA SumsPop ==
  ASSUME NEW q \in Seq(Skb), q # <<>>, NEW c, NEW v, Sums(q, c, v)
  PROVE  Sums(Tail(q), c, v - Weight(q[1], c)) /\ v \in Int
<1> DEFINE n == Len(q)
           r == Tail(q)
           w == Weight(q[1], c)
<1>1. PICK p : Running(p, q, c) /\ p[Len(q)] = v
  BY DEF Sums
<1>2. /\ p \in [0..n -> Int] /\ p[0] = 0 /\ p[n] = v
      /\ \A k \in 1..n : p[k] = p[k - 1] + Weight(q[k], c)
  BY <1>1 DEF Running
<1>3. n \in Nat \ {0} /\ Len(r) = n - 1 /\ \A k \in 1..n - 1 : r[k] = q[k + 1]
  BY SeqEnds
<1>4. \A k \in 1..n : q[k] \in Skb
  BY SeqFacts
<1>5. \A k \in 1..n : Weight(q[k], c) \in Int
  BY <1>4, WeightNat
<1>6. w \in Int /\ v \in Int
  <2>1. 1 \in 1..n /\ n \in 0..n
    BY <1>3
  <2> QED BY <1>2, <1>5, <2>1
<1> DEFINE o == [k \in 0..n - 1 |-> p[k + 1] - w]
<1>7. p[1] = w
  <2>1. 1 \in 1..n /\ 1 - 1 = 0
    BY <1>3
  <2>2. p[1] = 0 + w
    BY <1>2, <2>1
  <2> QED BY <1>6, <2>2
<1> HIDE DEF n, r, w
<1>8. \A k \in 0..n - 1 : k + 1 \in 0..n /\ p[k + 1] \in Int
  <2>1. \A k \in 0..n - 1 : k + 1 \in 0..n
    BY <1>3
  <2> QED BY <1>2, <2>1
<1>9. o \in [0..n - 1 -> Int]
  BY <1>6, <1>8
<1>10. \A k \in 0..n - 1 : o[k] = p[k + 1] - w
  OBVIOUS
<1> HIDE DEF o
<1>11. o[0] = 0 /\ o[n - 1] = v - w
  <2> DEFINE m == n - 1
  <2>1. 0 \in 0..n - 1 /\ 0 + 1 = 1 /\ m \in 0..n - 1 /\ m + 1 = n
    BY <1>3
  <2> HIDE DEF m
  <2>2. o[m] = v - w
    BY <1>2, <1>10, <2>1
  <2>3. o[0] = w - w
    BY <1>7, <1>10, <2>1
  <2> QED BY <1>6, <2>2, <2>3 DEF m
<1>12. ASSUME NEW k \in 1..n - 1 PROVE o[k] = o[k - 1] + Weight(r[k], c)
  <2> DEFINE l == k + 1
  <2>1. l \in 1..n /\ l - 1 = k /\ k \in 0..n - 1 /\ k - 1 \in 0..n - 1 /\ k - 1 + 1 = k
        /\ k \in 0..n
    BY <1>3
  <2>2. r[k] = q[l] /\ o[k] = p[l] - w /\ o[k - 1] = p[k] - w
    BY <1>3, <1>10, <2>1
  <2> HIDE DEF l
  <2>3. p[l] = p[k] + Weight(q[l], c) /\ p[k] \in Int /\ Weight(q[l], c) \in Int
    BY <1>2, <1>5, <2>1
  <2> QED BY <1>6, <2>2, <2>3
<1>13. Running(o, r, c) /\ o[Len(r)] = v - w
  BY <1>3, <1>9, <1>11, <1>12 DEF Running
<1> QED BY <1>6, <1>13 DEF Sums, r, w

\* Buffers that count for the same, and buffers that do not count.
LEMMA SumsSame ==
  ASSUME NEW q, NEW r, NEW c, NEW v, Len(r) = Len(q),
         \A k \in 1..Len(q) : Weight(r[k], c) = Weight(q[k], c), Sums(q, c, v)
  PROVE  Sums(r, c, v)
BY DEF Sums, Running

\* Buffers that do not count add up to nothing.
LEMMA SumsNone ==
  ASSUME NEW q \in Seq(Skb), NEW c, \A k \in 1..Len(q) : Weight(q[k], c) = 0
  PROVE  Sums(q, c, 0)
<1> DEFINE p == [k \in 0..Len(q) |-> 0]
<1>1. Len(q) \in Nat
  BY SeqFacts
<1>2. p \in [0..Len(q) -> Int] /\ p[0] = 0 /\ p[Len(q)] = 0
  BY <1>1
<1>3. \A k \in 1..Len(q) : p[k] = 0 /\ p[k - 1] = 0
  BY <1>1
<1> HIDE DEF p
<1>4. Running(p, q, c)
  BY <1>2, <1>3 DEF Running
<1> QED BY <1>2, <1>4 DEF Sums

\* What a buffer counts for: a SACKed one is not lost, a retransmitted one is.
LEMMA Weights ==
  ASSUME NEW b \in Skb
  PROVE  /\ Weight(b, "out") = b.pc /\ b.pc \in Nat
         /\ Weight(b, "lost") = IF b.lost THEN b.pc ELSE 0
         /\ Weight(b, "retrans") = IF b.retrans THEN b.pc ELSE 0
         /\ Weight(b, "sacked") = IF b.acked THEN b.pc ELSE 0
         /\ Weight(b, "lost") + Weight(b, "sacked") <= Weight(b, "out")
         /\ Weight(b, "retrans") <= Weight(b, "lost")
<1>1. /\ Weight(b, "out") = b.pc
      /\ Weight(b, "lost") = IF b.lost THEN b.pc ELSE 0
      /\ Weight(b, "retrans") = IF b.retrans THEN b.pc ELSE 0
      /\ Weight(b, "sacked") = IF b.acked THEN b.pc ELSE 0
  BY DEF Weight, Has
<1>2. b.pc \in Nat /\ (b.retrans => b.lost) /\ (b.acked => ~b.lost)
      /\ b.lost \in BOOLEAN /\ b.retrans \in BOOLEAN /\ b.acked \in BOOLEAN
  BY SkbFields DEF Skb
<1>3. Weight(b, "lost") + Weight(b, "sacked") <= Weight(b, "out")
  BY <1>1, <1>2
<1>4. Weight(b, "retrans") <= Weight(b, "lost")
  BY <1>1, <1>2
<1> QED BY <1>1, <1>2, <1>3, <1>4

\* A sum is a natural number, and it is not less than what a buffer counts for.
LEMMA SumsNat ==
  ASSUME NEW q \in Seq(Skb), NEW c, NEW v, Sums(q, c, v)
  PROVE  v \in Nat
<1>1. PICK p : Running(p, q, c) /\ p[Len(q)] = v
  BY DEF Sums
<1>2. Len(q) \in Nat /\ \A k \in 1..Len(q) : Weight(q[k], c) \in Nat
  BY SeqFacts, WeightNat
<1>3. p[0] = 0 /\ \A k \in 1..Len(q) : p[k] = p[k - 1] + Weight(q[k], c)
  BY <1>1 DEF Running
<1>4. p[0] \in Nat /\ \A k \in 1..Len(q) : p[k - 1] \in Nat => p[k] \in Nat
  BY <1>2, <1>3
<1>5. p[Len(q)] \in Nat
  BY <1>2, <1>4, Upward
<1> QED BY <1>1, <1>5

\* SACKed and lost packets are different ones.
LEMMA SumsApart ==
  ASSUME NEW q \in Seq(Skb), NEW o, NEW l, NEW s,
         Sums(q, "out", o), Sums(q, "lost", l), Sums(q, "sacked", s)
  PROVE  s + l <= o
<1> DEFINE n == Len(q)
<1>1. PICK po : Running(po, q, "out") /\ po[n] = o
  BY DEF Sums
<1>2. PICK pl : Running(pl, q, "lost") /\ pl[n] = l
  BY DEF Sums
<1>3. PICK ps : Running(ps, q, "sacked") /\ ps[n] = s
  BY DEF Sums
<1>4. n \in Nat /\ \A k \in 1..n : q[k] \in Skb
  BY SeqFacts
<1>5. /\ po \in [0..n -> Int] /\ po[0] = 0
      /\ \A k \in 1..n : po[k] = po[k - 1] + Weight(q[k], "out")
  BY <1>1 DEF Running
<1>6. /\ pl \in [0..n -> Int] /\ pl[0] = 0
      /\ \A k \in 1..n : pl[k] = pl[k - 1] + Weight(q[k], "lost")
  BY <1>2 DEF Running
<1>7. /\ ps \in [0..n -> Int] /\ ps[0] = 0
      /\ \A k \in 1..n : ps[k] = ps[k - 1] + Weight(q[k], "sacked")
  BY <1>3 DEF Running
<1> HIDE DEF n
<1> DEFINE Q == {k \in 0..n : ps[k] + pl[k] <= po[k]}
<1>8. 0 \in Q
  BY <1>4, <1>5, <1>6, <1>7
<1>9. ASSUME NEW k \in 1..n, k - 1 \in Q PROVE k \in Q
  <2>1. k \in 0..n /\ k - 1 \in 0..n /\ ps[k - 1] + pl[k - 1] <= po[k - 1]
    BY <1>4, <1>9
  <2>2. q[k] \in Skb
    BY <1>4
  <2>3. Weight(q[k], "lost") + Weight(q[k], "sacked") <= Weight(q[k], "out")
    BY <2>2, Weights
  <2>4. Weight(q[k], "lost") \in Int /\ Weight(q[k], "sacked") \in Int /\ Weight(q[k], "out") \in Int
    BY <2>2, WeightNat
  <2>5. ps[k - 1] \in Int /\ pl[k - 1] \in Int /\ po[k - 1] \in Int
    BY <1>5, <1>6, <1>7, <2>1
  <2>6. /\ po[k] = po[k - 1] + Weight(q[k], "out") /\ pl[k] = pl[k - 1] + Weight(q[k], "lost")
        /\ ps[k] = ps[k - 1] + Weight(q[k], "sacked")
    BY <1>5, <1>6, <1>7
  <2>7. ps[k] + pl[k] <= po[k]
    BY <2>1, <2>3, <2>4, <2>5, <2>6
  <2> QED BY <2>1, <2>7
<1>10. \A k \in Q : ps[k] + pl[k] <= po[k]
  OBVIOUS
<1> HIDE DEF Q
<1>11. n \in Q
  BY <1>4, <1>8, <1>9, Induct
<1> QED BY <1>1, <1>2, <1>3, <1>10, <1>11

\* A queue of buffers that were sent counts for at least one packet each.
LEMMA SumsLength ==
  ASSUME NEW q \in Seq(Skb), NEW o, Sums(q, "out", o), \A k \in 1..Len(q) : q[k].pc >= 1
  PROVE  o \in Int /\ o >= Len(q)
<1> DEFINE n == Len(q)
<1>1. PICK p : Running(p, q, "out") /\ p[n] = o
  BY DEF Sums
<1>2. n \in Nat /\ \A k \in 1..n : q[k] \in Skb
  BY SeqFacts
<1>3. /\ p \in [0..n -> Int] /\ p[0] = 0
      /\ \A k \in 1..n : p[k] = p[k - 1] + Weight(q[k], "out")
  BY <1>1 DEF Running
<1>4. \A k \in 1..n : Weight(q[k], "out") \in Int /\ Weight(q[k], "out") >= 1
  BY <1>2, Weights
<1> HIDE DEF n
<1> DEFINE Q == {k \in 0..n : p[k] >= k}
<1>5. 0 \in Q
  BY <1>2, <1>3
<1>6. ASSUME NEW k \in 1..n, k - 1 \in Q PROVE k \in Q
  <2>1. k \in 0..n /\ k - 1 \in 0..n /\ p[k - 1] >= k - 1
    BY <1>2, <1>6
  <2>2. p[k - 1] \in Int /\ p[k] = p[k - 1] + Weight(q[k], "out")
    BY <1>3, <2>1
  <2>3. p[k] >= k
    BY <1>4, <2>1, <2>2
  <2> QED BY <2>1, <2>3
<1>7. \A k \in Q : p[k] >= k
  OBVIOUS
<1> HIDE DEF Q
<1>8. n \in Q
  BY <1>2, <1>5, <1>6, Induct
<1>9. p[n] \in Int
  BY <1>2, <1>3
<1> QED BY <1>1, <1>7, <1>8, <1>9 DEF n

\* When as many packets were retransmitted as were lost, no buffer waits for
\* its retransmission.
LEMMA SumsResent ==
  ASSUME NEW q \in Seq(Skb), NEW l, NEW r, Sums(q, "lost", l), Sums(q, "retrans", r),
         \A k \in 1..Len(q) : q[k].pc >= 1, r >= l
  PROVE  \A k \in 1..Len(q) : q[k].lost => q[k].retrans
<1> DEFINE n == Len(q)
<1> SUFFICES ASSUME NEW i \in 1..n, q[i].lost, ~q[i].retrans PROVE FALSE
  OBVIOUS
<1>1. PICK pl : Running(pl, q, "lost") /\ pl[n] = l
  BY DEF Sums
<1>2. PICK pr : Running(pr, q, "retrans") /\ pr[n] = r
  BY DEF Sums
<1>3. n \in Nat /\ \A k \in 1..n : q[k] \in Skb
  BY SeqFacts
<1>4. /\ pl \in [0..n -> Int] /\ pl[0] = 0
      /\ \A k \in 1..n : pl[k] = pl[k - 1] + Weight(q[k], "lost")
  BY <1>1 DEF Running
<1>5. /\ pr \in [0..n -> Int] /\ pr[0] = 0
      /\ \A k \in 1..n : pr[k] = pr[k - 1] + Weight(q[k], "retrans")
  BY <1>2 DEF Running
<1>6. \A k \in 1..n : /\ Weight(q[k], "lost") \in Int /\ Weight(q[k], "retrans") \in Int
                      /\ Weight(q[k], "retrans") <= Weight(q[k], "lost")
  BY <1>3, Weights, WeightNat
<1>7. Weight(q[i], "retrans") < Weight(q[i], "lost")
  <2>1. q[i] \in Skb /\ q[i].pc >= 1
    BY <1>3
  <2> QED BY <2>1, Weights
<1>8. r >= l
  OBVIOUS
<1> HIDE DEF n
<1> DEFINE Q == {k \in 0..n : pr[k] <= pl[k] /\ (k >= i => pr[k] < pl[k])}
<1>9. 0 \in Q
  BY <1>3, <1>4, <1>5
<1>10. ASSUME NEW k \in 1..n, k - 1 \in Q PROVE k \in Q
  <2>1. k \in 0..n /\ k - 1 \in 0..n /\ pr[k - 1] <= pl[k - 1]
        /\ (k - 1 >= i => pr[k - 1] < pl[k - 1])
    BY <1>3, <1>10
  <2>2. pr[k - 1] \in Int /\ pl[k - 1] \in Int
        /\ pr[k] = pr[k - 1] + Weight(q[k], "retrans")
        /\ pl[k] = pl[k - 1] + Weight(q[k], "lost")
    BY <1>4, <1>5, <2>1
  <2>3. pr[k] <= pl[k]
    BY <1>6, <2>1, <2>2
  <2>4. CASE k = i
    BY <1>6, <1>7, <2>1, <2>2, <2>3, <2>4
  <2>5. CASE k # i
    <3>1. k >= i => k - 1 >= i
      BY <1>3, <2>5
    <3> QED BY <1>6, <2>1, <2>2, <2>3, <3>1
  <2> QED BY <2>4, <2>5
<1>11. \A k \in Q : k >= i => pr[k] < pl[k]
  OBVIOUS
<1> HIDE DEF Q
<1>12. n \in Q
  BY <1>3, <1>9, <1>10, Induct
<1>13. pr[n] < pl[n] /\ pr[n] \in Int /\ pl[n] \in Int
  BY <1>3, <1>4, <1>5, <1>11, <1>12
<1> QED BY <1>1, <1>2, <1>8, <1>13

-----------------------------------------------------------------------------
(* What every socket of a connection satisfies *)

Counter(s, c) ==
    IF c = "out" THEN s.packets_out ELSE IF c = "lost" THEN s.lost_out
    ELSE IF c = "retrans" THEN s.retrans_out ELSE s.sacked_out

\* The counters are what the buffers of the retransmit queue add up to.
Counted(s) == \A c \in Marks : Sums(s.rtx, c, Counter(s, c))

Waits(b) == b.lost /\ ~b.retrans /\ ~b.acked

\* No buffer of q before the k-th waits for its retransmission.
Settled(q, k) == \A i \in 1..k - 1 : ~Waits(q[i])

HintOK(s) == s.hint <= Len(s.rtx) /\ Settled(s.rtx, s.hint)

\* A segment g on the wire ends within the e bytes written and, above una, inside
\* the window that ends at w.
SegIn(g, e, una, w) == g.end <= e /\ (g.seq > una => g.end - Bit(g.fin) <= w)

TxIn(s) == \A g \in s.tx : SegIn(g, s.wseq, s.una, s.una + s.wnd)

\* A socket on whose retransmit queue everything below u is acknowledged; f
\* says whether there may be a FIN.
GoodAt(s, u, f) ==
    /\ s \in Sockets
    /\ SentPart(s.rtx, u, s.nxt, f /\ s.wq = <<>>)
    /\ UnsentPart(s.wq, s.nxt, s.wseq, f)
    /\ Counted(s)
    /\ HintOK(s)
    /\ TxIn(s)
    /\ s.bug = FALSE

Good(s, f) == GoodAt(s, s.una, f)

\* The types of the fields of a socket.
LEMMA SocketFields ==
  ASSUME NEW s \in Sockets
  PROVE  /\ s.state \in States /\ s.una \in Nat /\ s.nxt \in Nat /\ s.wseq \in Nat
         /\ s.wnd \in Nat /\ s.cwnd \in Nat \ {0} /\ s.mss \in Msses
         /\ s.packets_out \in Int /\ s.lost_out \in Int /\ s.retrans_out \in Int
         /\ s.sacked_out \in Int /\ s.rtx \in Seq(Skb) /\ s.wq \in Seq(Skb)
         /\ s.sml \in Int /\ s.tlp \in Int /\ s.pending \in Pendings /\ s.hint \in Nat
         /\ s.ca \in CaStates /\ s.nonagle \in Corks /\ s.mtup \in Int
         /\ s.tx \in TxSets /\ s.bug \in BOOLEAN
BY DEF Sockets

\* A segment size is a number above one.
LEMMA MssIs ==
  ASSUME NEW m \in Msses
  PROVE  m \in Nat /\ m >= 2 /\ m \in Nat \ {0}
BY SenderAssumption

\* What the output functions leave alone stays the same through several.
LEMMA FrameStep ==
  ASSUME NEW a, NEW b, NEW c, Frame(a, b), Frame(b, c)
  PROVE  Frame(a, c)
BY DEF Frame

\* ... and through none.
LEMMA FrameSame ==
  ASSUME NEW a
  PROVE  Frame(a, a)
BY DEF Frame

\* The facts the proofs below take from a good socket.
LEMMA GoodFacts ==
  ASSUME NEW s, NEW f, Good(s, f)
  PROVE  /\ s \in Sockets /\ s.bug = FALSE /\ TxIn(s)
         /\ s.rtx \in Seq(Skb) /\ s.wq \in Seq(Skb)
         /\ Len(s.rtx) \in Nat /\ Len(s.wq) \in Nat
         /\ DOMAIN s.rtx = 1..Len(s.rtx) /\ DOMAIN s.wq = 1..Len(s.wq)
         /\ s.una \in Nat /\ s.nxt \in Nat /\ s.wseq \in Nat /\ s.hint \in Nat
         /\ s.una <= s.nxt /\ s.nxt <= s.wseq
         /\ SentPart(s.rtx, s.una, s.nxt, f /\ s.wq = <<>>)
         /\ UnsentPart(s.wq, s.nxt, s.wseq, f)
         /\ Counted(s) /\ HintOK(s)
         /\ s.mss \in Msses /\ s.mss \in Nat \ {0}
         /\ s.packets_out \in Int /\ s.lost_out \in Int /\ s.retrans_out \in Int
         /\ s.sacked_out \in Int /\ s.wnd \in Nat /\ s.cwnd \in Nat \ {0}
<1>1. s \in Sockets /\ s.bug = FALSE /\ SentPart(s.rtx, s.una, s.nxt, f /\ s.wq = <<>>)
      /\ UnsentPart(s.wq, s.nxt, s.wseq, f) /\ Counted(s) /\ HintOK(s) /\ TxIn(s)
  BY DEF Good, GoodAt
<1>2. s.rtx \in Seq(Skb) /\ s.wq \in Seq(Skb) /\ s.una \in Nat /\ s.nxt \in Nat
      /\ s.wseq \in Nat /\ s.hint \in Nat /\ s.mss \in Msses
      /\ s.packets_out \in Int /\ s.lost_out \in Int /\ s.retrans_out \in Int
      /\ s.sacked_out \in Int /\ s.wnd \in Nat /\ s.cwnd \in Nat \ {0}
  BY <1>1, SocketFields
<1>3. s.una <= s.nxt /\ s.nxt <= s.wseq
  BY <1>1 DEF SentPart, UnsentPart
<1>4. Len(s.rtx) \in Nat /\ Len(s.wq) \in Nat
      /\ DOMAIN s.rtx = 1..Len(s.rtx) /\ DOMAIN s.wq = 1..Len(s.wq)
  BY <1>2, SeqFacts
<1>5. s.mss \in Nat \ {0}
  BY <1>2, MssIs
<1> QED BY <1>1, <1>2, <1>3, <1>4, <1>5

\* What is known of a buffer of the retransmit queue.
LEMMA GoodBuf ==
  ASSUME NEW s, NEW f, Good(s, f), NEW i \in 1..Len(s.rtx)
  PROVE  /\ s.rtx[i] \in Skb /\ RtxOK(s.rtx[i], s.una)
         /\ s.rtx[i].end <= s.nxt /\ s.rtx[i].pc >= 1 /\ s.rtx[i].pc \in Nat
         /\ s.rtx[i].seq \in Nat /\ s.rtx[i].end \in Nat /\ s.rtx[i].seq <= s.rtx[i].end
         /\ s.rtx[i].end >= s.una
         /\ Size(s.rtx[i]) \in Int /\ Size(s.rtx[i]) >= 0
<1>1. SentPart(s.rtx, s.una, s.nxt, f /\ s.wq = <<>>) /\ s.una \in Nat
  BY GoodFacts
<1>2. s.rtx[i] \in Skb /\ RtxOK(s.rtx[i], s.una) /\ s.rtx[i].end <= s.nxt
  BY <1>1, SentOrder
<1>3. s.rtx[i].seq \in Nat /\ s.rtx[i].end \in Nat /\ s.rtx[i].seq <= s.rtx[i].end
      /\ s.rtx[i].pc \in Nat
  BY <1>2, SkbRange
<1>4. s.rtx[i].pc >= 1 /\ s.rtx[i].end >= s.una
  BY <1>1, <1>2, <1>3 DEF RtxOK
<1>5. Size(s.rtx[i]) \in Int /\ Size(s.rtx[i]) >= 0
  BY <1>2, SkbFields DEF Skb
<1> QED BY <1>2, <1>3, <1>4, <1>5

\* A change of the fields that no property of the queues is about.
LEMMA GoodSame ==
  ASSUME NEW s, NEW f, Good(s, f), NEW t \in Sockets,
         t.una = s.una, t.nxt = s.nxt, t.wseq = s.wseq, t.rtx = s.rtx, t.wq = s.wq,
         SameCounts(s, t), t.hint = s.hint, t.tx = s.tx, t.wnd = s.wnd, t.bug = s.bug
  PROVE  Good(t, f)
<1>1. Counted(t)
  <2>1. Counted(s)
    BY DEF Good, GoodAt
  <2> QED BY <2>1 DEF Counted, Counter, SameCounts
<1> QED BY <1>1 DEF Good, GoodAt, HintOK, TxIn

\* A step on the retransmit queue alone.
LEMMA GoodRtx ==
  ASSUME NEW s, NEW f, Good(s, f), NEW t \in Sockets, Frame(s, t),
         t.wq = s.wq, t.nxt = s.nxt, t.tx = s.tx, t.bug = FALSE,
         SentPart(t.rtx, s.una, s.nxt, f /\ s.wq = <<>>), Counted(t), HintOK(t)
  PROVE  Good(t, f)
BY DEF Good, GoodAt, TxIn, Frame

\* The counters of a good socket.
LEMMA GoodCounts ==
  ASSUME NEW s, NEW f, Good(s, f)
  PROVE  /\ s.packets_out \in Nat /\ s.lost_out \in Nat /\ s.retrans_out \in Nat
         /\ s.sacked_out \in Nat
         /\ s.sacked_out + s.lost_out <= s.packets_out
         /\ InFlight(s) \in Nat
         /\ s.packets_out = 0 <=> s.rtx = <<>>
         /\ s.retrans_out >= s.lost_out => \A k \in 1..Len(s.rtx) : ~Waits(s.rtx[k])
<1>1. s.rtx \in Seq(Skb) /\ Counted(s)
  BY GoodFacts
<1>2. /\ Sums(s.rtx, "out", s.packets_out) /\ Sums(s.rtx, "lost", s.lost_out)
      /\ Sums(s.rtx, "retrans", s.retrans_out) /\ Sums(s.rtx, "sacked", s.sacked_out)
  BY <1>1 DEF Counted, Counter, Marks
<1>3. s.packets_out \in Nat /\ s.lost_out \in Nat /\ s.retrans_out \in Nat /\ s.sacked_out \in Nat
  BY <1>1, <1>2, SumsNat
<1>4. s.sacked_out + s.lost_out <= s.packets_out
  BY <1>1, <1>2, SumsApart
<1>5. InFlight(s) \in Nat
  BY <1>3, <1>4 DEF InFlight
<1>6. \A k \in 1..Len(s.rtx) : s.rtx[k].pc >= 1
  BY GoodBuf
<1>7. s.packets_out >= Len(s.rtx)
  BY <1>1, <1>2, <1>6, SumsLength
<1>8. s.packets_out = 0 => s.rtx = <<>>
  BY <1>1, <1>3, <1>7, SeqFacts
<1>9. s.rtx = <<>> => s.packets_out = 0
  BY <1>2, SumsEmpty
<1>10. ASSUME s.retrans_out >= s.lost_out PROVE \A k \in 1..Len(s.rtx) : ~Waits(s.rtx[k])
  <2>1. \A k \in 1..Len(s.rtx) : s.rtx[k].lost => s.rtx[k].retrans
    BY <1>1, <1>2, <1>6, <1>10, SumsResent
  <2> QED BY <2>1 DEF Waits
<1> QED BY <1>3, <1>4, <1>5, <1>8, <1>9, <1>10

\* t is s with another buffer x over the same range in place of the i-th of
\* the retransmit queue, counted as it should be.
ReplacedAt(s, t, i, x) ==
    /\ i \in 1..Len(s.rtx) /\ x \in Skb /\ RtxOK(x, s.una)
    /\ x.seq = s.rtx[i].seq \/ (s.rtx[i].seq < s.una /\ x.seq = s.una)
    /\ x.end = s.rtx[i].end /\ x.fin = s.rtx[i].fin
    /\ t \in Sockets /\ Frame(s, t) /\ t.rtx = Spliced(s.rtx, i, <<x>>)
    /\ t.wq = s.wq /\ t.nxt = s.nxt /\ t.tx = s.tx /\ t.bug = FALSE
    /\ \A c \in Marks : Counter(t, c) = Counter(s, c) - Weight(s.rtx[i], c) + Weight(x, c)
    /\ t.hint <= Len(s.rtx)
    /\ \A k \in 1..t.hint - 1 : ~Waits(IF k = i THEN x ELSE s.rtx[k])

\* The same for two buffers in place of one.
CutAt(s, t, i, x, y) ==
    /\ i \in 1..Len(s.rtx) /\ x \in Skb /\ y \in Skb
    /\ RtxOK(x, s.una) /\ RtxOK(y, s.una)
    /\ x.seq = s.rtx[i].seq /\ x.end = y.seq /\ y.end = s.rtx[i].end
    /\ x.fin = FALSE /\ y.fin = s.rtx[i].fin
    /\ Waits(x) <=> Waits(s.rtx[i])
    /\ Waits(y) <=> Waits(s.rtx[i])
    /\ t \in Sockets /\ Frame(s, t) /\ t.rtx = Spliced(s.rtx, i, <<x, y>>)
    /\ t.wq = s.wq /\ t.nxt = s.nxt /\ t.tx = s.tx /\ t.bug = FALSE
    /\ \A c \in Marks : Counter(t, c) = Counter(s, c) - Weight(s.rtx[i], c)
                                           + Weight(x, c) + Weight(y, c)
    /\ t.hint = IF s.hint > i THEN s.hint + 1 ELSE s.hint

\* The same for one buffer in place of two.
JoinedAt(s, t, i, x) ==
    /\ i \in 1..Len(s.rtx) /\ i # Len(s.rtx) /\ x \in Skb /\ RtxOK(x, s.una)
    /\ x.seq = s.rtx[i].seq /\ x.end = s.rtx[i + 1].end /\ x.fin = s.rtx[i + 1].fin
    /\ Waits(x) <=> Waits(s.rtx[i])
    /\ t \in Sockets /\ Frame(s, t) /\ t.rtx = Joined(s.rtx, i, x)
    /\ t.wq = s.wq /\ t.nxt = s.nxt /\ t.tx = s.tx /\ t.bug = FALSE
    /\ \A c \in Marks : Counter(t, c) = Counter(s, c) - Weight(s.rtx[i], c)
                                           - Weight(s.rtx[i + 1], c) + Weight(x, c)
    /\ t.hint = IF s.hint > i THEN s.hint - 1 ELSE s.hint

\* Another buffer over the same range takes the place of one.
LEMMA GoodReplace ==
  ASSUME NEW s, NEW f, Good(s, f), NEW t, NEW i, NEW x, ReplacedAt(s, t, i, x)
  PROVE  /\ Good(t, f) /\ Len(t.rtx) = Len(s.rtx)
         /\ \A k \in 1..Len(s.rtx) : t.rtx[k] = IF k = i THEN x ELSE s.rtx[k]
<1> SUFFICES ASSUME i \in 1..Len(s.rtx), x \in Skb,
         RtxOK(x, s.una),
         x.seq = s.rtx[i].seq \/ (s.rtx[i].seq < s.una /\ x.seq = s.una),
         x.end = s.rtx[i].end, x.fin = s.rtx[i].fin,
         t \in Sockets, Frame(s, t), t.rtx = Spliced(s.rtx, i, <<x>>),
         t.wq = s.wq, t.nxt = s.nxt, t.tx = s.tx, t.bug = FALSE,
         \A c \in Marks : Counter(t, c) = Counter(s, c) - Weight(s.rtx[i], c) + Weight(x, c),
         t.hint <= Len(s.rtx),
         \A k \in 1..t.hint - 1 : ~Waits(IF k = i THEN x ELSE s.rtx[k])
             PROVE /\ Good(t, f) /\ Len(t.rtx) = Len(s.rtx)
         /\ \A k \in 1..Len(s.rtx) : t.rtx[k] = IF k = i THEN x ELSE s.rtx[k]
  BY DEF ReplacedAt
<1>1. SentPart(s.rtx, s.una, s.nxt, f /\ s.wq = <<>>) /\ s.rtx \in Seq(Skb)
      /\ Counted(s) /\ s.hint \in Nat /\ Len(s.rtx) \in Nat
  BY GoodFacts
<1>2. /\ SentPart(t.rtx, s.una, s.nxt, f /\ s.wq = <<>>)
      /\ Len(t.rtx) = Len(s.rtx)
      /\ \A k \in 1..Len(s.rtx) : t.rtx[k] = IF k = i THEN x ELSE s.rtx[k]
  BY <1>1, SentReplaced
<1>3. t.rtx \in Seq(Skb) /\ t.hint \in Nat
  BY SocketFields
<1>4. ASSUME NEW c \in Marks PROVE Sums(t.rtx, c, Counter(t, c))
  <2>1. Sums(s.rtx, c, Counter(s, c))
    BY <1>1 DEF Counted
  <2>2. Sums(t.rtx, c, Counter(s, c) - Weight(s.rtx[i], c) + Weight(x, c))
    BY <1>1, <1>2, <1>3, <2>1, SumsReplace
  <2> QED BY <2>2
<1>5. Counted(t)
  BY <1>4 DEF Counted
<1>6. \A k \in 1..t.hint - 1 : k \in 1..Len(s.rtx)
  BY <1>1, <1>3
<1>7. HintOK(t)
  BY <1>2, <1>6 DEF HintOK, Settled
<1>8. Good(t, f)
  BY <1>2, <1>5, <1>7, GoodRtx
<1> QED BY <1>2, <1>8

\* Two buffers over the same range take the place of one.
LEMMA GoodCut ==
  ASSUME NEW s, NEW f, Good(s, f), NEW t, NEW i, NEW x, NEW y, CutAt(s, t, i, x, y)
  PROVE  /\ Good(t, f) /\ Len(t.rtx) = Len(s.rtx) + 1
         /\ \A k \in 1..Len(s.rtx) + 1 :
              t.rtx[k] = IF k < i THEN s.rtx[k] ELSE IF k = i THEN x
                         ELSE IF k = i + 1 THEN y ELSE s.rtx[k - 1]
<1> SUFFICES ASSUME i \in 1..Len(s.rtx),
         x \in Skb, y \in Skb,
         RtxOK(x, s.una), RtxOK(y, s.una),
         x.seq = s.rtx[i].seq, x.end = y.seq, y.end = s.rtx[i].end,
         x.fin = FALSE, y.fin = s.rtx[i].fin,
         Waits(x) <=> Waits(s.rtx[i]), Waits(y) <=> Waits(s.rtx[i]),
         t \in Sockets, Frame(s, t), t.rtx = Spliced(s.rtx, i, <<x, y>>),
         t.wq = s.wq, t.nxt = s.nxt, t.tx = s.tx, t.bug = FALSE,
         \A c \in Marks : Counter(t, c) = Counter(s, c) - Weight(s.rtx[i], c)
                                           + Weight(x, c) + Weight(y, c),
         t.hint = IF s.hint > i THEN s.hint + 1 ELSE s.hint
             PROVE /\ Good(t, f) /\ Len(t.rtx) = Len(s.rtx) + 1
         /\ \A k \in 1..Len(s.rtx) + 1 :
              t.rtx[k] = IF k < i THEN s.rtx[k] ELSE IF k = i THEN x
                         ELSE IF k = i + 1 THEN y ELSE s.rtx[k - 1]
  BY DEF CutAt
<1> DEFINE p == <<x, y>>
<1>1. p = <<x, y>> /\ t.rtx = Spliced(s.rtx, i, p)
  OBVIOUS
<1> HIDE DEF p
<1>2. SentPart(s.rtx, s.una, s.nxt, f /\ s.wq = <<>>) /\ s.rtx \in Seq(Skb)
      /\ Counted(s) /\ s.hint \in Nat /\ Len(s.rtx) \in Nat
  BY GoodFacts
<1>3. /\ SentPart(t.rtx, s.una, s.nxt, f /\ s.wq = <<>>)
      /\ Len(t.rtx) = Len(s.rtx) + 1
      /\ \A k \in 1..Len(s.rtx) + 1 :
              t.rtx[k] = IF k < i THEN s.rtx[k] ELSE IF k = i THEN x
                         ELSE IF k = i + 1 THEN y ELSE s.rtx[k - 1]
  <2> DEFINE q == s.rtx
             g == f /\ s.wq = <<>>
  <2>1. SentPart(q, s.una, s.nxt, g) /\ i \in 1..Len(q)
    BY <1>2
  <2>2. x.seq = q[i].seq /\ x.end = y.seq /\ y.end = q[i].end /\ x.fin = FALSE /\ y.fin = q[i].fin
    OBVIOUS
  <2>3. t.rtx = Spliced(q, i, p)
    BY <1>1
  <2> HIDE DEF q, g
  <2>4. /\ SentPart(Spliced(q, i, p), s.una, s.nxt, g)
        /\ Len(Spliced(q, i, p)) = Len(q) + 1
        /\ \A k \in 1..Len(q) + 1 :
              Spliced(q, i, p)[k] = IF k < i THEN q[k] ELSE IF k = i THEN x
                                    ELSE IF k = i + 1 THEN y ELSE q[k - 1]
    <3>1. p = <<x, y>> /\ RtxOK(x, s.una) /\ RtxOK(y, s.una)
      BY <1>1
    <3>2. SentPart(Spliced(q, i, p), s.una, s.nxt, g)
      <4> DEFINE u == s.una
                 w == s.nxt
      <4>1. SentPart(q, u, w, g) /\ RtxOK(x, u) /\ RtxOK(y, u)
        BY <2>1, <3>1
      <4> HIDE DEF u, w
      <4>2. SentPart(Spliced(q, i, p), u, w, g)
        BY ONLY <2>1, <2>2, <3>1, <4>1, SentCut, x \in Skb, y \in Skb
      <4> QED BY <4>2 DEF u, w
    <3>3. q \in Seq(Skb)
      BY <2>1 DEF SentPart
    <3>4. /\ Len(Spliced(q, i, p)) = Len(q) + 1
          /\ \A k \in 1..Len(q) + 1 :
                Spliced(q, i, p)[k] = IF k < i THEN q[k] ELSE IF k = i THEN x
                                      ELSE IF k = i + 1 THEN y ELSE q[k - 1]
      BY <2>1, <3>1, <3>3, SplicedTwo
    <3> QED BY <3>2, <3>4
  <2>5. /\ SentPart(t.rtx, s.una, s.nxt, g)
        /\ Len(t.rtx) = Len(q) + 1
        /\ \A k \in 1..Len(q) + 1 :
              t.rtx[k] = IF k < i THEN q[k] ELSE IF k = i THEN x
                         ELSE IF k = i + 1 THEN y ELSE q[k - 1]
    BY <2>3, <2>4
  <2> QED BY <2>5 DEF q, g
<1>4. t.rtx \in Seq(Skb) /\ t.hint \in Nat
  BY SocketFields
<1>5. ASSUME NEW c \in Marks PROVE Sums(t.rtx, c, Counter(t, c))
  <2>1. Sums(s.rtx, c, Counter(s, c))
    BY <1>2 DEF Counted
  <2>2. Sums(t.rtx, c, Counter(s, c) - Weight(s.rtx[i], c) + Weight(x, c) + Weight(y, c))
    BY <1>2, <1>3, <1>4, <2>1, SumsCut
  <2> QED BY <2>2
<1>6. Counted(t)
  BY <1>5 DEF Counted
<1>7. s.hint <= Len(s.rtx) /\ \A k \in 1..s.hint - 1 : ~Waits(s.rtx[k])
  BY GoodFacts DEF HintOK, Settled
<1>8. t.hint <= Len(t.rtx)
  BY <1>2, <1>3, <1>7
<1>9. ASSUME NEW k \in 1..t.hint - 1 PROVE ~Waits(t.rtx[k])
  <2>1. k \in 1..Len(s.rtx) + 1 /\ i \in 1..Len(s.rtx)
    BY <1>2, <1>3, <1>4, <1>8
  <2>2. CASE k < i
    <3>1. k \in 1..s.hint - 1
      BY <1>2, <2>1, <2>2
    <3>2. t.rtx[k] = s.rtx[k]
      BY <1>3, <2>1, <2>2
    <3> QED BY <1>7, <3>1, <3>2
  <2>3. CASE k = i
    <3>1. i \in 1..s.hint - 1
      BY <1>2, <2>1, <2>3
    <3>2. t.rtx[k] = x
      BY <1>3, <2>1, <2>3
    <3> QED BY <1>7, <3>1, <3>2
  <2>4. CASE k = i + 1
    <3>1. i \in 1..s.hint - 1
      BY <1>2, <2>1, <2>4
    <3>2. ~(k < i) /\ k # i
      BY <2>1, <2>4
    <3>3. t.rtx[k] = y
      BY <1>3, <2>1, <2>4, <3>2
    <3> QED BY <1>7, <3>1, <3>3
  <2>5. CASE k > i + 1
    <3> DEFINE j == k - 1
    <3>1. j \in 1..s.hint - 1
      BY <1>2, <2>1, <2>5
    <3>2. ~(k < i) /\ k # i /\ k # i + 1
      BY <2>1, <2>5
    <3>3. t.rtx[k] = s.rtx[j]
      BY <1>3, <2>1, <3>2
    <3> HIDE DEF j
    <3> QED BY <1>7, <3>1, <3>3
  <2> QED BY <2>1, <2>2, <2>3, <2>4, <2>5
<1>10. HintOK(t)
  BY <1>8, <1>9 DEF HintOK, Settled
<1>11. Good(t, f)
  BY <1>3, <1>6, <1>10, GoodRtx
<1> QED BY <1>3, <1>11

\* One buffer takes the place of two neighbours.
LEMMA GoodJoin ==
  ASSUME NEW s, NEW f, Good(s, f), NEW t, NEW i, NEW x, JoinedAt(s, t, i, x)
  PROVE  /\ Good(t, f) /\ Len(t.rtx) = Len(s.rtx) - 1
         /\ \A k \in 1..Len(s.rtx) - 1 :
              t.rtx[k] = IF k < i THEN s.rtx[k] ELSE IF k = i THEN x ELSE s.rtx[k + 1]
<1> SUFFICES ASSUME i \in 1..Len(s.rtx), i # Len(s.rtx), x \in Skb,
         RtxOK(x, s.una),
         x.seq = s.rtx[i].seq, x.end = s.rtx[i + 1].end, x.fin = s.rtx[i + 1].fin,
         Waits(x) <=> Waits(s.rtx[i]),
         t \in Sockets, Frame(s, t), t.rtx = Joined(s.rtx, i, x),
         t.wq = s.wq, t.nxt = s.nxt, t.tx = s.tx, t.bug = FALSE,
         \A c \in Marks : Counter(t, c) = Counter(s, c) - Weight(s.rtx[i], c)
                                           - Weight(s.rtx[i + 1], c) + Weight(x, c),
         t.hint = IF s.hint > i THEN s.hint - 1 ELSE s.hint
             PROVE /\ Good(t, f) /\ Len(t.rtx) = Len(s.rtx) - 1
         /\ \A k \in 1..Len(s.rtx) - 1 :
              t.rtx[k] = IF k < i THEN s.rtx[k] ELSE IF k = i THEN x ELSE s.rtx[k + 1]
  BY DEF JoinedAt
<1>1. SentPart(s.rtx, s.una, s.nxt, f /\ s.wq = <<>>) /\ s.rtx \in Seq(Skb)
      /\ Counted(s) /\ s.hint \in Nat /\ Len(s.rtx) \in Nat
  BY GoodFacts
<1>2. /\ SentPart(t.rtx, s.una, s.nxt, f /\ s.wq = <<>>)
      /\ Len(t.rtx) = Len(s.rtx) - 1
      /\ \A k \in 1..Len(s.rtx) - 1 :
              t.rtx[k] = IF k < i THEN s.rtx[k] ELSE IF k = i THEN x ELSE s.rtx[k + 1]
  <2> DEFINE q == s.rtx
             g == f /\ s.wq = <<>>
  <2>1. SentPart(q, s.una, s.nxt, g) /\ i \in 1..Len(q) /\ i # Len(q)
    BY <1>1
  <2>2. x.seq = q[i].seq /\ x.end = q[i + 1].end /\ x.fin = q[i + 1].fin
    OBVIOUS
  <2>3. t.rtx = Joined(q, i, x)
    OBVIOUS
  <2> HIDE DEF q, g
  <2>4. /\ SentPart(Joined(q, i, x), s.una, s.nxt, g)
        /\ Len(Joined(q, i, x)) = Len(q) - 1
        /\ \A k \in 1..Len(q) - 1 :
              Joined(q, i, x)[k] = IF k < i THEN q[k] ELSE IF k = i THEN x ELSE q[k + 1]
    <3> DEFINE u == s.una
               w == s.nxt
    <3>1. SentPart(q, u, w, g) /\ RtxOK(x, u) /\ q \in Seq(Skb)
      BY <2>1 DEF SentPart
    <3> HIDE DEF u, w
    <3>2. SentPart(Joined(q, i, x), u, w, g)
      BY ONLY <2>1, <2>2, <3>1, SentJoined, x \in Skb
    <3>3. /\ Len(Joined(q, i, x)) = Len(q) - 1
          /\ \A k \in 1..Len(q) - 1 :
                Joined(q, i, x)[k] = IF k < i THEN q[k] ELSE IF k = i THEN x ELSE q[k + 1]
      BY <2>1, <3>1, JoinedTwo
    <3> QED BY <3>2, <3>3 DEF u, w
  <2>5. /\ SentPart(t.rtx, s.una, s.nxt, g)
        /\ Len(t.rtx) = Len(q) - 1
        /\ \A k \in 1..Len(q) - 1 :
              t.rtx[k] = IF k < i THEN q[k] ELSE IF k = i THEN x ELSE q[k + 1]
    BY <2>3, <2>4
  <2> QED BY <2>5 DEF q, g
<1>3. t.rtx \in Seq(Skb) /\ t.hint \in Nat
  BY SocketFields
<1>4. ASSUME NEW c \in Marks PROVE Sums(t.rtx, c, Counter(t, c))
  <2>1. Sums(s.rtx, c, Counter(s, c))
    BY <1>1 DEF Counted
  <2>2. Sums(t.rtx, c, Counter(s, c) - Weight(s.rtx[i], c) - Weight(s.rtx[i + 1], c) + Weight(x, c))
    BY <1>1, <1>2, <1>3, <2>1, SumsJoin
  <2> QED BY <2>2
<1>5. Counted(t)
  BY <1>4 DEF Counted
<1>6. s.hint <= Len(s.rtx) /\ \A k \in 1..s.hint - 1 : ~Waits(s.rtx[k])
  BY GoodFacts DEF HintOK, Settled
<1>7. t.hint <= Len(t.rtx)
  BY <1>1, <1>2, <1>6
<1>8. ASSUME NEW k \in 1..t.hint - 1 PROVE ~Waits(t.rtx[k])
  <2>1. k \in 1..Len(s.rtx) - 1 /\ i \in 1..Len(s.rtx)
    BY <1>1, <1>2, <1>3, <1>7
  <2>2. CASE k < i
    <3>1. k \in 1..s.hint - 1
      BY <1>1, <2>1, <2>2
    <3>2. t.rtx[k] = s.rtx[k]
      BY <1>2, <2>1, <2>2
    <3> QED BY <1>6, <3>1, <3>2
  <2>3. CASE k = i
    <3>1. i \in 1..s.hint - 1
      BY <1>1, <2>1, <2>3
    <3>2. t.rtx[k] = x
      BY <1>2, <2>1, <2>3
    <3> QED BY <1>6, <3>1, <3>2
  <2>4. CASE k > i
    <3> DEFINE j == k + 1
    <3>1. j \in 1..s.hint - 1
      BY <1>1, <2>1, <2>4
    <3>2. ~(k < i) /\ k # i
      BY <2>1, <2>4
    <3>3. t.rtx[k] = s.rtx[j]
      BY <1>2, <2>1, <3>2
    <3> HIDE DEF j
    <3> QED BY <1>6, <3>1, <3>3
  <2> QED BY <2>1, <2>2, <2>3, <2>4
<1>9. HintOK(t)
  BY <1>7, <1>8 DEF HintOK, Settled
<1>10. Good(t, f)
  BY <1>2, <1>5, <1>9, GoodRtx
<1> QED BY <1>2, <1>10

\* A BUG_ON whose condition does not hold leaves no trace.
LEMMA AssertHolds ==
  ASSUME NEW s \in Sockets, s.bug = FALSE, NEW ok, ok = TRUE
  PROVE  Assert_(s, ok) = s
BY DEF Assert_, Sockets

SameMarks(a, b) == a.acked = b.acked /\ a.retrans = b.retrans /\ a.lost = b.lost

\* Buffers with the same marks are counted by the same counters.
LEMMA MarksIs ==
  ASSUME NEW a, NEW b, SameMarks(a, b)
  PROVE  /\ Waits(a) <=> Waits(b)
         /\ \A c : Has(a, c) <=> Has(b, c)
         /\ \A c : Weight(a, c) = IF Has(b, c) THEN a.pc ELSE 0
BY DEF SameMarks, Waits, Has, Weight

\* t is s with d packets fewer on the counters of buffer b.
Recounted(s, t, b, d) ==
    /\ t \in Sockets /\ Frame(s, t) /\ SameTimers(s, t)
    /\ t.rtx = s.rtx /\ t.wq = s.wq /\ t.nxt = s.nxt /\ t.hint = s.hint
    /\ t.tx = s.tx /\ t.bug = s.bug
    /\ \A c \in Marks : Counter(t, c) = Counter(s, c) - (IF Has(b, c) THEN d ELSE 0)

\* What tcp_adjust_pcount does to each counter.
LEMMA Recount ==
  ASSUME NEW s \in Sockets, NEW b \in Skb, NEW d \in Int
  PROVE  Recounted(s, AdjustPcount(s, b, d), b, d)
<1> DEFINE t == AdjustPcount(s, b, d)
<1>1. /\ t \in Sockets /\ Frame(s, t) /\ SameTimers(s, t)
      /\ t.packets_out = s.packets_out - d
      /\ t.sacked_out  = s.sacked_out - (IF b.acked THEN d ELSE 0)
      /\ t.retrans_out = s.retrans_out - (IF b.retrans THEN d ELSE 0)
      /\ t.lost_out    = s.lost_out - (IF b.lost THEN d ELSE 0)
      /\ t.rtx = s.rtx /\ t.wq = s.wq /\ t.nxt = s.nxt /\ t.hint = s.hint
      /\ t.tx = s.tx /\ t.bug = s.bug
  BY AdjustPcountIs
<1> HIDE DEF t
<1>2. /\ Counter(t, "out") = Counter(s, "out") - (IF Has(b, "out") THEN d ELSE 0)
      /\ Counter(t, "lost") = Counter(s, "lost") - (IF Has(b, "lost") THEN d ELSE 0)
      /\ Counter(t, "retrans") = Counter(s, "retrans") - (IF Has(b, "retrans") THEN d ELSE 0)
      /\ Counter(t, "sacked") = Counter(s, "sacked") - (IF Has(b, "sacked") THEN d ELSE 0)
  BY <1>1 DEF Counter, Has
<1>3. \A c \in Marks : c = "out" \/ c = "lost" \/ c = "retrans" \/ c = "sacked"
  BY DEF Marks
<1>4. Recounted(s, t, b, d)
  BY <1>1, <1>2, <1>3 DEF Recounted
<1> QED BY <1>4 DEF t

\* The counters are numbers.
LEMMA CounterInt ==
  ASSUME NEW s \in Sockets, NEW c
  PROVE  Counter(s, c) \in Int
BY DEF Sockets, Counter

\* t is s after work on the i-th buffer of the retransmit queue and those
\* behind it: nothing before it changed, and it has kept its marks.
RtxStep(s, t, i, f) ==
    /\ Good(t, f) /\ Frame(s, t) /\ SameTimers(s, t)
    /\ t.wq = s.wq /\ t.nxt = s.nxt /\ t.tx = s.tx
    /\ i <= Len(t.rtx)
    /\ \A k \in 1..i - 1 : t.rtx[k] = s.rtx[k]
    /\ SameMarks(t.rtx[i], s.rtx[i])

\* t is s with the i-th buffer of the retransmit queue cut after len bytes.
FragmentedAt(s, t, i, len, f) ==
    /\ RtxStep(s, t, i, f) /\ Len(t.rtx) = Len(s.rtx) + 1
    /\ t.rtx[i].seq = s.rtx[i].seq /\ t.rtx[i].end = s.rtx[i].seq + len
    /\ t.rtx[i].fin = FALSE

\* Cutting a buffer that was sent.
LEMMA FragmentStep ==
  ASSUME NEW s, NEW f, Good(s, f), NEW i \in 1..Len(s.rtx), NEW len \in Nat,
         NEW mss \in Nat \ {0},
         len <= Size(s.rtx[i]), Size(s.rtx[i]) > 0, s.rtx[i].seq >= s.una
  PROVE  FragmentedAt(s, Fragment(s, "rtx", i, len, mss), i, len, f)
<1> DEFINE t == Fragment(s, "rtx", i, len, mss)
<1> DEFINE b == s.rtx[i]
           p == Halves(b, len, mss)
           h == IF s.hint > i THEN s.hint + 1 ELSE s.hint
           q == Spliced(s.rtx, i, p)
           cut == [s EXCEPT !.rtx = q, !.hint = h]
<1>1. s \in Sockets /\ s.bug = FALSE /\ s.rtx \in Seq(Skb) /\ s.hint \in Nat /\ s.una \in Nat
      /\ s.nxt \in Nat /\ Len(s.rtx) \in Nat
  BY GoodFacts
<1>2. b \in Skb /\ b.end <= s.nxt /\ b.end \in Nat /\ b.seq \in Nat /\ b.pc \in Nat
      /\ RtxOK(b, s.una) /\ len <= Size(b) /\ Size(b) > 0
  BY GoodBuf
<1>3. i \in 1..Len(s.rtx) /\ b = s.rtx[i] /\ b.seq >= s.una
  OBVIOUS
<1>4. p = Halves(b, len, mss)
  OBVIOUS
<1> HIDE DEF b, p
<1>5. PICK x \in Skb, y \in Skb :
           /\ Halves(b, len, mss) = <<x, y>>
           /\ x.seq = b.seq /\ x.end = b.seq + len /\ x.fin = FALSE
           /\ y.seq = b.seq + len /\ y.end = b.end /\ y.fin = b.fin
           /\ x.acked = b.acked /\ x.retrans = b.retrans /\ x.lost = b.lost
           /\ y.acked = b.acked /\ y.retrans = b.retrans /\ y.lost = b.lost
           /\ x.pc >= 1 /\ y.pc >= 1
           /\ x.pc > 1 <=> len > mss
           /\ x.syn = FALSE /\ y.syn = FALSE
  BY <1>2, HalvesIs
<1> DEFINE d == b.pc - x.pc - y.pc
<1>6. x.pc \in Nat /\ y.pc \in Nat /\ d \in Int
  BY <1>2, <1>5, SkbRange
<1>7. p = <<x, y>> /\ p[1] = x /\ p[2] = y
  BY <1>4, <1>5
<1>8. Assert_(s, len <= Size(b)) = s
  BY <1>1, <1>2, AssertHolds
<1>9. t = AdjustPcount(cut, b, d)
  <2>1. s.nxt >= b.end
    BY <1>1, <1>2
  <2> QED BY <1>1, <1>7, <1>8, <2>1 DEF Fragment, b, p
<1>10. SameMarks(x, b) /\ SameMarks(y, b)
  BY <1>5 DEF SameMarks
<1>11. q \in Seq(Skb) /\ q = Spliced(s.rtx, i, p) /\ h \in Nat
  BY <1>1, <1>7, <1>3, SplicedTwo
<1>12. h = IF s.hint > i THEN s.hint + 1 ELSE s.hint
  OBVIOUS
<1> HIDE DEF h, q, t
<1>13. /\ cut \in Sockets /\ Frame(s, cut) /\ SameTimers(s, cut) /\ cut.rtx = q
       /\ cut.hint = h /\ cut.wq = s.wq
       /\ cut.nxt = s.nxt /\ cut.tx = s.tx /\ cut.bug = s.bug
       /\ cut.packets_out = s.packets_out /\ cut.lost_out = s.lost_out
       /\ cut.retrans_out = s.retrans_out /\ cut.sacked_out = s.sacked_out
  BY <1>1, <1>11 DEF Sockets, Frame, SameTimers
<1> HIDE DEF cut, d
<1>14. \A c : Counter(cut, c) = Counter(s, c)
  BY <1>13 DEF Counter
<1>15. /\ t \in Sockets /\ Frame(cut, t) /\ SameTimers(cut, t)
       /\ t.rtx = q /\ t.wq = s.wq /\ t.nxt = s.nxt /\ t.hint = h
       /\ t.tx = s.tx /\ t.bug = FALSE
       /\ \A c \in Marks : Counter(t, c) = Counter(cut, c) - (IF Has(b, c) THEN d ELSE 0)
  <2>1. /\ t \in Sockets /\ Frame(cut, t) /\ SameTimers(cut, t)
        /\ t.rtx = cut.rtx /\ t.wq = cut.wq /\ t.nxt = cut.nxt /\ t.hint = cut.hint
        /\ t.tx = cut.tx /\ t.bug = cut.bug
        /\ \A c \in Marks : Counter(t, c) = Counter(cut, c) - (IF Has(b, c) THEN d ELSE 0)
    <3>1. cut \in Sockets /\ b \in Skb /\ d \in Int
      BY <1>2, <1>6, <1>13
    <3>2. Recounted(cut, t, b, d)
      BY <1>9, <3>1, Recount
    <3> QED BY <3>2 DEF Recounted
  <2> QED BY <1>1, <1>13, <2>1
<1>16. ASSUME NEW c \in Marks
       PROVE  Counter(t, c) = Counter(s, c) - Weight(b, c) + Weight(x, c) + Weight(y, c)
  <2>1. Counter(t, c) = Counter(s, c) - (IF Has(b, c) THEN d ELSE 0)
    BY <1>14, <1>15
  <2>2. Weight(x, c) = IF Has(b, c) THEN x.pc ELSE 0
    BY <1>10, MarksIs
  <2>3. Weight(y, c) = IF Has(b, c) THEN y.pc ELSE 0
    BY <1>10, MarksIs
  <2>4. Weight(b, c) = IF Has(b, c) THEN b.pc ELSE 0
    BY DEF Weight
  <2>5. Counter(s, c) \in Int /\ d = b.pc - x.pc - y.pc
    BY <1>1, CounterInt DEF d
  <2>6. CASE Has(b, c)
    BY <1>2, <1>6, <2>1, <2>2, <2>3, <2>4, <2>5, <2>6
  <2>7. CASE ~Has(b, c)
    BY <1>2, <1>6, <2>1, <2>2, <2>3, <2>4, <2>5, <2>7
  <2> QED BY <2>6, <2>7
<1>17. RtxOK(x, s.una) /\ RtxOK(y, s.una)
  <2>1. x.seq >= s.una /\ y.seq >= s.una
    BY <1>1, <1>2, <1>5, <1>3
  <2> QED BY <1>5, <2>1 DEF RtxOK
<1>18. (Waits(x) <=> Waits(b)) /\ (Waits(y) <=> Waits(b))
  BY <1>10, MarksIs
<1>19. Frame(s, t) /\ SameTimers(s, t)
  BY <1>13, <1>15 DEF Frame, SameTimers
<1>20. /\ Good(t, f) /\ Len(t.rtx) = Len(s.rtx) + 1
       /\ \A k \in 1..Len(s.rtx) + 1 :
              t.rtx[k] = IF k < i THEN s.rtx[k] ELSE IF k = i THEN x
                         ELSE IF k = i + 1 THEN y ELSE s.rtx[k - 1]
  <2>1. Good(s, f)
    OBVIOUS
  <2>2. x.seq = s.rtx[i].seq /\ x.end = y.seq /\ y.end = s.rtx[i].end
        /\ x.fin = FALSE /\ y.fin = s.rtx[i].fin
        /\ (Waits(x) <=> Waits(s.rtx[i])) /\ (Waits(y) <=> Waits(s.rtx[i]))
    BY <1>5, <1>3, <1>18
  <2>3. \A c \in Marks : Counter(t, c) = Counter(s, c) - Weight(s.rtx[i], c)
                                           + Weight(x, c) + Weight(y, c)
    BY <1>3, <1>16
  <2>4. t.rtx = Spliced(s.rtx, i, <<x, y>>) /\ t.wq = s.wq /\ t.nxt = s.nxt
        /\ t.tx = s.tx /\ t.bug = FALSE /\ t \in Sockets /\ Frame(s, t)
        /\ t.hint = IF s.hint > i THEN s.hint + 1 ELSE s.hint
    BY <1>7, <1>11, <1>12, <1>15, <1>19
  <2>5. CutAt(s, t, i, x, y)
    BY <1>3, <1>17, <2>2, <2>3, <2>4 DEF CutAt
  <2> QED BY <2>1, <2>5, GoodCut
<1>21. t.rtx[i] = x /\ i <= Len(t.rtx) /\ \A k \in 1..i - 1 : t.rtx[k] = s.rtx[k]
  <2>1. i \in 1..Len(s.rtx) + 1 /\ ~(i < i) /\ i <= Len(s.rtx) + 1
        /\ \A k \in 1..i - 1 : k \in 1..Len(s.rtx) + 1 /\ k < i
    BY <1>1
  <2> QED BY <1>20, <2>1
<1>22. RtxStep(s, t, i, f)
  BY <1>10, <1>3, <1>15, <1>19, <1>20, <1>21 DEF RtxStep
<1>23. t.rtx[i].seq = s.rtx[i].seq /\ t.rtx[i].end = s.rtx[i].seq + len /\ t.rtx[i].fin = FALSE
  BY <1>5, <1>3, <1>21
<1> QED BY <1>20, <1>22, <1>23 DEF t, FragmentedAt

\* Two steps on the same buffer are one.
LEMMA RtxStepTwice ==
  ASSUME NEW s, NEW t, NEW u, NEW i, NEW f, RtxStep(s, t, i, f), RtxStep(t, u, i, f)
  PROVE  RtxStep(s, u, i, f)
BY DEF RtxStep, Frame, SameTimers, SameMarks

\* No step is one.
LEMMA RtxStepSame ==
  ASSUME NEW s, NEW i, NEW f, Good(s, f), i \in 1..Len(s.rtx)
  PROVE  RtxStep(s, s, i, f)
<1>1. i <= Len(s.rtx)
  BY GoodFacts
<1> QED BY <1>1 DEF RtxStep, Frame, SameTimers, SameMarks

\* The last buffer alone may carry the FIN, and a buffer ends where the next begins.
LEMMA GoodNext ==
  ASSUME NEW s, NEW f, Good(s, f), NEW i \in 1..Len(s.rtx), i # Len(s.rtx)
  PROVE  /\ s.rtx[i].fin = FALSE /\ s.rtx[i].end = s.rtx[i + 1].seq
         /\ i + 1 \in 1..Len(s.rtx) /\ s.rtx[i + 1].seq >= s.una
<1>1. SentPart(s.rtx, s.una, s.nxt, f /\ s.wq = <<>>) /\ Len(s.rtx) \in Nat
  BY GoodFacts
<1>2. i \in 1..Len(s.rtx) - 1 /\ i + 1 \in 1..Len(s.rtx) /\ i + 1 \in 2..Len(s.rtx)
  BY <1>1
<1>3. s.rtx[i].end = s.rtx[i + 1].seq
  BY <1>1, <1>2 DEF SentPart, Linked
<1>4. ~s.rtx[i].fin
  BY <1>1 DEF SentPart, FinLast
<1>5. s.rtx[i].fin \in BOOLEAN
  <2>1. s.rtx[i] \in Skb
    BY GoodBuf
  <2> QED BY <2>1, SkbRange
<1>6. s.rtx[i + 1].seq >= s.una
  BY <1>1, <1>2, SentOrder
<1> QED BY <1>2, <1>3, <1>4, <1>5, <1>6

\* The i-th buffer of the retransmit queue may be sent: above snd_una it is inside
\* the window.
Sendable(s, i) == SegIn(s.rtx[i], s.wseq, s.una, s.una + s.wnd)

\* One that ends inside the window may be.
LEMMA EndInside ==
  ASSUME NEW s, NEW f, Good(s, f), NEW i \in 1..Len(s.rtx), s.rtx[i].end <= s.una + s.wnd
  PROVE  Sendable(s, i)
<1>1. s.una \in Nat /\ s.wnd \in Nat /\ s.nxt \in Nat /\ s.wseq \in Nat /\ s.nxt <= s.wseq
  BY GoodFacts
<1>2. s.rtx[i].end \in Nat /\ s.rtx[i].end <= s.nxt
  BY GoodBuf
<1>3. Bit(s.rtx[i].fin) \in {0, 1}
  BY DEF Bit
<1> QED BY <1>1, <1>2, <1>3 DEF Sendable, SegIn

\* Two single segments become one.
LEMMA CollapseIs ==
  ASSUME NEW s, NEW f, Good(s, f), NEW i \in 1..Len(s.rtx), i # Len(s.rtx),
         s.rtx[i].syn = FALSE, s.rtx[i].pc = 1, s.rtx[i + 1].pc <= 1
  PROVE  LET t == CollapseRetrans(s, i)
         IN /\ RtxStep(s, t, i, f) /\ t.rtx[i].syn = FALSE /\ t.rtx[i].pc = 1
            /\ t.rtx[i].end = s.rtx[i + 1].end
<1> DEFINE t == CollapseRetrans(s, i)
           j == i + 1
           a == s.rtx[i]
           b == s.rtx[j]
           x == [a EXCEPT !.end = b.end, !.fin = @ \/ b.fin]
           m == AdjustPcount(s, b, b.pc)
           q == Joined(s.rtx, i, x)
           h == IF s.hint > i THEN s.hint - 1 ELSE s.hint
<1>1. s \in Sockets /\ s.bug = FALSE /\ s.rtx \in Seq(Skb) /\ s.hint \in Nat /\ s.una \in Nat
      /\ Len(s.rtx) \in Nat
  BY GoodFacts
<1>2. a.fin = FALSE /\ a.end = b.seq /\ j \in 1..Len(s.rtx) /\ b.seq >= s.una
  BY GoodNext
<1>3. a \in Skb /\ a.end \in Nat /\ a.seq \in Nat /\ RtxOK(a, s.una)
  BY GoodBuf
<1>4. b \in Skb /\ b.end \in Nat /\ b.seq \in Nat /\ b.pc \in Nat /\ b.pc >= 1 /\ b.seq <= b.end
  BY <1>2, GoodBuf
<1>5. a.pc = 1 /\ b.pc = 1 /\ a.syn = FALSE
  BY <1>4
<1>6. Assert_(s, a.pc = 1 /\ b.pc = 1) = s
  BY <1>1, <1>5, AssertHolds
<1>7. t = [m EXCEPT !.rtx = Joined(@, i, x), !.hint = IF @ > i THEN @ - 1 ELSE @]
  BY <1>6 DEF CollapseRetrans
<1>8. /\ x \in Skb /\ x.seq = a.seq /\ x.end = b.end /\ x.fin = b.fin
      /\ x.acked = a.acked /\ x.retrans = a.retrans /\ x.lost = a.lost
      /\ x.pc = 1
  <2>1. a.end = b.seq /\ ~a.syn /\ ~a.fin /\ a.pc <= 1
    BY <1>2, <1>5
  <2> HIDE DEF a, b
  <2> QED BY <1>3, <1>4, <1>5, <2>1, JoinIs
<1>9. x.syn = FALSE
  BY <1>3, <1>5 DEF Skb, SkbRec
<1>10. i \in 1..Len(s.rtx) /\ i # Len(s.rtx) /\ b = s.rtx[i + 1] /\ a = s.rtx[i] /\ i >= 1
  OBVIOUS
<1> HIDE DEF a, b, x
<1>11. q \in Seq(Skb) /\ h \in Nat
  <2>1. q \in Seq(Skb)
    BY <1>1, <1>8, <1>10, JoinedTwo
  <2>2. h \in Nat
    BY <1>1, <1>10
  <2> QED BY <2>1, <2>2
<1>12. Recounted(s, m, b, b.pc)
  BY <1>1, <1>4, Recount
<1>13. /\ m \in Sockets /\ Frame(s, m) /\ SameTimers(s, m)
       /\ m.rtx = s.rtx /\ m.wq = s.wq /\ m.nxt = s.nxt /\ m.hint = s.hint
       /\ m.tx = s.tx /\ m.bug = FALSE
       /\ \A c \in Marks : Counter(m, c) = Counter(s, c) - (IF Has(b, c) THEN b.pc ELSE 0)
  BY <1>1, <1>12 DEF Recounted
<1> HIDE DEF m
<1>14. t = [m EXCEPT !.rtx = q, !.hint = h]
  BY <1>7, <1>13
<1>15. q = Joined(s.rtx, i, x) /\ h = IF s.hint > i THEN s.hint - 1 ELSE s.hint
  OBVIOUS
<1> HIDE DEF q, h, t
<1>16. /\ t \in Sockets /\ Frame(m, t) /\ SameTimers(m, t)
       /\ t.rtx = q /\ t.hint = h /\ t.wq = m.wq
       /\ t.nxt = m.nxt /\ t.tx = m.tx /\ t.bug = m.bug
       /\ t.packets_out = m.packets_out /\ t.lost_out = m.lost_out
       /\ t.retrans_out = m.retrans_out /\ t.sacked_out = m.sacked_out
  BY <1>11, <1>13, <1>14 DEF Sockets, Frame, SameTimers
<1>17. ASSUME NEW c \in Marks
       PROVE  Counter(t, c) = Counter(s, c) - Weight(a, c) - Weight(b, c) + Weight(x, c)
  <2>1. Counter(t, c) = Counter(m, c)
    BY <1>16 DEF Counter
  <2>2. Counter(t, c) = Counter(s, c) - Weight(b, c)
    BY <1>13, <2>1 DEF Weight
  <2>3. Weight(x, c) = Weight(a, c)
    BY <1>5, <1>8 DEF Weight, Has
  <2>4. Counter(s, c) \in Int /\ Weight(a, c) \in Int /\ Weight(b, c) \in Int
    BY <1>1, <1>3, <1>4, CounterInt, WeightNat
  <2> QED BY <2>2, <2>3, <2>4
<1>18. SameMarks(x, a) /\ (Waits(x) <=> Waits(a))
  <2>1. SameMarks(x, a)
    BY <1>8 DEF SameMarks
  <2> QED BY <2>1, MarksIs
<1>19. RtxOK(x, s.una)
  BY <1>1, <1>2, <1>3, <1>4, <1>8 DEF RtxOK
<1>20. Frame(s, t) /\ SameTimers(s, t) /\ t.wq = s.wq /\ t.nxt = s.nxt /\ t.tx = s.tx
       /\ t.bug = FALSE
  BY <1>13, <1>16 DEF Frame, SameTimers
<1>21. JoinedAt(s, t, i, x)
  BY <1>8, <1>10, <1>15, <1>16, <1>17, <1>18, <1>19, <1>20 DEF JoinedAt
<1>22. /\ Good(t, f) /\ Len(t.rtx) = Len(s.rtx) - 1
       /\ \A k \in 1..Len(s.rtx) - 1 :
            t.rtx[k] = IF k < i THEN s.rtx[k] ELSE IF k = i THEN x ELSE s.rtx[k + 1]
  BY <1>21, GoodJoin
<1>23. i <= Len(t.rtx) /\ t.rtx[i] = x /\ \A k \in 1..i - 1 : t.rtx[k] = s.rtx[k]
  <2>1. i \in 1..Len(s.rtx) - 1 /\ ~(i < i) /\ i <= Len(s.rtx) - 1
        /\ \A k \in 1..i - 1 : k \in 1..Len(s.rtx) - 1 /\ k < i
    BY <1>1, <1>10
  <2> QED BY <1>22, <2>1
<1>24. RtxStep(s, t, i, f)
  BY <1>10, <1>18, <1>20, <1>22, <1>23 DEF RtxStep
<1>25. t.rtx[i].end = s.rtx[i + 1].end
  BY <1>8, <1>10, <1>23
<1> QED BY <1>8, <1>9, <1>23, <1>24, <1>25 DEF t

\* A buffer that is a single segment takes in its successors.
LEMMA TryCollapseIs ==
  ASSUME NEW s, NEW f, Good(s, f), NEW i \in 1..Len(s.rtx), NEW space \in Int,
         NEW most
  PROVE  LET t == RetransTryCollapse(s, i, space, most)
         IN RtxStep(s, t, i, f) /\ (Sendable(s, i) => Sendable(t, i))
<1> DEFINE Op(acc, n) ==
             IF /\ acc.go /\ n <= most
                /\ i < Len(acc.sk.rtx)
                /\ CanCollapse(acc.sk.rtx[i + 1])
                /\ acc.space - Size(acc.sk.rtx[i + 1]) >= 0
                /\ acc.sk.rtx[i + 1].end <= WndEnd(acc.sk)
             THEN [acc EXCEPT !.sk = CollapseRetrans(@, i),
                              !.space = acc.space - Size(acc.sk.rtx[i + 1])]
             ELSE [acc EXCEPT !.go = FALSE]
           n == Len(s.rtx)
           base == [sk |-> s, space |-> space - Size(s.rtx[i]), go |-> TRUE]
           Ok(t) == /\ RtxStep(s, t, i, f) /\ t.rtx[i].syn = FALSE /\ t.rtx[i].pc = 1
                    /\ Sendable(s, i) => Sendable(t, i)
           S == {a \in [sk : Sockets, space : Int, go : BOOLEAN] : Ok(a.sk)}
           F == [p \in S \X (1..n) |-> Op(p[1], p[2])]
           Is(g) == g = [k \in 0..n |-> IF k = 0 THEN base ELSE Op(g[k - 1], k)]
<1>1. s \in Sockets /\ n \in Nat /\ i \in 1..n
  BY GoodFacts
<1>2. s.rtx[i] \in Skb /\ s.rtx[i].pc >= 1 /\ s.rtx[i].pc \in Nat /\ Size(s.rtx[i]) \in Int
      /\ s.rtx[i].syn \in BOOLEAN
  <2>1. s.rtx[i] \in Skb /\ s.rtx[i].pc >= 1 /\ s.rtx[i].pc \in Nat /\ Size(s.rtx[i]) \in Int
    BY GoodBuf
  <2> QED BY <2>1, SkbFields DEF Skb
<1>3. CASE s.rtx[i].syn \/ ~CanCollapse(s.rtx[i])
  BY <1>3, RtxStepSame DEF RetransTryCollapse
<1>4. CASE ~(s.rtx[i].syn \/ ~CanCollapse(s.rtx[i]))
  <2>1. s.rtx[i].syn = FALSE /\ s.rtx[i].pc = 1
    BY <1>2, <1>4 DEF CanCollapse
  <2>2. base \in S
    <3>1. Ok(s)
      BY <2>1, RtxStepSame
    <3> HIDE DEF Ok
    <3>2. space - Size(s.rtx[i]) \in Int
      BY <1>2
    <3> QED BY <1>1, <3>1, <3>2
  <2>3. ASSUME NEW a \in S, NEW k PROVE Op(a, k) \in S
    <3> DEFINE u == a.sk
               j == i + 1
    <3>1. a \in [sk : Sockets, space : Int, go : BOOLEAN] /\ Ok(u)
      OBVIOUS
    <3>2. u \in Sockets /\ a.space \in Int /\ RtxStep(s, u, i, f) /\ u.rtx[i].syn = FALSE
          /\ u.rtx[i].pc = 1
      BY <3>1
    <3>3. Good(u, f) /\ i <= Len(u.rtx)
      BY <3>2 DEF RtxStep
    <3>4. CASE /\ a.go /\ k <= most
               /\ i < Len(a.sk.rtx)
               /\ CanCollapse(a.sk.rtx[i + 1])
               /\ a.space - Size(a.sk.rtx[i + 1]) >= 0
               /\ a.sk.rtx[i + 1].end <= WndEnd(a.sk)
      <4> DEFINE t == CollapseRetrans(u, i)
                 left == a.space - Size(a.sk.rtx[i + 1])
      <4>1. Len(u.rtx) \in Nat
        BY <3>3, GoodFacts
      <4>2. i \in 1..Len(u.rtx) /\ i # Len(u.rtx) /\ j \in 1..Len(u.rtx)
        BY <1>1, <3>4, <4>1
      <4>3. u.rtx[j].pc <= 1
        BY <3>4 DEF CanCollapse
      <4>4. Size(u.rtx[j]) \in Int
        BY <3>3, <4>2, GoodBuf
      <4>5. left \in Int
        BY <3>2, <4>4
      <4>6. RtxStep(u, t, i, f) /\ t.rtx[i].syn = FALSE /\ t.rtx[i].pc = 1
            /\ t.rtx[i].end = u.rtx[j].end
        BY <3>2, <3>3, <4>2, <4>3, CollapseIs
      <4> HIDE DEF t
      <4>7. Sendable(t, i)
        <5>1. Good(t, f) /\ i <= Len(t.rtx) /\ t.una = u.una /\ t.wnd = u.wnd
          BY <4>6 DEF RtxStep, Frame
        <5>2. Len(t.rtx) \in Nat
          BY <5>1, GoodFacts
        <5>3. i \in 1..Len(t.rtx)
          BY <1>1, <5>1, <5>2
        <5>4. t.rtx[i].end <= t.una + t.wnd
          BY <3>4, <4>6, <5>1 DEF WndEnd
        <5> QED BY <5>1, <5>3, <5>4, EndInside
      <4>8. Ok(t)
        BY <3>2, <4>6, <4>7, RtxStepTwice
      <4>9. t \in Sockets
        BY <4>6 DEF RtxStep, Good, GoodAt
      <4>10. Op(a, k) = [a EXCEPT !.sk = t, !.space = left]
        BY <3>4 DEF t
      <4> HIDE DEF Op, Ok, t, left
      <4>11. Op(a, k) \in [sk : Sockets, space : Int, go : BOOLEAN] /\ Op(a, k).sk = t
        BY <3>1, <4>5, <4>9, <4>10
      <4> QED BY <4>8, <4>11
    <3>5. CASE ~(/\ a.go /\ k <= most
                 /\ i < Len(a.sk.rtx)
                 /\ CanCollapse(a.sk.rtx[i + 1])
                 /\ a.space - Size(a.sk.rtx[i + 1]) >= 0
                 /\ a.sk.rtx[i + 1].end <= WndEnd(a.sk))
      <4>1. Op(a, k) = [a EXCEPT !.go = FALSE]
        BY <3>5
      <4> HIDE DEF Op, Ok
      <4>2. Op(a, k) \in [sk : Sockets, space : Int, go : BOOLEAN] /\ Op(a, k).sk = u
        BY <3>1, <4>1
      <4> QED BY <3>1, <4>2
    <3> QED BY <3>4, <3>5
  <2>4. RetransTryCollapse(s, i, space, most) = Iterate(Op, base, n).sk
    BY <1>4 DEF RetransTryCollapse
  <2>5. \A a \in S : Ok(a.sk)
    OBVIOUS
  <2> HIDE DEF Op, Ok, n, base
  <2>6. F \in [S \X (1..n) -> S]
    BY <2>3
  <2>7. \A a \in S, k \in 1..n : F[<<a, k>>] = Op(a, k)
    OBVIOUS
  <2> HIDE DEF F, S
  <2>8. PICK g : /\ g = [k \in 0..n |-> IF k = 0 THEN base ELSE F[<<g[k - 1], k>>]]
                 /\ \A k \in 0..n : g[k] \in S
    <3>1. LoopBody(n, S, base, F)
      BY <1>1, <2>2, <2>6 DEF LoopBody
    <3>2. PICK g : LoopOf(g, n, S, base, F)
      BY <3>1, LoopExists
    <3> QED BY <3>2 DEF LoopOf
  <2>9. \A k \in 0..n : k # 0 => F[<<g[k - 1], k>>] = Op(g[k - 1], k)
    BY <1>1, <2>7, <2>8
  <2>10. Is(g)
    BY <2>8, <2>9
  <2> DEFINE h == CHOOSE o : Is(o)
  <2>11. Is(h)
    BY <2>10
  <2>12. Iterate(Op, base, n) = h[n]
    BY DEF Iterate
  <2> HIDE DEF h
  <2>13. h[0] = base /\ \A k \in 1..n : h[k] = Op(h[k - 1], k)
    BY <1>1, <2>11
  <2>14. h[n] \in S
    <3>1. n \in Nat /\ h[0] \in S /\ \A k \in 1..n : h[k - 1] \in S => h[k] \in S
      BY <1>1, <2>2, <2>3, <2>13
    <3> QED BY ONLY <3>1, Upward
  <2> QED BY <2>4, <2>5, <2>12, <2>14 DEF Ok
<1> QED BY <1>3, <1>4

\* t is s with one segment more on the wire.
Transmitted(s, t, f) ==
    /\ Good(t, f) /\ Frame(s, t) /\ SameTimers(s, t) /\ SameCounts(s, t)
    /\ t.rtx = s.rtx /\ t.wq = s.wq /\ t.nxt = s.nxt /\ t.hint = s.hint

\* A segment with a packet count that ends within the written bytes and the window
\* may be sent.
LEMMA TransmitIs ==
  ASSUME NEW s, NEW f, Good(s, f), NEW b, b.pc > 0, b.seq \in Int, b.end \in Int,
         b.fin \in BOOLEAN, SegIn(b, s.wseq, s.una, s.una + s.wnd)
  PROVE  Transmitted(s, Transmit(s, b), f)
<1> DEFINE g == [seq |-> b.seq, end |-> b.end, fin |-> b.fin]
           x == s.tx \cup {g}
           t == [s EXCEPT !.tx = x]
<1>1. s \in Sockets /\ s.bug = FALSE /\ TxIn(s) /\ s.tx \in TxSets
  BY GoodFacts, SocketFields
<1>2. Assert_(s, b.pc > 0) = s
  BY <1>1, AssertHolds
<1>3. Transmit(s, b) = t
  BY <1>2 DEF Transmit
<1>4. g \in [seq : Int, end : Int, fin : BOOLEAN] /\ g.end = b.end /\ g.seq = b.seq
      /\ g.fin = b.fin
  OBVIOUS
<1> HIDE DEF g
<1>5. x \in TxSets
  <2>1. IsFiniteSet(s.tx) /\ s.tx \subseteq [seq : Int, end : Int, fin : BOOLEAN]
    BY <1>1 DEF TxSets
  <2>2. IsFiniteSet(x)
    BY <2>1, FS_AddElement
  <2> QED BY <1>4, <2>1, <2>2 DEF TxSets
<1>6. \A e \in x : SegIn(e, s.wseq, s.una, s.una + s.wnd)
  <2>1. SegIn(g, s.wseq, s.una, s.una + s.wnd)
    BY <1>4 DEF SegIn
  <2> QED BY <1>1, <2>1 DEF TxIn
<1> HIDE DEF x
<1>7. /\ t \in Sockets /\ Frame(s, t) /\ SameTimers(s, t) /\ SameCounts(s, t)
      /\ t.rtx = s.rtx /\ t.wq = s.wq /\ t.nxt = s.nxt /\ t.hint = s.hint
      /\ t.tx = x /\ t.bug = s.bug /\ t.una = s.una /\ t.wseq = s.wseq /\ t.wnd = s.wnd
  BY <1>1, <1>5 DEF Sockets, Frame, SameTimers, SameCounts
<1> HIDE DEF t
<1>8. Good(t, f)
  <2>1. Counted(t)
    <3>1. Counted(s)
      BY GoodFacts
    <3> QED BY <1>7, <3>1 DEF Counted, Counter, SameCounts
  <2>2. TxIn(t)
    BY <1>6, <1>7 DEF TxIn
  <2> QED BY <1>7, <2>1, <2>2 DEF Good, GoodAt, HintOK
<1> QED BY <1>3, <1>7, <1>8 DEF Transmitted

\* What is left of a buffer of the retransmit queue above una counts for as
\* many packets as before: one that counts for several is not acknowledged in part.
LEMMA UnackedCount ==
  ASSUME NEW b \in Skb, NEW una \in Nat, RtxOK(b, una)
  PROVE  /\ Unacked(b, una) \in Skb
         /\ Unacked(b, una).seq = IF b.seq < una THEN una ELSE b.seq
         /\ Unacked(b, una).end = b.end
         /\ Unacked(b, una).fin = b.fin
         /\ SameMarks(Unacked(b, una), b)
         /\ Unacked(b, una).pc = b.pc
<1>1. b.pc >= 1 /\ (b.end > una \/ b.seq >= una) /\ (b.pc > 1 => b.seq >= una)
  BY DEF RtxOK
<1>2. /\ Unacked(b, una) \in Skb
      /\ Unacked(b, una).seq = IF b.seq < una THEN una ELSE b.seq
      /\ Unacked(b, una).end = b.end
      /\ Unacked(b, una).fin = b.fin /\ Unacked(b, una).acked = b.acked
      /\ Unacked(b, una).retrans = b.retrans /\ Unacked(b, una).lost = b.lost
  BY <1>1, UnackedIs
<1>3. b \in SkbRec /\ (b.syn => b.seq = 0 /\ b.end = 1) /\ b.seq \in Nat /\ b.end \in Nat
      /\ b.pc \in Nat /\ b.syn \in BOOLEAN
  BY SkbFields DEF Skb
<1>4. Unacked(b, una).pc = b.pc
  <2>1. CASE b.seq < una
    <3> DEFINE r == [b EXCEPT !.seq = una]
    <3>1. b.pc = 1 /\ ~b.syn
      BY <1>1, <1>3, <2>1
    <3>2. Unacked(b, una) = TrimHead(b, una)
      BY <2>1, <3>1 DEF Unacked
    <3>3. r.pc = 1
      BY <1>3, <3>1 DEF SkbRec
    <3>4. TrimHead(b, una) = r
      BY <3>3 DEF TrimHead
    <3> QED BY <3>1, <3>2, <3>3, <3>4
  <2>2. CASE ~(b.seq < una)
    BY <2>2 DEF Unacked
  <2> QED BY <2>1, <2>2
<1> QED BY <1>2, <1>4 DEF SameMarks

\* The number of bytes to retransmit.
LEMMA ResendLengthIs ==
  ASSUME NEW mss \in Nat \ {0}, NEW segs \in Nat, NEW avail \in Nat
  PROVE  ResendLength(mss, segs, avail) \in Nat /\ ResendLength(mss, segs, avail) <= avail
<1>1. mss * segs \in Nat
  BY Product
<1>2. avail % mss \in Nat /\ avail % mss <= avail
  BY Quotient
<1> QED BY <1>1, <1>2 DEF ResendLength

\* t is s with a buffer x that has the marks of the i-th in its place.
SwapAt(s, t, i, x) ==
    /\ i \in 1..Len(s.rtx) /\ x \in Skb /\ RtxOK(x, s.una)
    /\ x.seq = s.rtx[i].seq \/ (s.rtx[i].seq < s.una /\ x.seq = s.una)
    /\ x.end = s.rtx[i].end /\ x.fin = s.rtx[i].fin
    /\ SameMarks(x, s.rtx[i])
    /\ t \in Sockets /\ Frame(s, t) /\ SameTimers(s, t) /\ t.rtx = Spliced(s.rtx, i, <<x>>)
    /\ t.wq = s.wq /\ t.nxt = s.nxt /\ t.tx = s.tx /\ t.bug = s.bug /\ t.hint = s.hint
    /\ \A c \in Marks : Counter(t, c) = Counter(s, c)
                          - (IF Has(s.rtx[i], c) THEN s.rtx[i].pc - x.pc ELSE 0)

\* A good socket stays good.
LEMMA SwapIs ==
  ASSUME NEW s, NEW f, Good(s, f), NEW t, NEW i, NEW x, SwapAt(s, t, i, x)
  PROVE  RtxStep(s, t, i, f) /\ t.rtx[i] = x /\ Len(t.rtx) = Len(s.rtx)
<1> DEFINE b == s.rtx[i]
<1>1. s \in Sockets /\ s.bug = FALSE /\ HintOK(s) /\ s.hint \in Nat /\ Len(s.rtx) \in Nat
  BY GoodFacts
<1>2. i \in 1..Len(s.rtx) /\ x \in Skb /\ RtxOK(x, s.una) /\ SameMarks(x, b)
      /\ (x.seq = b.seq \/ (b.seq < s.una /\ x.seq = s.una)) /\ x.end = b.end /\ x.fin = b.fin
  BY DEF SwapAt
<1>3. /\ t \in Sockets /\ Frame(s, t) /\ SameTimers(s, t) /\ t.rtx = Spliced(s.rtx, i, <<x>>)
      /\ t.wq = s.wq /\ t.nxt = s.nxt /\ t.tx = s.tx /\ t.bug = s.bug /\ t.hint = s.hint
  BY DEF SwapAt
<1>4. \A c \in Marks : Counter(t, c) = Counter(s, c) - (IF Has(b, c) THEN b.pc - x.pc ELSE 0)
  BY DEF SwapAt
<1>5. b \in Skb /\ b.pc \in Nat /\ x.pc \in Nat
  BY <1>2, GoodBuf, SkbRange
<1>6. ASSUME NEW c \in Marks
      PROVE  Counter(t, c) = Counter(s, c) - Weight(b, c) + Weight(x, c)
  <2> HIDE DEF b
  <2>1. Weight(x, c) = IF Has(b, c) THEN x.pc ELSE 0
    BY <1>2, MarksIs
  <2>2. Weight(b, c) = IF Has(b, c) THEN b.pc ELSE 0
    BY DEF Weight
  <2>3. Counter(s, c) \in Int
    BY <1>1, CounterInt
  <2>4. CASE Has(b, c)
    BY <1>4, <1>5, <2>1, <2>2, <2>3, <2>4
  <2>5. CASE ~Has(b, c)
    BY <1>4, <1>5, <2>1, <2>2, <2>3, <2>5
  <2> QED BY <2>4, <2>5
<1>7. Waits(x) <=> Waits(b)
  BY <1>2, MarksIs
<1>8. t.hint <= Len(s.rtx) /\ \A k \in 1..t.hint - 1 : ~Waits(IF k = i THEN x ELSE s.rtx[k])
  <2>1. s.hint <= Len(s.rtx) /\ \A k \in 1..s.hint - 1 : ~Waits(s.rtx[k])
    BY <1>1 DEF HintOK, Settled
  <2>2. ASSUME NEW k \in 1..s.hint - 1 PROVE ~Waits(IF k = i THEN x ELSE s.rtx[k])
    BY <1>7, <2>1
  <2> QED BY <1>3, <2>1, <2>2
<1>9. ReplacedAt(s, t, i, x)
  BY <1>1, <1>2, <1>3, <1>6, <1>8 DEF ReplacedAt
<1>10. /\ Good(t, f) /\ Len(t.rtx) = Len(s.rtx)
       /\ \A k \in 1..Len(s.rtx) : t.rtx[k] = IF k = i THEN x ELSE s.rtx[k]
  BY <1>9, GoodReplace
<1>11. t.rtx[i] = x /\ i <= Len(t.rtx) /\ \A k \in 1..i - 1 : t.rtx[k] = s.rtx[k]
  <2>1. i <= Len(s.rtx) /\ \A k \in 1..i - 1 : k \in 1..Len(s.rtx) /\ k # i
    BY <1>1, <1>2
  <2> QED BY <1>2, <1>10, <2>1
<1> QED BY <1>2, <1>3, <1>10, <1>11 DEF RtxStep

\* What a retransmission does to a socket: work on one buffer and those behind.
RtxWork(s, t, i, f) ==
    /\ Good(t, f) /\ Frame(s, t)
    /\ t.cwnd = s.cwnd /\ t.tlp = s.tlp /\ t.pending = s.pending /\ t.ca = s.ca
    /\ t.wq = s.wq /\ t.nxt = s.nxt
    /\ i <= Len(t.rtx)
    /\ \A k \in 1..i - 1 : t.rtx[k] = s.rtx[k]
    /\ SameMarks(t.rtx[i], s.rtx[i])

\* Another step on the buffer, and sending it, are work on it.
LEMMA WorkStep ==
  ASSUME NEW s, NEW t, NEW u, NEW i, NEW f, RtxWork(s, t, i, f), RtxStep(t, u, i, f)
  PROVE  RtxWork(s, u, i, f)
BY DEF RtxStep, RtxWork, Frame, SameTimers, SameMarks

\* ... and so is sending it.
LEMMA WorkSent ==
  ASSUME NEW s, NEW t, NEW u, NEW i, NEW f, RtxWork(s, t, i, f), Transmitted(t, u, f)
  PROVE  RtxWork(s, u, i, f)
BY DEF Transmitted, RtxWork, Frame, SameTimers, SameMarks

EnvSet == [room : Int, how : {"early", "mid", "late"}, wait : BOOLEAN, join : Nat]

\* The rest of RetransmitOne, after the first assertion.
ResentFrom(busy, s0, i, segs, env) ==
    LET skb   == Unacked(s0.rtx[i], s0.una)
        s     == [busy EXCEPT !.rtx = Spliced(@, i, <<skb>>)]
        room  == WndEnd(s) - skb.seq
        avail == IF room <= 0 THEN s.mss ELSE room
        len   == ResendLength(s.mss, segs, avail)
        whole == LET t == SetTsoSegs(skb, s.mss)
                 IN AdjustPcount([s EXCEPT !.rtx = Spliced(@, i, <<t>>)],
                                 skb, skb.pc - t.pc)
        cut   == IF Size(skb) > len THEN Fragment(s, "rtx", i, len, s.mss)
                 ELSE IF Size(skb) < Min({avail, s.mss})
                 THEN RetransTryCollapse(whole, i, Min({avail, s.mss}), env.join)
                 ELSE whole
        fails(how) == env.room = 0 /\ env.how = how
    IN IF fails("early") \/ s0.rtx[i].end < s0.una THEN [sk |-> busy, ok |-> FALSE]
       ELSE IF fails("mid") \/ (room <= 0 /\ skb.seq # s.una)
       THEN [sk |-> s, ok |-> FALSE]
       ELSE IF fails("late") THEN [sk |-> cut, ok |-> FALSE]
       ELSE [sk |-> Transmit(cut, cut.rtx[i]), ok |-> TRUE]

\* Sending a buffer of the retransmit queue once more.
LEMMA RetransmitOneIs ==
  ASSUME NEW s0, NEW f, Good(s0, f), NEW i \in 1..Len(s0.rtx), NEW segs \in Nat, NEW env
  PROVE  LET r == RetransmitOne(s0, i, segs, env)
         IN /\ r = [sk |-> r.sk, ok |-> r.ok] /\ r.ok \in BOOLEAN
            /\ RtxWork(s0, r.sk, i, f)
<1> DEFINE b == s0.rtx[i]
           mt == IF s0.mtup > 0 THEN 0 ELSE s0.mtup
           busy == [s0 EXCEPT !.mtup = mt]
           skb == Unacked(b, s0.una)
           s == [busy EXCEPT !.rtx = Spliced(@, i, <<skb>>)]
           room == WndEnd(s) - skb.seq
           avail == IF room <= 0 THEN s.mss ELSE room
           len == ResendLength(s.mss, segs, avail)
           t == SetTsoSegs(skb, s.mss)
           whole == AdjustPcount([s EXCEPT !.rtx = Spliced(@, i, <<t>>)], skb, skb.pc - t.pc)
           cut == IF Size(skb) > len THEN Fragment(s, "rtx", i, len, s.mss)
                  ELSE IF Size(skb) < Min({avail, s.mss})
                  THEN RetransTryCollapse(whole, i, Min({avail, s.mss}), env.join)
                  ELSE whole
<1>1. s0 \in Sockets /\ s0.bug = FALSE /\ s0.mtup \in Int /\ s0.una \in Nat /\ Len(s0.rtx) \in Nat
      /\ s0.rtx \in Seq(Skb) /\ s0.mss \in Nat \ {0} /\ s0.wnd \in Nat /\ s0.hint \in Nat
  BY GoodFacts, SocketFields
<1>2. b \in Skb /\ RtxOK(b, s0.una) /\ b.end \in Nat /\ b.end >= s0.una /\ b.seq \in Nat
      /\ b.pc \in Nat
  BY GoodBuf
<1>3. Assert_(s0, b.end >= s0.una) = s0
  BY <1>1, <1>2, AssertHolds
<1>4. busy = [Assert_(s0, s0.rtx[i].end >= s0.una) EXCEPT !.mtup = IF @ > 0 THEN 0 ELSE @]
  BY <1>3
<1>5. mt \in Int
  BY <1>1
<1> HIDE DEF mt
<1>6. /\ busy \in Sockets /\ Frame(s0, busy) /\ SameCounts(s0, busy)
      /\ busy.una = s0.una /\ busy.nxt = s0.nxt /\ busy.wseq = s0.wseq
      /\ busy.rtx = s0.rtx /\ busy.wq = s0.wq /\ busy.hint = s0.hint /\ busy.tx = s0.tx
      /\ busy.bug = s0.bug /\ busy.cwnd = s0.cwnd /\ busy.tlp = s0.tlp
      /\ busy.pending = s0.pending /\ busy.ca = s0.ca /\ busy.mss = s0.mss /\ busy.wnd = s0.wnd
  BY <1>1, <1>5 DEF Sockets, Frame, SameCounts
<1>7. Good(busy, f)
  BY <1>6, GoodSame
<1>8. RtxWork(s0, busy, i, f)
  <2>1. i <= Len(s0.rtx)
    BY <1>1
  <2> QED BY <1>6, <1>7, <2>1 DEF RtxWork, SameMarks
<1>9. /\ skb \in Skb /\ skb.seq = (IF b.seq < s0.una THEN s0.una ELSE b.seq)
      /\ skb.end = b.end /\ skb.fin = b.fin /\ SameMarks(skb, b) /\ skb.pc = b.pc
  BY <1>1, <1>2, UnackedCount
<1>10. skb.seq \in Nat /\ skb.seq >= s0.una /\ RtxOK(skb, s0.una)
       /\ (skb.seq = b.seq \/ (b.seq < s0.una /\ skb.seq = s0.una)) /\ skb.pc \in Nat
  <2>1. skb.seq \in Nat /\ skb.seq >= s0.una
        /\ (skb.seq = b.seq \/ (b.seq < s0.una /\ skb.seq = s0.una)) /\ skb.pc \in Nat
    BY <1>1, <1>2, <1>9
  <2>2. skb.pc >= 1
    BY <1>2, <1>9 DEF RtxOK
  <2> QED BY <2>1, <2>2 DEF RtxOK
<1>11. i \in 1..Len(busy.rtx) /\ busy.rtx[i] = b /\ b = s0.rtx[i]
  BY <1>6
<1> HIDE DEF b, skb, busy
<1>12. Spliced(busy.rtx, i, <<skb>>) \in Seq(Skb)
  BY <1>1, <1>6, <1>9, <1>11, SplicedOne
<1>13. SwapAt(busy, s, i, skb)
  <2> DEFINE q == Spliced(busy.rtx, i, <<skb>>)
  <2>1. s = [busy EXCEPT !.rtx = q] /\ q \in Seq(Skb) /\ q = Spliced(busy.rtx, i, <<skb>>)
    BY <1>12
  <2> HIDE DEF q, s
  <2>2. /\ s \in Sockets /\ Frame(busy, s) /\ SameCounts(busy, s) /\ SameTimers(busy, s)
        /\ s.rtx = q /\ s.wq = busy.wq /\ s.nxt = busy.nxt /\ s.hint = busy.hint
        /\ s.tx = busy.tx /\ s.bug = busy.bug
    BY <1>6, <2>1, SetRtx
  <2>3. \A c \in Marks : Counter(s, c) = Counter(busy, c)
    BY <2>2 DEF Counter, SameCounts
  <2>4. skb.pc = b.pc /\ b.pc - skb.pc = 0
    BY <1>2, <1>9
  <2>5. \A c \in Marks : Counter(s, c) = Counter(busy, c)
                          - (IF Has(b, c) THEN b.pc - skb.pc ELSE 0)
    <3> TAKE c \in Marks
    <3>1. Counter(busy, c) \in Int
      BY <1>6, CounterInt
    <3>2. (IF Has(b, c) THEN b.pc - skb.pc ELSE 0) = 0
      BY <2>4
    <3> QED BY <2>3, <3>1, <3>2
  <2>6. busy.una = s0.una
    BY <1>6
  <2> QED BY <1>9, <1>10, <1>11, <2>1, <2>2, <2>5, <2>6 DEF SwapAt
<1>14. RtxStep(busy, s, i, f) /\ s.rtx[i] = skb /\ Len(s.rtx) = Len(busy.rtx)
  BY <1>7, <1>13, SwapIs
<1>15. RtxWork(s0, s, i, f)
  BY <1>8, <1>14, WorkStep
<1>16. Good(s, f) /\ s.una = s0.una /\ s.mss = s0.mss /\ s.wnd = s0.wnd /\ i \in 1..Len(s.rtx)
  BY <1>6, <1>11, <1>14, <1>15 DEF RtxWork, Frame
<1>17. s \in Sockets /\ s.bug = FALSE /\ s.mss \in Nat \ {0} /\ s.una \in Nat /\ s.wnd \in Nat
       /\ s.rtx \in Seq(Skb)
  BY <1>16, GoodFacts
<1>18. room \in Int /\ avail \in Nat /\ len \in Nat /\ Min({avail, s.mss}) \in Int
  <2> HIDE DEF s
  <2>1. room \in Int
    BY <1>10, <1>17 DEF WndEnd
  <2>2. avail \in Nat
    BY <1>17, <2>1
  <2> HIDE DEF avail
  <2>3. len \in Nat
    BY <1>17, <2>2, ResendLengthIs
  <2>4. Min({avail, s.mss}) \in Int
    BY <1>17, <2>2, MinPair
  <2> QED BY <2>1, <2>2, <2>3, <2>4
<1>19. room = s.una + s.wnd - skb.seq /\ (room > 0 => len <= room)
  <2> HIDE DEF s
  <2>1. room = s.una + s.wnd - skb.seq
    BY <1>10, <1>17 DEF WndEnd
  <2>2. room > 0 => avail = room
    BY <1>18
  <2> HIDE DEF avail
  <2>3. len <= avail
    BY <1>17, <1>18, ResendLengthIs
  <2> QED BY <2>1, <2>2, <2>3
<1> HIDE DEF room, avail, len
<1>20. /\ t \in Skb /\ SameRange(t, skb) /\ t.pc >= 1 /\ t.pc \in Nat
       /\ Size(skb) \in Int
  <2>1. skb \in SkbRec /\ skb.seq <= skb.end /\ Size(skb) >= 0
        /\ (skb.syn => skb.seq = 0 /\ skb.end = 1 /\ ~skb.fin)
        /\ (skb.retrans => skb.lost) /\ (skb.acked => ~skb.lost)
    BY <1>9 DEF Skb
  <2>2. t \in Skb /\ SameRange(t, skb) /\ t.pc >= 1
    <3> HIDE DEF s
    <3> QED BY <1>17, <2>1, SetTsoSegsIs
  <2>3. Size(skb) \in Int
    BY <2>1, SkbFields
  <2> HIDE DEF t
  <2> QED BY <2>2, <2>3, SkbRange
<1> DEFINE q == Spliced(s.rtx, i, <<t>>)
           m == [s EXCEPT !.rtx = q]
           d == skb.pc - t.pc
<1>21. whole = AdjustPcount(m, skb, d)
  OBVIOUS
<1>22. RtxStep(s, whole, i, f) /\ whole.rtx[i] = t
  <2> HIDE DEF s, t, whole
  <2>1. q \in Seq(Skb) /\ q = Spliced(s.rtx, i, <<t>>)
    BY <1>16, <1>17, <1>20, SplicedOne
  <2> HIDE DEF q
  <2>2. /\ m \in Sockets /\ Frame(s, m) /\ SameCounts(s, m) /\ SameTimers(s, m)
        /\ m.rtx = q /\ m.wq = s.wq /\ m.nxt = s.nxt /\ m.hint = s.hint
        /\ m.tx = s.tx /\ m.bug = s.bug
    BY <1>17, <2>1, SetRtx
  <2>3. d \in Int
    BY <1>10, <1>20
  <2> HIDE DEF m
  <2>4. Recounted(m, whole, skb, d)
    BY <1>9, <1>21, <2>2, <2>3, Recount
  <2>5. /\ whole \in Sockets /\ Frame(m, whole) /\ SameTimers(m, whole)
        /\ whole.rtx = m.rtx /\ whole.wq = m.wq /\ whole.nxt = m.nxt /\ whole.hint = m.hint
        /\ whole.tx = m.tx /\ whole.bug = m.bug
        /\ \A c \in Marks : Counter(whole, c) = Counter(m, c) - (IF Has(skb, c) THEN d ELSE 0)
    BY <2>4 DEF Recounted
  <2>6. \A c : Counter(m, c) = Counter(s, c)
    BY <2>2 DEF Counter, SameCounts
  <2>7. \A c \in Marks : Counter(whole, c) = Counter(s, c)
                               - (IF Has(s.rtx[i], c) THEN s.rtx[i].pc - t.pc ELSE 0)
    BY <1>14, <2>5, <2>6 DEF d
  <2>8. t.seq = skb.seq /\ t.end = skb.end /\ t.fin = skb.fin /\ SameMarks(t, skb)
    BY <1>20 DEF SameRange, SameMarks
  <2>9. RtxOK(t, s.una)
    <3>1. t.seq >= s.una
      BY <1>10, <1>16, <2>8
    <3> QED BY <1>20, <3>1 DEF RtxOK
  <2>10. Frame(s, whole) /\ SameTimers(s, whole)
    BY <2>2, <2>5 DEF Frame, SameTimers
  <2>11. SwapAt(s, whole, i, t)
    BY <1>14, <1>16, <1>20, <2>1, <2>2, <2>5, <2>7, <2>8, <2>9, <2>10 DEF SwapAt
  <2> QED BY <1>16, <2>11, SwapIs
<1>23. RtxStep(s, cut, i, f)
  <2> HIDE DEF s, whole, t
  <2>1. CASE Size(skb) > len
    <3>1. cut = Fragment(s, "rtx", i, len, s.mss)
      BY <2>1
    <3>2. len <= Size(s.rtx[i]) /\ Size(s.rtx[i]) > 0 /\ s.rtx[i].seq >= s.una
      BY <1>10, <1>14, <1>16, <1>18, <1>20, <2>1
    <3>3. FragmentedAt(s, cut, i, len, f)
      BY <1>16, <1>17, <1>18, <3>1, <3>2, FragmentStep
    <3> QED BY <3>3 DEF FragmentedAt
  <2>2. CASE ~(Size(skb) > len) /\ Size(skb) < Min({avail, s.mss})
    <3>1. cut = RetransTryCollapse(whole, i, Min({avail, s.mss}), env.join)
      BY <2>2
    <3>2. Good(whole, f) /\ i <= Len(whole.rtx)
      BY <1>22 DEF RtxStep
    <3>3. i \in 1..Len(whole.rtx)
      BY <3>2, GoodFacts
    <3>4. RtxStep(whole, cut, i, f)
      BY <1>18, <3>1, <3>2, <3>3, TryCollapseIs
    <3> QED BY <1>22, <3>4, RtxStepTwice
  <2>3. CASE ~(Size(skb) > len) /\ ~(Size(skb) < Min({avail, s.mss}))
    BY <1>22, <2>3
  <2> QED BY <2>1, <2>2, <2>3
<1>24. ASSUME room > 0 \/ skb.seq = s.una PROVE Sendable(cut, i)
  <2> HIDE DEF s, whole, t
  <2>1. skb.end \in Nat /\ Bit(skb.fin) \in {0, 1} /\ Bit(skb.syn) \in {0, 1}
        /\ (skb.syn => skb.seq = 0)
    <3>1. skb.end \in Nat /\ (skb.syn => skb.seq = 0)
      BY <1>9, SkbRange DEF Skb
    <3> QED BY <3>1 DEF Bit
  <2>2. s.wseq \in Nat /\ s.nxt \in Nat /\ s.nxt <= s.wseq /\ skb.end <= s.nxt
    BY <1>14, <1>16, GoodFacts, GoodBuf
  <2>3. CASE Size(skb) > len
    <3>1. cut = Fragment(s, "rtx", i, len, s.mss)
      BY <2>3
    <3>2. len <= Size(s.rtx[i]) /\ Size(s.rtx[i]) > 0 /\ s.rtx[i].seq >= s.una
      BY <1>10, <1>14, <1>16, <1>18, <1>20, <2>3
    <3>3. cut.rtx[i].seq = s.rtx[i].seq /\ cut.rtx[i].end = s.rtx[i].seq + len
          /\ cut.rtx[i].fin = FALSE
      <4>1. FragmentedAt(s, cut, i, len, f)
        BY <1>16, <1>17, <1>18, <3>1, <3>2, FragmentStep
      <4> QED BY <4>1 DEF FragmentedAt
    <3>4. cut.una = s.una /\ cut.wnd = s.wnd /\ cut.wseq = s.wseq
      BY <1>23 DEF RtxStep, Frame
    <3>5. skb.seq + len <= skb.end
      BY <1>10, <1>18, <2>1, <2>3 DEF Size
    <3>6. Bit(cut.rtx[i].fin) = 0
      BY <3>3 DEF Bit
    <3>7. cut.rtx[i].end <= cut.wseq
      BY <1>10, <1>14, <1>18, <2>1, <2>2, <3>3, <3>4, <3>5
    <3>8. cut.rtx[i].seq > cut.una => cut.rtx[i].end - Bit(cut.rtx[i].fin) <= cut.una + cut.wnd
      <4>1. CASE room > 0
        BY <1>10, <1>14, <1>17, <1>18, <1>19, <3>3, <3>4, <3>6, <4>1
      <4>2. CASE skb.seq = s.una
        BY <1>14, <1>17, <3>3, <3>4, <4>2
      <4> QED BY <1>24, <4>1, <4>2
    <3> QED BY <3>7, <3>8 DEF Sendable, SegIn
  <2>4. CASE ~(Size(skb) > len)
    <3>1. t.seq = skb.seq /\ t.end = skb.end /\ t.fin = skb.fin
      BY <1>20 DEF SameRange
    <3>2. whole.una = s.una /\ whole.wnd = s.wnd /\ whole.wseq = s.wseq
      BY <1>22 DEF RtxStep, Frame
    <3>3. skb.end <= s.wseq
      BY <2>1, <2>2
    <3>4. skb.seq > s.una => skb.end - Bit(skb.fin) <= s.una + s.wnd
      <4>1. CASE skb.syn
        BY <1>10, <1>17, <2>1, <4>1
      <4>2. CASE ~skb.syn
        <5>1. Bit(skb.syn) = 0
          BY <4>2 DEF Bit
        <5>2. skb.end - Bit(skb.fin) = skb.seq + Size(skb)
          BY <1>10, <2>1, <5>1 DEF Size
        <5>3. CASE room > 0
          <6>1. Size(skb) <= len /\ len <= room /\ room = s.una + s.wnd - skb.seq
            BY <1>18, <1>19, <1>20, <2>4, <5>3
          <6>2. skb.seq \in Int /\ s.una \in Int /\ s.wnd \in Int /\ Size(skb) \in Int
                /\ len \in Int /\ room \in Int
            BY <1>10, <1>17, <1>18, <1>20
          <6> HIDE DEF skb
          <6>3. skb.seq + Size(skb) <= s.una + s.wnd
            BY <6>1, <6>2
          <6> QED BY <5>2, <6>3
        <5>4. CASE skb.seq = s.una
          BY <1>17, <5>4
        <5> QED BY <1>24, <5>3, <5>4
      <4> QED BY <4>1, <4>2
    <3>5. Sendable(whole, i)
      BY <1>22, <3>1, <3>2, <3>3, <3>4 DEF Sendable, SegIn
    <3>6. CASE Size(skb) < Min({avail, s.mss})
      <4>1. cut = RetransTryCollapse(whole, i, Min({avail, s.mss}), env.join)
        BY <2>4, <3>6
      <4>2. Good(whole, f) /\ i <= Len(whole.rtx)
        BY <1>22 DEF RtxStep
      <4>3. i \in 1..Len(whole.rtx)
        BY <4>2, GoodFacts
      <4> QED BY <1>18, <3>5, <4>1, <4>2, <4>3, TryCollapseIs
    <3>7. CASE ~(Size(skb) < Min({avail, s.mss}))
      BY <2>4, <3>5, <3>7
    <3> QED BY <3>6, <3>7
  <2> QED BY <2>3, <2>4
<1> HIDE DEF cut, whole
<1>25. RtxWork(s0, cut, i, f)
  BY <1>15, <1>23, WorkStep
<1> DEFINE sent == Transmit(cut, cut.rtx[i])
           fails(how) == env.room = 0 /\ env.how = how
<1>26. ASSUME room > 0 \/ skb.seq = s.una PROVE RtxWork(s0, sent, i, f)
  <2>1. Good(cut, f) /\ i <= Len(cut.rtx)
    BY <1>25 DEF RtxWork
  <2>2. i \in 1..Len(cut.rtx) /\ cut.nxt \in Nat /\ cut.wseq \in Nat /\ cut.nxt <= cut.wseq
    <3>1. Len(cut.rtx) \in Nat /\ cut.nxt \in Nat /\ cut.wseq \in Nat /\ cut.nxt <= cut.wseq
      BY <2>1, GoodFacts
    <3> QED BY <2>1, <3>1
  <2>3. /\ cut.rtx[i] \in Skb /\ cut.rtx[i].end <= cut.nxt /\ cut.rtx[i].pc >= 1
        /\ cut.rtx[i].pc \in Nat /\ cut.rtx[i].seq \in Nat /\ cut.rtx[i].end \in Nat
    BY <2>1, <2>2, GoodBuf
  <2>4. cut.rtx[i].fin \in BOOLEAN
    BY <2>3, SkbRange
  <2>5. /\ cut.rtx[i].pc > 0 /\ cut.rtx[i].seq \in Int /\ cut.rtx[i].end \in Int
        /\ SegIn(cut.rtx[i], cut.wseq, cut.una, cut.una + cut.wnd)
    BY <1>26, <1>24, <2>2, <2>3 DEF Sendable
  <2>6. Transmitted(cut, sent, f)
    BY <2>1, <2>4, <2>5, TransmitIs
  <2> QED BY <1>25, <2>6, WorkSent
<1> DEFINE r == RetransmitOne(s0, i, segs, env)
<1>27. r = IF fails("early") \/ s0.rtx[i].end < s0.una THEN [sk |-> busy, ok |-> FALSE]
           ELSE IF fails("mid") \/ (room <= 0 /\ skb.seq # s.una) THEN [sk |-> s, ok |-> FALSE]
           ELSE IF fails("late") THEN [sk |-> cut, ok |-> FALSE]
           ELSE [sk |-> sent, ok |-> TRUE]
  <2>1. r = ResentFrom([Assert_(s0, s0.rtx[i].end >= s0.una)
                          EXCEPT !.mtup = IF @ > 0 THEN 0 ELSE @], s0, i, segs, env)
    BY Zenon DEF RetransmitOne, ResentFrom
  <2>2. r = ResentFrom(busy, s0, i, segs, env)
    BY ONLY <1>4, <2>1
  <2>3. ResentFrom(busy, s0, i, segs, env)
          = IF fails("early") \/ s0.rtx[i].end < s0.una THEN [sk |-> busy, ok |-> FALSE]
            ELSE IF fails("mid") \/ (room <= 0 /\ skb.seq # s.una) THEN [sk |-> s, ok |-> FALSE]
            ELSE IF fails("late") THEN [sk |-> cut, ok |-> FALSE]
            ELSE [sk |-> sent, ok |-> TRUE]
    BY Zenon DEF ResentFrom, skb, b, room, avail, len, whole, cut
  <2> QED BY ONLY <2>2, <2>3
<1> HIDE DEF sent, s, fails, r
<1>28. \/ r = [sk |-> busy, ok |-> FALSE] \/ r = [sk |-> s, ok |-> FALSE]
       \/ r = [sk |-> cut, ok |-> FALSE]
       \/ r = [sk |-> sent, ok |-> TRUE] /\ ~(room <= 0 /\ skb.seq # s.una)
  BY <1>27
<1>29. /\ r = [sk |-> r.sk, ok |-> r.ok] /\ r.ok \in BOOLEAN
       /\ RtxWork(s0, r.sk, i, f)
  <2>1. CASE r = [sk |-> busy, ok |-> FALSE]
    BY <1>8, <2>1
  <2>2. CASE r = [sk |-> s, ok |-> FALSE]
    BY <1>15, <2>2
  <2>3. CASE r = [sk |-> cut, ok |-> FALSE]
    BY <1>25, <2>3
  <2>4. CASE r = [sk |-> sent, ok |-> TRUE] /\ ~(room <= 0 /\ skb.seq # s.una)
    <3>1. room > 0 \/ skb.seq = s.una
      BY <1>18, <2>4
    <3> QED BY <1>26, <2>4, <3>1
  <2> QED BY <1>28, <2>1, <2>2, <2>3, <2>4
<1> QED BY <1>29 DEF r

\* t is s after work on the retransmit queue alone.
RtxOnly(s, t, f) ==
    /\ Good(t, f) /\ Frame(s, t)
    /\ t.wq = s.wq /\ t.nxt = s.nxt /\ t.pending = s.pending /\ t.ca = s.ca
    /\ t.tlp = s.tlp /\ t.cwnd = s.cwnd

\* Two changes of the retransmit queue are one.
LEMMA RtxOnlyTwice ==
  ASSUME NEW s, NEW t, NEW u, NEW f, RtxOnly(s, t, f), RtxOnly(t, u, f)
  PROVE  RtxOnly(s, u, f)
BY DEF RtxOnly, Frame

\* No change is one.
LEMMA RtxOnlySame ==
  ASSUME NEW s, NEW f, Good(s, f)
  PROVE  RtxOnly(s, s, f)
BY DEF RtxOnly, Frame

\* The i-th buffer was sent again and marked.
Resent(s, t, i, f) ==
    /\ RtxOnly(s, t, f)
    /\ i <= Len(t.rtx)
    /\ \A k \in 1..i - 1 : t.rtx[k] = s.rtx[k]
    /\ ~Waits(t.rtx[i])

\* Work on a buffer changes the retransmit queue only.
LEMMA WorkOnly ==
  ASSUME NEW s, NEW t, NEW i, NEW f, RtxWork(s, t, i, f)
  PROVE  RtxOnly(s, t, f)
BY DEF RtxWork, RtxOnly

\* A buffer that was lost is marked as retransmitted.
LEMMA MarkResent ==
  ASSUME NEW s, NEW f, Good(s, f), NEW i \in 1..Len(s.rtx), s.rtx[i].lost, ~s.rtx[i].retrans
  PROVE  Resent(s, [Assert_(s, ~s.rtx[i].retrans) EXCEPT
                      !.rtx = Spliced(@, i, <<[s.rtx[i] EXCEPT !.retrans = TRUE]>>),
                      !.retrans_out = @ + s.rtx[i].pc], i, f)
<1> DEFINE b == s.rtx[i]
           x == [b EXCEPT !.retrans = TRUE]
           q == Spliced(s.rtx, i, <<x>>)
           v == s.retrans_out + b.pc
           t == [s EXCEPT !.rtx = q, !.retrans_out = v]
<1>1. s \in Sockets /\ s.bug = FALSE /\ HintOK(s) /\ s.hint \in Nat /\ Len(s.rtx) \in Nat
      /\ s.rtx \in Seq(Skb) /\ s.retrans_out \in Int
  BY GoodFacts
<1>2. b \in Skb /\ b.pc \in Nat /\ RtxOK(b, s.una)
  BY GoodBuf
<1>3. b \in SkbRec /\ b.lost = TRUE /\ b.retrans = FALSE /\ b.acked = FALSE
  BY <1>2, SkbFields DEF Skb
<1>4. Assert_(s, ~b.retrans) = s
  BY <1>1, <1>3, AssertHolds
<1>5. x \in SkbRec /\ x.seq = b.seq /\ x.end = b.end /\ x.syn = b.syn /\ x.fin = b.fin
      /\ x.acked = b.acked /\ x.lost = b.lost /\ x.retrans = TRUE /\ x.pc = b.pc /\ x.gso = b.gso
  <2> HIDE DEF b
  <2> QED BY <1>3 DEF SkbRec
<1>6. i \in 1..Len(s.rtx) /\ b = s.rtx[i]
  OBVIOUS
<1>7. [Assert_(s, ~s.rtx[i].retrans) EXCEPT
         !.rtx = Spliced(@, i, <<[s.rtx[i] EXCEPT !.retrans = TRUE]>>),
         !.retrans_out = @ + s.rtx[i].pc] = t
  BY <1>4
<1> HIDE DEF b, x
<1>8. Size(x) = Size(b)
  BY <1>5 DEF Size
<1>9. x \in Skb
  BY <1>2, <1>3, <1>5, <1>8 DEF Skb
<1>10. q \in Seq(Skb) /\ v \in Int /\ q = Spliced(s.rtx, i, <<x>>)
  <2>1. q \in Seq(Skb)
    BY <1>1, <1>6, <1>9, SplicedOne
  <2>2. v \in Int
    BY <1>1, <1>2
  <2> QED BY <2>1, <2>2
<1>11. v = s.retrans_out + b.pc
  OBVIOUS
<1> HIDE DEF q, v
<1>12. /\ t \in Sockets /\ Frame(s, t) /\ SameTimers(s, t) /\ t.rtx = q /\ t.wq = s.wq
       /\ t.nxt = s.nxt /\ t.hint = s.hint /\ t.tx = s.tx /\ t.bug = s.bug
       /\ t.packets_out = s.packets_out /\ t.lost_out = s.lost_out
       /\ t.retrans_out = v /\ t.sacked_out = s.sacked_out
  BY <1>1, <1>10 DEF Sockets, Frame, SameTimers
<1> HIDE DEF t
<1>13. ASSUME NEW c \in Marks
       PROVE  Counter(t, c) = Counter(s, c) - Weight(b, c) + Weight(x, c)
  <2>1. Counter(s, c) \in Int /\ Weight(b, c) \in Int /\ Weight(x, c) \in Int
    BY <1>1, <1>2, <1>9, CounterInt, WeightNat
  <2>2. CASE c = "retrans"
    <3>1. Weight(b, c) = 0 /\ Weight(x, c) = b.pc
      BY <1>3, <1>5, <2>2 DEF Weight, Has
    <3>2. Counter(t, c) = Counter(s, c) + b.pc
      BY <1>11, <1>12, <2>2 DEF Counter
    <3> QED BY <1>2, <2>1, <3>1, <3>2
  <2>3. CASE c # "retrans"
    <3>1. Weight(b, c) = Weight(x, c)
      BY <1>5, <2>3 DEF Weight, Has
    <3>2. Counter(t, c) = Counter(s, c)
      BY <1>12, <2>3 DEF Counter
    <3> QED BY <2>1, <3>1, <3>2
  <2> QED BY <2>2, <2>3
<1>14. ~Waits(x)
  BY <1>5 DEF Waits
<1>15. t.hint <= Len(s.rtx) /\ \A k \in 1..t.hint - 1 : ~Waits(IF k = i THEN x ELSE s.rtx[k])
  <2>1. s.hint <= Len(s.rtx) /\ \A k \in 1..s.hint - 1 : ~Waits(s.rtx[k])
    BY <1>1 DEF HintOK, Settled
  <2>2. ASSUME NEW k \in 1..s.hint - 1 PROVE ~Waits(IF k = i THEN x ELSE s.rtx[k])
    BY <1>14, <2>1
  <2> QED BY <1>12, <2>1, <2>2
<1>16. RtxOK(x, s.una)
  BY <1>2, <1>5 DEF RtxOK
<1>17. ReplacedAt(s, t, i, x)
  BY <1>1, <1>5, <1>6, <1>9, <1>10, <1>12, <1>13, <1>15, <1>16 DEF ReplacedAt
<1>18. /\ Good(t, f) /\ Len(t.rtx) = Len(s.rtx)
       /\ \A k \in 1..Len(s.rtx) : t.rtx[k] = IF k = i THEN x ELSE s.rtx[k]
  BY <1>17, GoodReplace
<1>19. t.rtx[i] = x /\ i <= Len(t.rtx) /\ \A k \in 1..i - 1 : t.rtx[k] = s.rtx[k]
  <2>1. i <= Len(s.rtx) /\ \A k \in 1..i - 1 : k \in 1..Len(s.rtx) /\ k # i
    BY <1>1, <1>6
  <2> QED BY <1>6, <1>18, <2>1
<1>20. Resent(s, t, i, f)
  BY <1>12, <1>14, <1>18, <1>19 DEF Resent, RtxOnly, SameTimers
<1> QED BY <1>7, <1>20

\* tcp_retransmit_skb: a lost buffer is sent and marked, or not sent.
RetransmitResult(s, r, i, f) ==
    /\ r = [sk |-> r.sk, ok |-> r.ok] /\ r.ok \in BOOLEAN
    /\ r.ok => Resent(s, r.sk, i, f)
    /\ ~r.ok => RtxWork(s, r.sk, i, f)

\* tcp_retransmit_skb.
LEMMA RetransmitSkbIs ==
  ASSUME NEW s, NEW f, Good(s, f), NEW i \in 1..Len(s.rtx), s.rtx[i].lost, ~s.rtx[i].retrans,
         NEW segs \in Nat, NEW env
  PROVE  RetransmitResult(s, RetransmitSkb(s, i, segs, env), i, f)
<1> DEFINE a == RetransmitOne(s, i, segs, env)
           u == a.sk
           r == MarkRetrans(a, i)
<1>1. a = [sk |-> a.sk, ok |-> a.ok] /\ a.ok \in BOOLEAN /\ RtxWork(s, a.sk, i, f)
  BY RetransmitOneIs
<1>2. RetransmitSkb(s, i, segs, env) = r
  BY DEF RetransmitSkb
<1> HIDE DEF a
<1>3. CASE ~a.ok
  BY <1>1, <1>2, <1>3 DEF MarkRetrans, RetransmitResult
<1>4. CASE a.ok
  <2> DEFINE x == u.rtx[i]
             t == [Assert_(u, ~x.retrans) EXCEPT
                      !.rtx = Spliced(@, i, <<[x EXCEPT !.retrans = TRUE]>>),
                      !.retrans_out = @ + x.pc]
  <2>1. Good(u, f) /\ i <= Len(u.rtx) /\ SameMarks(u.rtx[i], s.rtx[i])
        /\ \A k \in 1..i - 1 : u.rtx[k] = s.rtx[k]
    BY <1>1 DEF RtxWork
  <2>2. i \in 1..Len(u.rtx)
    <3>1. Len(u.rtx) \in Nat
      BY <2>1, GoodFacts
    <3> QED BY <2>1, <3>1
  <2>3. u.rtx[i].lost /\ ~u.rtx[i].retrans
    BY <2>1 DEF SameMarks
  <2>4. Resent(u, t, i, f)
    BY <2>1, <2>2, <2>3, MarkResent
  <2>5. r = [a EXCEPT !.sk = t]
    BY <1>4 DEF MarkRetrans
  <2>6. RtxOnly(s, u, f)
    BY <1>1, WorkOnly
  <2> HIDE DEF t
  <2>7. RtxOnly(s, t, f)
    BY <2>4, <2>6, RtxOnlyTwice DEF Resent
  <2>8. Resent(s, t, i, f)
    BY <2>1, <2>4, <2>7 DEF Resent
  <2>9. r.sk = t /\ r.ok = a.ok /\ r = [sk |-> t, ok |-> a.ok]
    BY <1>1, <2>5
  <2> HIDE DEF r, u
  <2> QED BY <1>1, <1>2, <1>4, <2>8, <2>9 DEF RetransmitResult
<1> QED BY <1>3, <1>4

\* The hint may move to a buffer before which nothing waits.
LEMMA HintMoved ==
  ASSUME NEW s, NEW f, Good(s, f), NEW h \in Nat, h <= Len(s.rtx), Settled(s.rtx, h)
  PROVE  /\ RtxOnly(s, [s EXCEPT !.hint = h], f)
         /\ [s EXCEPT !.hint = h].rtx = s.rtx
         /\ SameCounts(s, [s EXCEPT !.hint = h])
<1> DEFINE t == [s EXCEPT !.hint = h]
<1>1. s \in Sockets /\ Counted(s)
  BY GoodFacts
<1>2. /\ t \in Sockets /\ Frame(s, t) /\ SameTimers(s, t) /\ SameCounts(s, t)
      /\ t.rtx = s.rtx /\ t.wq = s.wq /\ t.nxt = s.nxt /\ t.hint = h
      /\ t.tx = s.tx /\ t.bug = s.bug /\ t.una = s.una /\ t.wseq = s.wseq /\ t.wnd = s.wnd
  BY <1>1 DEF Sockets, Frame, SameTimers, SameCounts
<1> HIDE DEF t
<1>3. Counted(t)
  BY <1>1, <1>2 DEF Counted, Counter, SameCounts
<1>4. Good(t, f)
  BY <1>2, <1>3 DEF Good, GoodAt, HintOK, TxIn
<1>5. RtxOnly(s, t, f)
  BY <1>2, <1>4 DEF RtxOnly, SameTimers
<1> QED BY <1>2, <1>5 DEF t

\* The scan has come to the i-th buffer of the retransmit queue.
Scanned(s, t, i, f) ==
    /\ RtxOnly(s, t, f) /\ t.rtx # <<>>
    /\ i \in Nat \ {0} /\ i <= Len(t.rtx) + 1 /\ Settled(t.rtx, i)

\* The hint follows the scan.
LEMMA ScanIs ==
  ASSUME NEW s, NEW t, NEW i, NEW f, Scanned(s, t, i, f), i <= Len(t.rtx), NEW hole
  PROVE  LET at == [t EXCEPT !.hint = ScanHint(@, hole, i)]
         IN Scanned(s, at, i, f) /\ at.rtx = t.rtx /\ SameCounts(t, at)
<1> DEFINE h == ScanHint(t.hint, hole, i)
           at == [t EXCEPT !.hint = h]
<1>1. RtxOnly(s, t, f) /\ t.rtx # <<>> /\ i \in Nat /\ i \in Nat \ {0} /\ Settled(t.rtx, i)
      /\ i <= Len(t.rtx) + 1
  BY DEF Scanned
<1>2. Good(t, f)
  BY <1>1 DEF RtxOnly
<1>3. t.hint \in Nat /\ HintOK(t)
  BY <1>2, GoodFacts
<1>4. h \in Nat /\ h <= Len(t.rtx) /\ Settled(t.rtx, h)
  BY <1>1, <1>3 DEF ScanHint, HintOK
<1> HIDE DEF h
<1>5. RtxOnly(t, at, f) /\ at.rtx = t.rtx /\ SameCounts(t, at)
  BY <1>2, <1>4, HintMoved
<1> HIDE DEF at
<1>6. RtxOnly(s, at, f)
  BY <1>1, <1>5, RtxOnlyTwice
<1>7. Scanned(s, at, i, f)
  BY <1>1, <1>5, <1>6 DEF Scanned
<1> QED BY <1>5, <1>7 DEF at, h

\* A buffer that does not wait is passed.
LEMMA ScanPassed ==
  ASSUME NEW s, NEW t, NEW i, NEW f, Scanned(s, t, i, f), i <= Len(t.rtx), ~Waits(t.rtx[i])
  PROVE  Scanned(s, t, i + 1, f)
<1>1. i \in Nat \ {0} /\ i + 1 \in Nat \ {0} /\ RtxOnly(s, t, f) /\ t.rtx # <<>>
      /\ Settled(t.rtx, i)
  BY DEF Scanned
<1>2. Len(t.rtx) \in Nat
  BY <1>1, GoodFacts DEF RtxOnly
<1>3. Settled(t.rtx, i + 1)
  <2> DEFINE j == i + 1
  <2>1. \A k \in 1..j - 1 : k = i \/ k \in 1..i - 1
    BY <1>1
  <2>2. \A k \in 1..i - 1 : ~Waits(t.rtx[k])
    BY <1>1 DEF Settled
  <2> HIDE DEF j
  <2>3. Settled(t.rtx, j)
    BY <2>1, <2>2 DEF Settled
  <2> QED BY <2>3 DEF j
<1> QED BY <1>1, <1>2, <1>3 DEF Scanned

\* A buffer that was sent again is passed too.
LEMMA ScanResent ==
  ASSUME NEW s, NEW t, NEW u, NEW i, NEW f, Scanned(s, t, i, f), i <= Len(t.rtx),
         Resent(t, u, i, f)
  PROVE  Scanned(s, u, i + 1, f)
<1>1. i \in Nat \ {0} /\ RtxOnly(s, t, f) /\ Settled(t.rtx, i)
  BY DEF Scanned
<1>2. RtxOnly(t, u, f) /\ i <= Len(u.rtx) /\ (\A k \in 1..i - 1 : u.rtx[k] = t.rtx[k])
      /\ ~Waits(u.rtx[i])
  BY DEF Resent
<1>3. RtxOnly(s, u, f)
  BY <1>1, <1>2, RtxOnlyTwice
<1>4. u.rtx \in Seq(Skb) /\ Len(u.rtx) \in Nat
  BY <1>3, GoodFacts DEF RtxOnly
<1>5. u.rtx # <<>> /\ i <= Len(u.rtx) + 1
  BY <1>1, <1>2, <1>4, SeqFacts
<1>6. Settled(u.rtx, i)
  BY <1>1, <1>2 DEF Settled
<1>7. Scanned(s, u, i, f)
  BY <1>1, <1>3, <1>5, <1>6 DEF Scanned
<1> QED BY <1>2, <1>7, ScanPassed

\* A retransmission that failed leaves the scan where it is.
LEMMA ScanFailed ==
  ASSUME NEW s, NEW t, NEW u, NEW i, NEW f, Scanned(s, t, i, f), i <= Len(t.rtx),
         RtxWork(t, u, i, f)
  PROVE  Scanned(s, u, i, f)
<1>1. i \in Nat \ {0} /\ RtxOnly(s, t, f) /\ Settled(t.rtx, i)
  BY DEF Scanned
<1>2. RtxOnly(t, u, f) /\ i <= Len(u.rtx) /\ (\A k \in 1..i - 1 : u.rtx[k] = t.rtx[k])
  BY WorkOnly DEF RtxWork
<1>3. RtxOnly(s, u, f)
  BY <1>1, <1>2, RtxOnlyTwice
<1>4. u.rtx \in Seq(Skb) /\ Len(u.rtx) \in Nat
  BY <1>3, GoodFacts DEF RtxOnly
<1>5. u.rtx # <<>> /\ i <= Len(u.rtx) + 1
  BY <1>1, <1>2, <1>4, SeqFacts
<1>6. Settled(u.rtx, i)
  BY <1>1, <1>2 DEF Settled
<1> QED BY <1>1, <1>3, <1>5, <1>6 DEF Scanned

\* What the scan carries from buffer to buffer.
Scans(s, f) ==
    {acc \in [sk : Sockets, i : Nat \ {0}, hole : BOOLEAN, room : Int, rearm : BOOLEAN,
              go : BOOLEAN] : Scanned(s, acc.sk, acc.i, f)}

\* One turn of the scan.
LEMMA VisitIs ==
  ASSUME NEW s, NEW f, NEW acc \in Scans(s, f), NEW env
  PROVE  VisitRtx(acc, env) \in Scans(s, f)
<1> DEFINE T == [sk : Sockets, i : Nat \ {0}, hole : BOOLEAN, room : Int, rearm : BOOLEAN,
                 go : BOOLEAN]
           at == [acc.sk EXCEPT !.hint = ScanHint(@, acc.hole, acc.i)]
           skb == at.rtx[acc.i]
           quota == at.cwnd - InFlight(at)
           segs == Min({quota, MaxSegs})
           r == RetransmitSkb(at, acc.i, segs, [env EXCEPT !.room = acc.room])
           re == acc.rearm \/ (acc.i = 1 /\ at.pending # "reo")
           ho == acc.hole \/ ~(skb.lost \/ skb.acked \/ skb.retrans)
           i == acc.i
<1>1. acc \in T /\ Scanned(s, acc.sk, i, f)
  BY DEF Scans
<1>2. \A x : x \in T /\ Scanned(s, x.sk, x.i, f) => x \in Scans(s, f)
  BY DEF Scans
<1>3. \A t, k : Scanned(s, t, k, f) => t \in Sockets /\ Good(t, f)
  BY GoodFacts DEF Scanned, RtxOnly
<1>4. CASE ~acc.go \/ acc.i > Len(acc.sk.rtx)
  BY <1>4 DEF VisitRtx
<1>5. CASE ~(~acc.go \/ acc.i > Len(acc.sk.rtx)) /\ acc.room = 0 /\ env.how = "early"
  <2>1. VisitRtx(acc, env) = [acc EXCEPT !.sk = acc.sk, !.go = FALSE]
    BY <1>5 DEF VisitRtx
  <2>2. VisitRtx(acc, env) \in T /\ VisitRtx(acc, env).sk = acc.sk /\ VisitRtx(acc, env).i = i
    BY <1>1, <2>1
  <2> QED BY <1>1, <1>2, <2>2
<1>6. CASE ~(~acc.go \/ acc.i > Len(acc.sk.rtx)) /\ ~(acc.room = 0 /\ env.how = "early")
  <2>1. i <= Len(acc.sk.rtx)
    <3>1. Len(acc.sk.rtx) \in Nat
      BY <1>1, <1>3, GoodFacts
    <3> QED BY <1>1, <1>6, <3>1
  <2>2. Scanned(s, at, i, f) /\ at.rtx = acc.sk.rtx
    <3> DEFINE u == acc.sk
               o == acc.hole
    <3>1. Scanned(s, u, i, f) /\ i <= Len(u.rtx)
      BY <1>1, <2>1
    <3>2. at = [u EXCEPT !.hint = ScanHint(@, o, i)]
      OBVIOUS
    <3> HIDE DEF u, o, i, at
    <3>3. Scanned(s, at, i, f) /\ at.rtx = u.rtx
      BY <3>1, <3>2, ScanIs
    <3> QED BY <3>3 DEF u
  <2>3. at \in Sockets /\ Good(at, f) /\ i \in 1..Len(at.rtx) /\ i <= Len(at.rtx)
    <3>1. at \in Sockets /\ Good(at, f)
      BY <1>3, <2>2
    <3>2. i \in 1..Len(at.rtx)
      <4>1. Len(acc.sk.rtx) \in Nat /\ i \in Nat \ {0}
        BY <1>1, <1>3, GoodFacts
      <4> QED BY <2>1, <2>2, <4>1
    <3> QED BY <2>1, <2>2, <3>1, <3>2
  <2>4. skb \in SkbRec
    BY <2>3, GoodBuf DEF Skb
  <2>5. skb.lost \in BOOLEAN /\ skb.acked \in BOOLEAN /\ skb.retrans \in BOOLEAN
    BY <2>4, SkbFields
  <2>6. re \in BOOLEAN /\ ho \in BOOLEAN
    BY <1>1, <2>5
  <2>7. i + 1 \in Nat \ {0} /\ acc.room - 1 \in Int
    BY <1>1
  <2>8. acc.hole \in BOOLEAN /\ skb = at.rtx[i]
    BY <1>1
  <2> DEFINE V == VisitRtx(acc, env)
  <2>9. CASE quota <= 0 \/ at.retrans_out >= at.lost_out
    <3>1. V = [acc EXCEPT !.sk = at, !.go = FALSE]
      BY <1>6, <2>9 DEF VisitRtx
    <3> HIDE DEF at, V
    <3>2. V \in T /\ V.sk = at /\ V.i = i
      BY <1>1, <2>3, <3>1
    <3>3. V \in Scans(s, f)
      BY <1>2, <2>2, <3>2
    <3> QED BY <3>3 DEF V
  <2>10. CASE ~(quota <= 0 \/ at.retrans_out >= at.lost_out)
              /\ (~skb.lost \/ skb.acked \/ skb.retrans)
    <3>1. V = [acc EXCEPT !.sk = at, !.i = i + 1, !.hole = ho]
      BY <1>6, <2>10 DEF VisitRtx
    <3>2. ~Waits(at.rtx[i])
      BY <2>10 DEF Waits
    <3> HIDE DEF at, V, ho
    <3>3. Scanned(s, at, i + 1, f)
      BY <2>2, <2>3, <3>2, ScanPassed
    <3>4. V \in T /\ V.sk = at /\ V.i = i + 1
      BY <1>1, <2>3, <2>6, <2>7, <3>1
    <3>5. V \in Scans(s, f)
      BY <1>2, <3>3, <3>4
    <3> QED BY <3>5 DEF V
  <2>11. CASE ~(quota <= 0 \/ at.retrans_out >= at.lost_out)
              /\ ~(~skb.lost \/ skb.acked \/ skb.retrans)
    <3>1. V = IF ~r.ok THEN [acc EXCEPT !.sk = r.sk, !.go = FALSE]
              ELSE [acc EXCEPT !.sk = r.sk, !.i = i + 1, !.room = acc.room - 1, !.rearm = re]
      BY <1>6, <2>11 DEF VisitRtx
    <3>2. skb.lost /\ ~skb.retrans
      BY <2>11
    <3>3. segs \in Nat
      <4>1. at.cwnd \in Int
        <5> HIDE DEF at
        <5>1. at.cwnd \in Nat \ {0}
          BY <2>3, SocketFields
        <5> QED BY <5>1
      <4>2. InFlight(at) \in Int
        BY <2>3, GoodCounts
      <4>3. quota \in Nat
        BY <2>11, <4>1, <4>2
      <4> HIDE DEF quota
      <4> QED BY <4>3, MinPair, SenderAssumption
    <3> HIDE DEF segs
    <3>4. RetransmitResult(at, r, i, f)
      <4> HIDE DEF at
      <4> QED BY <2>3, <3>2, <3>3, RetransmitSkbIs
    <3> HIDE DEF at, r, V, re
    <3>5. CASE r.ok
      <4>1. Resent(at, r.sk, i, f)
        BY <3>4, <3>5 DEF RetransmitResult
      <4>2. Scanned(s, r.sk, i + 1, f)
        BY <2>2, <2>3, <4>1, ScanResent
      <4>3. r.sk \in Sockets
        BY <1>3, <4>2
      <4>4. V = [acc EXCEPT !.sk = r.sk, !.i = i + 1, !.room = acc.room - 1, !.rearm = re]
        BY <3>1, <3>5
      <4>5. V \in T /\ V.sk = r.sk /\ V.i = i + 1
        BY <1>1, <2>6, <2>7, <4>3, <4>4
      <4>6. V \in Scans(s, f)
        BY <1>2, <4>2, <4>5
      <4> QED BY <4>6 DEF V
    <3>6. CASE ~r.ok
      <4>1. RtxWork(at, r.sk, i, f)
        BY <3>4, <3>6 DEF RetransmitResult
      <4>2. Scanned(s, r.sk, i, f)
        BY <2>2, <2>3, <4>1, ScanFailed
      <4>3. r.sk \in Sockets
        BY <1>3, <4>2
      <4>4. V = [acc EXCEPT !.sk = r.sk, !.go = FALSE]
        BY <3>1, <3>6
      <4>5. V \in T /\ V.sk = r.sk /\ V.i = i
        BY <1>1, <4>3, <4>4
      <4>6. V \in Scans(s, f)
        BY <1>2, <4>2, <4>5
      <4> QED BY <4>6 DEF V
    <3> QED BY <3>5, <3>6
  <2> QED BY <2>9, <2>10, <2>11
<1> QED BY <1>4, <1>5, <1>6

\* t is s after tcp_xmit_retransmit_queue.
Rescued(s, t, f) ==
    /\ Good(t, f) /\ Frame(s, t)
    /\ t.wq = s.wq /\ t.nxt = s.nxt /\ t.ca = s.ca /\ t.tlp = s.tlp /\ t.cwnd = s.cwnd
    /\ t.rtx = <<>> <=> s.rtx = <<>>
    /\ t.pending = s.pending \/ (t.pending = "retrans" /\ s.rtx # <<>>)

\* The scan as a whole.
LEMMA XmitRetransmitIs ==
  ASSUME NEW s, NEW f, Good(s, f), NEW env, env.room \in Int
  PROVE  Rescued(s, XmitRetransmitQueue(s, env), f)
<1> DEFINE Op(acc, k) == VisitRtx(acc, env)
           n == MaxData + 2
           base == [sk |-> s, i |-> Max({s.hint, 1}), hole |-> FALSE,
                    room |-> env.room, rearm |-> FALSE, go |-> TRUE]
           S == Scans(s, f)
           F == [p \in S \X (1..n) |-> Op(p[1], p[2])]
           Is(g) == g = [k \in 0..n |-> IF k = 0 THEN base ELSE Op(g[k - 1], k)]
<1>1. s \in Sockets /\ n \in Nat /\ s.hint \in Nat /\ HintOK(s) /\ s.rtx \in Seq(Skb)
      /\ Len(s.rtx) \in Nat
  <2>1. n \in Nat
    BY SenderAssumption
  <2> QED BY <2>1, GoodFacts
<1>2. s.packets_out = 0 <=> s.rtx = <<>>
  BY GoodCounts
<1>3. CASE s.packets_out = 0
  BY <1>3 DEF XmitRetransmitQueue, Rescued, Frame
<1>4. CASE s.packets_out # 0
  <2>1. s.rtx # <<>> /\ Len(s.rtx) >= 1
    BY <1>1, <1>2, <1>4, SeqFacts
  <2>2. base \in S
    <3> DEFINE m == Max({s.hint, 1})
    <3>1. m = IF s.hint >= 1 THEN s.hint ELSE 1
      <4>1. s.hint \in Int /\ 1 \in Int
        BY <1>1
      <4> QED BY ONLY <4>1, MinPair DEF m
    <3>2. m \in Nat \ {0} /\ m <= Len(s.rtx) + 1 /\ Settled(s.rtx, m)
      <4> HIDE DEF m
      <4>1. m \in Nat \ {0} /\ m <= Len(s.rtx) + 1
        BY <1>1, <2>1, <3>1 DEF HintOK
      <4>2. Settled(s.rtx, 1)
        BY DEF Settled
      <4>3. Settled(s.rtx, m)
        BY <1>1, <3>1, <4>2 DEF HintOK
      <4> QED BY <4>1, <4>3
    <3>3. RtxOnly(s, s, f)
      BY RtxOnlySame
    <3> HIDE DEF m
    <3>4. Scanned(s, s, m, f)
      BY <2>1, <3>2, <3>3 DEF Scanned
    <3> QED BY <1>1, <3>2, <3>4 DEF Scans, m
  <2>3. ASSUME NEW a \in S, NEW k PROVE Op(a, k) \in S
    BY VisitIs
  <2> DEFINE e == Iterate(Op, base, n)
  <2>4. XmitRetransmitQueue(s, env)
          = [e.sk EXCEPT !.pending = IF e.rearm THEN "retrans" ELSE @]
    BY <1>4 DEF XmitRetransmitQueue
  <2> HIDE DEF Op, n, base, S
  <2>5. F \in [S \X (1..n) -> S]
    BY <2>3
  <2>6. \A a \in S, k \in 1..n : F[<<a, k>>] = Op(a, k)
    OBVIOUS
  <2> HIDE DEF F
  <2>7. PICK g : /\ g = [k \in 0..n |-> IF k = 0 THEN base ELSE F[<<g[k - 1], k>>]]
                /\ \A k \in 0..n : g[k] \in S
    <3>1. LoopBody(n, S, base, F)
      BY <1>1, <2>2, <2>5 DEF LoopBody
    <3>2. PICK g : LoopOf(g, n, S, base, F)
      BY <3>1, LoopExists
    <3> QED BY <3>2 DEF LoopOf
  <2>8. \A k \in 0..n : k # 0 => F[<<g[k - 1], k>>] = Op(g[k - 1], k)
    BY <1>1, <2>6, <2>7
  <2>9. Is(g)
    BY <2>7, <2>8
  <2> DEFINE h == CHOOSE o : Is(o)
  <2>10. Is(h)
    BY <2>9
  <2>11. Iterate(Op, base, n) = h[n]
    BY DEF Iterate
  <2> HIDE DEF h
  <2>12. h[0] = base /\ \A k \in 1..n : h[k] = Op(h[k - 1], k)
    BY <1>1, <2>10
  <2>13. h[n] \in S
    <3>1. n \in Nat /\ h[0] \in S /\ \A k \in 1..n : h[k - 1] \in S => h[k] \in S
      BY <1>1, <2>2, <2>3, <2>12
    <3> QED BY ONLY <3>1, Upward
  <2>14. e \in S
    BY <2>11, <2>13
  <2> HIDE DEF e
  <2>15. Scanned(s, e.sk, e.i, f) /\ e.sk \in Sockets
    BY <2>14 DEF S, Scans
  <2> DEFINE u == e.sk
             v == IF e.rearm THEN "retrans" ELSE u.pending
             t == [u EXCEPT !.pending = v]
  <2>16. Good(u, f) /\ Frame(s, u) /\ u.wq = s.wq /\ u.nxt = s.nxt /\ u.pending = s.pending
         /\ u.ca = s.ca /\ u.tlp = s.tlp /\ u.cwnd = s.cwnd /\ u.rtx # <<>>
    BY <2>15 DEF Scanned, RtxOnly
  <2> HIDE DEF u
  <2>17. v \in Pendings /\ (v = s.pending \/ v = "retrans")
    <3>1. u.pending \in Pendings
      BY <2>16, GoodFacts, SocketFields
    <3> QED BY <2>16, <3>1 DEF Pendings
  <2>18. XmitRetransmitQueue(s, env) = t
    BY <2>4 DEF u
  <2> HIDE DEF v
  <2>19. /\ t \in Sockets /\ t.una = u.una /\ t.nxt = u.nxt /\ t.wseq = u.wseq /\ t.rtx = u.rtx
         /\ t.wq = u.wq /\ SameCounts(u, t) /\ t.hint = u.hint /\ t.tx = u.tx /\ t.bug = u.bug
         /\ Frame(u, t) /\ t.pending = v /\ t.ca = u.ca /\ t.tlp = u.tlp /\ t.cwnd = u.cwnd
         /\ t.wnd = u.wnd
    BY <2>15, <2>17 DEF Sockets, SameCounts, Frame, u
  <2> HIDE DEF t
  <2>20. Good(t, f)
    BY <2>16, <2>19, GoodSame
  <2>21. Frame(s, t)
    BY <2>16, <2>19, FrameStep
  <2>22. Rescued(s, t, f)
    BY <2>1, <2>16, <2>17, <2>19, <2>20, <2>21 DEF Rescued
  <2> QED BY <2>18, <2>22
<1> QED BY <1>3, <1>4

\* t is s with the buffer at the head of the write queue on the retransmit
\* queue; the timer is armed for it.
NewSent(s, t, f) ==
    /\ Good(t, f) /\ Frame(s, t)
    /\ t.wq = Tail(s.wq) /\ t.nxt = s.wq[1].end
    /\ t.rtx # <<>> /\ t.rtx[Len(t.rtx)] = s.wq[1]
    /\ t.packets_out > s.packets_out
    /\ t.cwnd = s.cwnd /\ t.tlp = s.tlp /\ t.ca = s.ca /\ t.mtup = s.mtup
    /\ t.pending = IF s.packets_out = 0 \/ s.pending = "loss_probe"
                   THEN "retrans" ELSE s.pending

\* The buffer at the head of the write queue moves to the retransmit queue.
LEMMA EventNewDataSentIs ==
  ASSUME NEW s, NEW f, Good(s, f), s.wq # <<>>, s.wq[1].pc >= 1
  PROVE  NewSent(s, EventNewDataSent(s), f)
<1> DEFINE x == s.wq[1]
           q == Append(s.rtx, x)
           w == Tail(s.wq)
           e == x.end
           o == s.packets_out + x.pc
           p == IF s.packets_out = 0 \/ s.pending = "loss_probe" THEN "retrans" ELSE s.pending
           m == [s EXCEPT !.nxt = e, !.wq = w, !.rtx = q, !.packets_out = o]
           t == [m EXCEPT !.pending = p]
<1>1. /\ s \in Sockets /\ s.bug = FALSE /\ s.rtx \in Seq(Skb) /\ s.wq \in Seq(Skb) /\ Counted(s)
      /\ HintOK(s) /\ TxIn(s) /\ Len(s.rtx) \in Nat /\ s.una \in Nat /\ s.nxt \in Nat
      /\ SentPart(s.rtx, s.una, s.nxt, f /\ s.wq = <<>>) /\ UnsentPart(s.wq, s.nxt, s.wseq, f)
      /\ s.una <= s.nxt /\ s.hint \in Nat
  BY GoodFacts
<1>2. SentPart(s.rtx, s.una, s.nxt, FALSE)
  BY <1>1
<1>3. /\ UnsentPart(w, e, s.wseq, f) /\ x \in Skb /\ x.seq = s.nxt
      /\ x.fin => f /\ w = <<>>
      /\ Plain(x)
  BY <1>1, UnsentPopped
<1>4. x.seq \in Nat /\ x.end \in Nat /\ x.pc \in Nat /\ RtxOK(x, s.una)
  <2>1. x.seq \in Nat /\ x.end \in Nat /\ x.pc \in Nat
    BY <1>3, SkbRange
  <2> QED BY <1>1, <1>3, <2>1 DEF RtxOK
<1>5. Head(s.wq) = x
  BY <1>1, SeqEnds
<1>6. s.packets_out \in Nat /\ s.pending \in Pendings
  BY <1>1, GoodCounts, SocketFields
<1>7. o \in Int /\ o \in Nat /\ o > 0 /\ o > s.packets_out /\ o = s.packets_out + x.pc
  BY <1>4, <1>6
<1>8. p \in Pendings
  BY <1>6 DEF Pendings
<1>9. /\ SentPart(q, s.una, e, f /\ w = <<>>) /\ Len(q) = Len(s.rtx) + 1
      /\ \A k \in 1..Len(s.rtx) + 1 : q[k] = IF k = Len(s.rtx) + 1 THEN x ELSE s.rtx[k]
  <2> DEFINE r == s.rtx
             u == s.una
             n == s.nxt
             ff == f /\ w = <<>>
  <2>1. SentPart(r, u, n, FALSE) /\ x \in Skb /\ RtxOK(x, u) /\ x.seq = n /\ (x.fin => ff)
    BY <1>2, <1>3, <1>4
  <2> HIDE DEF r, u, n, x, ff
  <2>2. SentPart(Append(r, x), u, x.end, ff)
    BY ONLY <2>1, SentGrown
  <2>3. Len(Append(s.rtx, x)) = Len(s.rtx) + 1
        /\ \A k \in 1..Len(s.rtx) + 1 :
             Append(s.rtx, x)[k] = IF k = Len(s.rtx) + 1 THEN x ELSE s.rtx[k]
    BY <1>1, <2>1, Appended
  <2> QED BY <2>2, <2>3 DEF r, u, ff
<1>10. q \in Seq(Skb) /\ q # <<>> /\ w \in Seq(Skb) /\ e \in Nat
  <2>1. q \in Seq(Skb)
    BY <1>9 DEF SentPart
  <2>2. q # <<>>
    <3> HIDE DEF q
    <3>1. Len(q) # 0
      BY <1>1, <1>9
    <3> QED BY <2>1, <3>1, SeqFacts
  <2> QED BY <1>3, <1>4, <2>1, <2>2 DEF UnsentPart
<1>11. EventNewDataSent(s) = IF s.packets_out = 0 \/ s.pending = "loss_probe"
                             THEN RearmRto(m) ELSE m
  BY <1>5 DEF EventNewDataSent
<1>12. w = Tail(s.wq) /\ e = s.wq[1].end /\ x = s.wq[1]
  OBVIOUS
<1> HIDE DEF q, w, e, o, x
<1>13. /\ m \in Sockets /\ m.packets_out = o /\ m.pending = s.pending
  BY <1>1, <1>7, <1>10 DEF Sockets
<1>14. EventNewDataSent(s) = t
  <2>1. CASE s.packets_out = 0 \/ s.pending = "loss_probe"
    <3>1. p = "retrans"
      BY <2>1
    <3>2. RearmRto(m) = [m EXCEPT !.pending = "retrans"]
      <4> HIDE DEF m
      <4>1. m.packets_out # 0
        BY <1>7, <1>13
      <4> QED BY <4>1 DEF RearmRto
    <3> QED BY <1>11, <2>1, <3>1, <3>2
  <2>2. CASE ~(s.packets_out = 0 \/ s.pending = "loss_probe")
    <3>1. p = s.pending
      BY <2>2
    <3>2. m = [m EXCEPT !.pending = s.pending]
      BY <1>13 DEF Sockets
    <3> QED BY <1>11, <2>2, <3>1, <3>2
  <2> QED BY <2>1, <2>2
<1>15. p = IF s.packets_out = 0 \/ s.pending = "loss_probe" THEN "retrans" ELSE s.pending
  OBVIOUS
<1> HIDE DEF p
<1>16. /\ t \in Sockets /\ Frame(s, t) /\ t.rtx = q /\ t.wq = w /\ t.nxt = e
       /\ t.packets_out = o /\ t.lost_out = s.lost_out /\ t.retrans_out = s.retrans_out
       /\ t.sacked_out = s.sacked_out /\ t.hint = s.hint /\ t.tx = s.tx /\ t.bug = s.bug
       /\ t.cwnd = s.cwnd /\ t.tlp = s.tlp /\ t.ca = s.ca /\ t.mtup = s.mtup /\ t.pending = p
       /\ t.una = s.una /\ t.wseq = s.wseq /\ t.wnd = s.wnd
  BY <1>1, <1>7, <1>8, <1>10 DEF Sockets, Frame
<1> HIDE DEF m, t
<1>17. Counted(t)
  <2> SUFFICES ASSUME NEW c \in Marks PROVE Sums(t.rtx, c, Counter(t, c))
    BY DEF Counted
  <2>1. Sums(s.rtx, c, Counter(s, c))
    BY <1>1 DEF Counted
  <2>2. Sums(q, c, Counter(s, c) + Weight(x, c))
    BY <1>1, <1>3, <1>9, <1>10, <2>1, SumsAppend
  <2>3. Counter(s, c) + Weight(x, c) = Counter(t, c)
    <3>1. Counter(s, c) \in Int
      BY <1>1, CounterInt
    <3>2. CASE c = "out"
      BY <1>4, <1>7, <1>16, <3>1, <3>2, Weights DEF Counter, Weight, Has
    <3>3. CASE c # "out"
      <4>1. Weight(x, c) = 0
        BY <1>3, <3>3 DEF Weight, Has, Plain
      <4> QED BY <1>16, <3>1, <3>3, <4>1 DEF Counter
    <3> QED BY <3>2, <3>3
  <2> QED BY <1>16, <2>2, <2>3
<1>18. HintOK(t)
  <2>1. s.hint <= Len(s.rtx) /\ \A k \in 1..s.hint - 1 : ~Waits(s.rtx[k])
    BY <1>1 DEF HintOK, Settled
  <2>2. \A k \in 1..s.hint - 1 : k \in 1..Len(s.rtx) + 1 /\ k # Len(s.rtx) + 1
    BY <1>1, <2>1
  <2>3. \A k \in 1..s.hint - 1 : ~Waits(q[k])
    BY <1>9, <2>1, <2>2
  <2> QED BY <1>1, <1>9, <1>16, <2>1, <2>3 DEF HintOK, Settled
<1>19. Good(t, f)
  BY <1>1, <1>3, <1>9, <1>16, <1>17, <1>18 DEF Good, GoodAt, TxIn
<1>20. t.rtx[Len(t.rtx)] = s.wq[1]
  <2>1. Len(s.rtx) + 1 \in 1..Len(s.rtx) + 1
    BY <1>1
  <2>2. q[Len(s.rtx) + 1] = x
    BY <1>9, <2>1
  <2> QED BY <1>9, <1>12, <1>16, <2>2
<1>21. NewSent(s, t, f)
  BY <1>7, <1>10, <1>12, <1>15, <1>16, <1>19, <1>20 DEF NewSent
<1> QED BY <1>14, <1>21

-----------------------------------------------------------------------------
(* The write queue *)

\* t is s after work on buffers that were not sent.
WqStep(s, t, f) ==
    /\ Good(t, f) /\ Frame(s, t) /\ SameTimers(s, t) /\ SameCounts(s, t)
    /\ t.rtx = s.rtx /\ t.nxt = s.nxt /\ t.hint = s.hint /\ t.tx = s.tx
    /\ s.wq # <<>> /\ t.wq # <<>>

\* Another write queue over the same range.
LEMMA WqSet ==
  ASSUME NEW s, NEW f, Good(s, f), s.wq # <<>>, NEW w, w # <<>>,
         UnsentPart(w, s.nxt, s.wseq, f)
  PROVE  WqStep(s, [s EXCEPT !.wq = w], f) /\ [s EXCEPT !.wq = w].wq = w
<1> DEFINE t == [s EXCEPT !.wq = w]
<1>1. s \in Sockets /\ Counted(s) /\ HintOK(s) /\ TxIn(s) /\ s.bug = FALSE
      /\ SentPart(s.rtx, s.una, s.nxt, f /\ s.wq = <<>>)
  BY GoodFacts
<1>2. w \in Seq(Skb)
  BY DEF UnsentPart
<1>3. /\ t \in Sockets /\ Frame(s, t) /\ SameTimers(s, t) /\ SameCounts(s, t)
      /\ t.rtx = s.rtx /\ t.wq = w /\ t.nxt = s.nxt /\ t.hint = s.hint
      /\ t.tx = s.tx /\ t.bug = s.bug /\ t.una = s.una /\ t.wseq = s.wseq /\ t.wnd = s.wnd
  BY <1>1, <1>2 DEF Sockets, Frame, SameTimers, SameCounts
<1> HIDE DEF t
<1>4. (f /\ s.wq = <<>>) = FALSE /\ (f /\ t.wq = <<>>) = FALSE
  BY <1>3
<1>5. SentPart(t.rtx, t.una, t.nxt, f /\ t.wq = <<>>)
  BY <1>1, <1>3, <1>4
<1>6. Counted(t)
  BY <1>1, <1>3 DEF Counted, Counter, SameCounts
<1>7. Good(t, f)
  BY <1>1, <1>3, <1>5, <1>6 DEF Good, GoodAt, HintOK, TxIn
<1>8. WqStep(s, t, f)
  BY <1>3, <1>7 DEF WqStep
<1> QED BY <1>3, <1>8 DEF t

\* The buffer at the head of the write queue.
LEMMA WqHead ==
  ASSUME NEW s, NEW f, Good(s, f), s.wq # <<>>
  PROVE  /\ Head(s.wq) = s.wq[1] /\ s.wq[1] \in Skb /\ Plain(s.wq[1])
         /\ s.wq[1].seq = s.nxt /\ s.wq[1].end \in Nat /\ s.wq[1].end <= s.wseq
         /\ s.wq[1].seq \in Nat /\ s.wq[1].pc \in Nat /\ s.wq[1].fin \in BOOLEAN
         /\ s.wq[1].seq <= s.wq[1].end
         /\ Size(s.wq[1]) \in Int /\ Size(s.wq[1]) >= 0
         /\ s.wq[1].fin => f
<1>1. s.wq \in Seq(Skb) /\ UnsentPart(s.wq, s.nxt, s.wseq, f)
  BY GoodFacts
<1>2. s.wq[1] \in Skb /\ Plain(s.wq[1]) /\ s.wq[1].seq = s.nxt
      /\ UnsentPart(Tail(s.wq), s.wq[1].end, s.wseq, f) /\ (s.wq[1].fin => f)
  BY <1>1, UnsentPopped
<1>3. Head(s.wq) = s.wq[1]
  BY <1>1, SeqEnds
<1>4. s.wq[1].end <= s.wseq
  BY <1>2 DEF UnsentPart
<1>5. s.wq[1].end \in Nat /\ s.wq[1].seq \in Nat /\ s.wq[1].pc \in Nat /\ s.wq[1].fin \in BOOLEAN
      /\ s.wq[1].seq <= s.wq[1].end
  BY <1>2, SkbRange
<1>6. Size(s.wq[1]) \in Int /\ Size(s.wq[1]) >= 0
  BY <1>2, SkbFields DEF Skb
<1> QED BY <1>2, <1>3, <1>4, <1>5, <1>6

\* Counting the segments of the first buffer.
LEMMA WqCounted ==
  ASSUME NEW s, NEW f, Good(s, f), s.wq # <<>>, NEW x \in Skb, SameRange(x, s.wq[1])
  PROVE  LET t == [s EXCEPT !.wq = Spliced(@, 1, <<x>>)]
         IN WqStep(s, t, f) /\ t.wq[1] = x /\ Len(t.wq) = Len(s.wq)
<1> DEFINE q == s.wq
           n == s.nxt
           e == s.wseq
           w == Spliced(q, 1, <<x>>)
<1>1. UnsentPart(q, n, e, f) /\ q # <<>> /\ x \in Skb /\ x.seq = q[1].seq /\ x.end = q[1].end
      /\ x.fin = q[1].fin /\ Plain(x)
  BY GoodFacts, WqHead DEF SameRange, Plain
<1> HIDE DEF q, n, e
<1>2. UnsentPart(w, n, e, f) /\ Len(w) = Len(q) /\ w[1] = x
  BY ONLY <1>1, UnsentReplaced
<1>3. w # <<>>
  <2>1. w \in Seq(Skb) /\ q \in Seq(Skb)
    BY <1>1, <1>2 DEF UnsentPart
  <2> HIDE DEF w
  <2> QED BY <1>1, <1>2, <2>1, SeqFacts
<1> HIDE DEF w
<1>4. WqStep(s, [s EXCEPT !.wq = w], f) /\ [s EXCEPT !.wq = w].wq = w
  <2>1. s.wq # <<>> /\ UnsentPart(w, s.nxt, s.wseq, f)
    BY <1>2 DEF n, e
  <2> QED BY <1>3, <2>1, WqSet
<1> QED BY <1>2, <1>4 DEF w, q

\* t is s with the first buffer of the write queue cut after len bytes.
ShortHead(s, t, len, f) ==
    /\ WqStep(s, t, f) /\ t.wq[1].pc >= 1
    /\ t.wq[1].end = s.wq[1].seq + len /\ t.wq[1].fin = FALSE

\* Cutting the first buffer.
LEMMA TsoFragmentIs ==
  ASSUME NEW s, NEW f, Good(s, f), s.wq # <<>>, NEW len \in Nat, NEW mss \in Nat \ {0},
         len <= Size(s.wq[1]), Size(s.wq[1]) > 0
  PROVE  ShortHead(s, [s EXCEPT !.wq = Spliced(@, 1, Halves(@[1], len, mss))], len, f)
<1> DEFINE q == s.wq
           n == s.nxt
           e == s.wseq
           b == q[1]
           p == Halves(b, len, mss)
           w == Spliced(q, 1, p)
<1>1. UnsentPart(q, n, e, f) /\ q # <<>> /\ b \in Skb /\ Plain(b)
  BY GoodFacts, WqHead
<1>2. PICK x, y \in Skb :
           /\ Halves(b, len, mss) = <<x, y>>
           /\ x.seq = b.seq /\ x.end = b.seq + len /\ x.fin = FALSE
           /\ y.seq = b.seq + len /\ y.end = b.end /\ y.fin = b.fin
           /\ x.acked = b.acked /\ x.retrans = b.retrans /\ x.lost = b.lost
           /\ y.acked = b.acked /\ y.retrans = b.retrans /\ y.lost = b.lost
           /\ x.pc >= 1 /\ y.pc >= 1
           /\ x.pc > 1 <=> len > mss
           /\ x.syn = FALSE /\ y.syn = FALSE
  <2>1. len <= Size(b) /\ Size(b) > 0
    OBVIOUS
  <2> HIDE DEF b
  <2> QED BY <1>1, <2>1, HalvesIs
<1>3. p = <<x, y>> /\ x.seq = q[1].seq /\ x.end = y.seq /\ y.end = q[1].end /\ x.fin = FALSE
      /\ y.fin = q[1].fin /\ Plain(x) /\ Plain(y) /\ x \in Skb /\ y \in Skb
  BY <1>1, <1>2 DEF Plain
<1> HIDE DEF q, n, e, p, b
<1>4. UnsentPart(w, n, e, f) /\ Len(w) = Len(q) + 1 /\ w[1] = x
  <2>1. UnsentPart(w, n, e, f)
    BY ONLY <1>1, <1>3, UnsentCut
  <2>2. Len(w) = Len(q) + 1
    BY ONLY <1>1, <1>3, UnsentCut
  <2>3. w[1] = x
    <3>1. q \in Seq(Skb) /\ Len(q) \in Nat \ {0}
      BY <1>1, SeqEnds DEF UnsentPart
    <3>2. 1 \in 1..Len(q) /\ 1 \in 1..Len(q) + 1 /\ ~(1 < 1)
      BY <3>1
    <3>3. \A k \in 1..Len(q) + 1 : w[k] = IF k < 1 THEN q[k] ELSE IF k = 1 THEN x
                                          ELSE IF k = 1 + 1 THEN y ELSE q[k - 1]
      BY ONLY <1>3, <3>1, <3>2, SplicedTwo
    <3> HIDE DEF w
    <3> QED BY <3>2, <3>3
  <2> QED BY <2>1, <2>2, <2>3
<1>5. w # <<>>
  <2>1. w \in Seq(Skb) /\ q \in Seq(Skb)
    BY <1>1, <1>4 DEF UnsentPart
  <2>2. Len(q) \in Nat
    BY <2>1, SeqFacts
  <2> HIDE DEF w
  <2>3. Len(w) # 0
    BY <1>4, <2>2
  <2> QED BY <2>1, <2>3, SeqFacts
<1> HIDE DEF w
<1>6. WqStep(s, [s EXCEPT !.wq = w], f) /\ [s EXCEPT !.wq = w].wq = w
  BY <1>1, <1>4, <1>5, WqSet DEF q, n, e
<1>7. [s EXCEPT !.wq = Spliced(@, 1, Halves(@[1], len, mss))] = [s EXCEPT !.wq = w]
  BY DEF w, p, b, q
<1>8. x.end = s.wq[1].seq + len /\ x.fin = FALSE
  BY <1>2 DEF b, q
<1> QED BY <1>2, <1>4, <1>6, <1>7, <1>8 DEF ShortHead

\* What was sent last, but for a FIN, is inside the window; so is what is next.
LastFits(s) == s.nxt - Bit(s.rtx[Len(s.rtx)].fin) <= s.una + s.wnd
HeadFits(s) == s.wq[1].end - Bit(s.wq[1].fin) <= s.una + s.wnd

\* t is s after some of the write queue was, or was not, sent.  When something
\* was, a timer is armed for it.
Wrote(s, t, f) ==
    /\ Good(t, f) /\ Frame(s, t) /\ t.ca = s.ca /\ t.tlp = s.tlp
    /\ \/ /\ t.rtx = s.rtx /\ t.packets_out = s.packets_out /\ t.pending = s.pending
          /\ t.wq = <<>> <=> s.wq = <<>>
          /\ t.nxt = s.nxt
       \/ /\ t.rtx # <<>> /\ t.packets_out > s.packets_out /\ LastFits(t)
          /\ t.pending \in {"retrans", "loss_probe"} \/ (t.pending = s.pending /\ s.rtx # <<>>)

\* What was sent beyond n is inside the window, or only a FIN.
NewIn(n, t) == t.nxt = n \/ LastFits(t) \/ t.nxt - Bit(t.rtx[Len(t.rtx)].fin) = n

\* Only the queue sent, the window and what is acknowledged matter.
LEMMA NewInSame ==
  ASSUME NEW n, NEW s, NEW t, NewIn(n, s), t.nxt = s.nxt, t.rtx = s.rtx, t.una = s.una,
         t.wnd = s.wnd
  PROVE  NewIn(n, t)
BY DEF NewIn, LastFits

\* A write sends inside the window.
LEMMA WroteNew ==
  ASSUME NEW s, NEW t, NEW f, Wrote(s, t, f)
  PROVE  NewIn(s.nxt, t)
BY DEF NewIn, Wrote

\* Nothing was sent.
LEMMA WroteSame ==
  ASSUME NEW s, NEW f, Good(s, f)
  PROVE  Wrote(s, s, f)
BY DEF Wrote, Frame

\* Two writes in a row.
LEMMA WroteTwice ==
  ASSUME NEW s, NEW t, NEW u, NEW f, Good(s, f), Wrote(s, t, f), Wrote(t, u, f)
  PROVE  Wrote(s, u, f)
<1>1. Good(t, f) /\ Good(u, f) /\ Frame(s, t) /\ Frame(t, u)
      /\ t.ca = s.ca /\ t.tlp = s.tlp /\ u.ca = t.ca /\ u.tlp = t.tlp
  BY DEF Wrote
<1>2. Frame(s, u)
  BY <1>1, FrameStep
<1>3. s.packets_out \in Int /\ t.packets_out \in Int /\ u.packets_out \in Int
  BY <1>1, GoodFacts
<1>4. u.rtx = t.rtx /\ u.nxt = t.nxt /\ LastFits(t) => LastFits(u)
  BY <1>1 DEF LastFits, Frame
<1>5. \/ /\ u.rtx = s.rtx /\ u.packets_out = s.packets_out /\ u.pending = s.pending
         /\ u.wq = <<>> <=> s.wq = <<>>
         /\ u.nxt = s.nxt
      \/ /\ u.rtx # <<>> /\ u.packets_out > s.packets_out /\ LastFits(u)
         /\ u.pending \in {"retrans", "loss_probe"} \/ (u.pending = s.pending /\ s.rtx # <<>>)
  BY <1>3, <1>4 DEF Wrote
<1> QED BY <1>1, <1>2, <1>5 DEF Wrote

\* Work on buffers that were not sent is no write.
LEMMA WroteStep ==
  ASSUME NEW s, NEW t, NEW f, WqStep(s, t, f)
  PROVE  Wrote(s, t, f)
BY DEF WqStep, Wrote, SameTimers, SameCounts

\* The buffer at the head of the write queue is sent.
LEMMA SendHead ==
  ASSUME NEW s, NEW f, Good(s, f), s.wq # <<>>, s.wq[1].pc >= 1, HeadFits(s)
  PROVE  LET t == EventNewDataSent(Transmit(s, Head(s.wq)))
         IN NewSent(s, t, f) /\ Wrote(s, t, f)
<1> DEFINE x == s.wq[1]
           u == Transmit(s, x)
           t == EventNewDataSent(u)
<1>1. Head(s.wq) = x /\ x.end \in Nat /\ x.end <= s.wseq /\ x.seq \in Nat /\ x.fin \in BOOLEAN
      /\ x.pc \in Nat
  BY WqHead
<1>2. x.pc > 0 /\ x.seq \in Int /\ x.end \in Int
  BY <1>1
<1>3. SegIn(x, s.wseq, s.una, s.una + s.wnd) /\ x = s.wq[1]
  BY <1>1 DEF HeadFits, SegIn
<1> HIDE DEF x
<1>4. Transmitted(s, u, f)
  BY <1>1, <1>2, <1>3, TransmitIs
<1> HIDE DEF u
<1>5. /\ Good(u, f) /\ Frame(s, u) /\ SameTimers(s, u) /\ SameCounts(s, u)
      /\ u.rtx = s.rtx /\ u.wq = s.wq /\ u.nxt = s.nxt
  BY <1>4 DEF Transmitted
<1>6. NewSent(u, t, f)
  BY <1>5, EventNewDataSentIs
<1> HIDE DEF t
<1>7. NewSent(s, t, f)
  BY <1>5, <1>6 DEF NewSent, Frame, SameTimers, SameCounts
<1>8. s.packets_out = 0 <=> s.rtx = <<>>
  BY GoodCounts
<1>9. LastFits(t)
  <2>1. t.nxt = s.wq[1].end /\ t.rtx[Len(t.rtx)] = s.wq[1] /\ t.una = s.una /\ t.wnd = s.wnd
    BY <1>7 DEF NewSent, Frame
  <2> QED BY <2>1 DEF LastFits, HeadFits
<1>10. Wrote(s, t, f)
  BY <1>7, <1>8, <1>9 DEF NewSent, Wrote
<1> QED BY <1>1, <1>7, <1>10 DEF t, u, x

\* How many packets the congestion window admits.
LEMMA CwndQuotaIs ==
  ASSUME NEW s, NEW f, Good(s, f), NEW b
  PROVE  CwndQuota(s, b) \in Nat
<1>1. s.cwnd \in Nat \ {0} /\ InFlight(s) \in Nat
  BY GoodFacts, GoodCounts
<1> DEFINE c == s.cwnd
           i == InFlight(s)
           h == c \div 2
           a == Max({h, 1})
           m == Min({a, c - i})
<1>2. c \in Nat /\ i \in Nat
  BY <1>1
<1>3. CwndQuota(s, b) = IF b.fin /\ b.pc = 1 THEN 1 ELSE IF i >= c THEN 0 ELSE m
  BY DEF CwndQuota
<1> HIDE DEF c, i
<1>4. h \in Int /\ h \in Nat
  <2>1. 2 \in Nat \ {0}
    OBVIOUS
  <2> QED BY <1>2, <2>1, Quotient
<1> HIDE DEF h
<1>5. a \in Nat
  <2>1. a = IF h >= 1 THEN h ELSE 1
    <3>1. h \in Int /\ 1 \in Int
      BY <1>4
    <3> QED BY ONLY <3>1, MinPair DEF a
  <2> QED BY <1>4, <2>1
<1> HIDE DEF a
<1>6. ASSUME ~(i >= c) PROVE m \in Nat
  <2> DEFINE d == c - i
  <2>1. a \in Int /\ d \in Int /\ d \in Nat
    BY <1>2, <1>5, <1>6
  <2> HIDE DEF d
  <2>2. Min({a, d}) = IF a <= d THEN a ELSE d
    BY ONLY <2>1, MinPair
  <2> QED BY <1>5, <2>1, <2>2 DEF d
<1> HIDE DEF m
<1> QED BY <1>3, <1>6

\* Where a buffer is cut that does not fit: inside the window.
LEMMA MssSplitPointIs ==
  ASSUME NEW s, NEW f, Good(s, f), NEW b \in Skb, NEW mss \in Nat \ {0}, NEW segs \in Nat,
         NEW nonagle, Size(b) > mss, SndWndTest(s, b, mss)
  PROVE  /\ MssSplitPoint(s, b, mss, segs, nonagle) \in Nat
         /\ b.seq + MssSplitPoint(s, b, mss, segs, nonagle) <= WndEnd(s)
<1> DEFINE window == WndEnd(s) - b.seq
           z == Size(b)
           needed == Min({z, window})
           part == needed % mss
<1>1. b.seq \in Nat /\ z \in Int /\ WndEnd(s) \in Nat
  <2>1. s.una \in Nat /\ s.wnd \in Nat
    BY GoodFacts
  <2>2. b \in SkbRec
    BY DEF Skb
  <2> QED BY <2>1, <2>2, SkbFields DEF WndEnd
<1>2. b.seq + mss <= WndEnd(s)
  BY DEF SndWndTest
<1>3. window \in Nat /\ z \in Nat /\ window \in Int
  BY <1>1, <1>2
<1>4. MssSplitPoint(s, b, mss, segs, nonagle)
        = IF \/ mss * segs <= window /\ ~IsLast(s)
             \/ mss * segs <= needed THEN mss * segs
          ELSE IF NagleCheck(s, part # 0, nonagle) THEN needed - part
          ELSE needed
  BY DEF MssSplitPoint
<1> HIDE DEF window, z
<1>5. window = WndEnd(s) - b.seq
  BY DEF window
<1>6. needed \in Nat /\ needed <= window
  <2>1. needed = IF z <= window THEN z ELSE window
    BY ONLY <1>1, <1>3, MinPair DEF needed
  <2> QED BY <1>3, <2>1
<1> HIDE DEF needed
<1>7. part \in Nat /\ part <= needed
  <2>1. part \in 0..mss - 1 /\ part <= needed
    BY <1>6, Quotient
  <2> HIDE DEF part
  <2> QED BY <2>1
<1> HIDE DEF part
<1>8. mss * segs \in Nat
  BY Product
<1>9. needed - part \in Nat /\ needed - part <= needed
  BY <1>6, <1>7
<1> DEFINE p == MssSplitPoint(s, b, mss, segs, nonagle)
<1>10. \/ p = mss * segs /\ (mss * segs <= window \/ mss * segs <= needed)
       \/ p = needed - part
       \/ p = needed
  BY <1>4
<1> HIDE DEF p
<1>11. p \in Nat /\ p <= window
  <2>1. CASE p = mss * segs /\ (mss * segs <= window \/ mss * segs <= needed)
    <3> DEFINE ms == mss * segs
    <3>1. ms \in Nat /\ p = ms /\ (ms <= window \/ ms <= needed)
      BY <1>8, <2>1
    <3> HIDE DEF ms
    <3> QED BY <1>3, <1>6, <3>1
  <2>2. CASE p = needed - part
    BY <1>3, <1>6, <1>9, <2>2
  <2>3. CASE p = needed
    BY <1>6, <2>3
  <2> QED BY <1>10, <2>1, <2>2, <2>3
<1>12. b.seq + p <= WndEnd(s)
  BY <1>1, <1>3, <1>5, <1>11
<1> QED BY <1>11, <1>12 DEF p

\* What the loop of tcp_write_xmit carries from buffer to buffer.
Writes(s, f) ==
    {acc \in [sk : Sockets, room : Int, sent : Nat, go : BOOLEAN] :
       /\ Wrote(s, acc.sk, f)
       /\ acc.sent # 0 => acc.sk.rtx # <<>> /\ acc.sk.packets_out > s.packets_out}

\* The first buffer as tcp_tso_fragment leaves it, when it is cut.
CutHead(s, t, f) == WqStep(s, t, f) /\ t.wq[1].pc >= 1

\* tcp_tso_fragment, when the first buffer is above the limit.
LEMMA CutHeadIs ==
  ASSUME NEW s, NEW f, Good(s, f), s.wq # <<>>, s.wq[1].pc >= 1, NEW limit \in Nat,
         NEW mss \in Nat \ {0}
  PROVE  LET t == IF Size(s.wq[1]) > limit THEN TsoFragment(s, limit, mss) ELSE s
         IN /\ CutHead(s, t, f)
            /\ ~s.wq[1].syn /\ s.wq[1].seq + limit <= s.una + s.wnd => HeadFits(t)
<1>1. Size(s.wq[1]) \in Int /\ s.wq[1].seq \in Nat /\ s.wq[1].end \in Nat
  BY WqHead
<1>2. s.una \in Nat /\ s.wnd \in Nat
  BY GoodFacts
<1>3. CASE Size(s.wq[1]) > limit
  <2>1. limit <= Size(s.wq[1]) /\ Size(s.wq[1]) > 0
    BY <1>1, <1>3
  <2>2. TsoFragment(s, limit, mss) = [s EXCEPT !.wq = Spliced(@, 1, Halves(@[1], limit, mss))]
    BY DEF TsoFragment
  <2> DEFINE t == TsoFragment(s, limit, mss)
  <2>3. ShortHead(s, t, limit, f)
    BY <2>1, <2>2, TsoFragmentIs
  <2> HIDE DEF t
  <2>4. /\ CutHead(s, t, f) /\ t.wq[1].end = s.wq[1].seq + limit /\ t.wq[1].fin = FALSE
        /\ t.una = s.una /\ t.wnd = s.wnd
    BY <2>3 DEF ShortHead, CutHead, WqStep, Frame
  <2>5. Bit(t.wq[1].fin) = 0
    BY <2>4 DEF Bit
  <2>6. s.wq[1].seq + limit <= s.una + s.wnd => HeadFits(t)
    BY <1>1, <1>2, <2>4, <2>5 DEF HeadFits
  <2> QED BY <1>3, <2>4, <2>6 DEF t
<1>4. CASE ~(Size(s.wq[1]) > limit)
  <2>1. CutHead(s, s, f)
    BY DEF CutHead, WqStep, Frame, SameTimers, SameCounts
  <2>2. ASSUME ~s.wq[1].syn, s.wq[1].seq + limit <= s.una + s.wnd PROVE HeadFits(s)
    <3>1. Bit(s.wq[1].fin) \in {0, 1} /\ Bit(s.wq[1].syn) = 0
      BY <2>2 DEF Bit
    <3>2. s.wq[1].end - Bit(s.wq[1].fin) = s.wq[1].seq + Size(s.wq[1])
      BY <1>1, <3>1 DEF Size
    <3> QED BY <1>1, <1>4, <1>2, <2>2, <3>2 DEF HeadFits
  <2> QED BY <1>4, <2>1, <2>2
<1> QED BY <1>3, <1>4

\* One turn of the loop.
LEMMA XmitOneIs ==
  ASSUME NEW s0, NEW f, Good(s0, f), NEW acc \in Writes(s0, f), acc.sk.wq # <<>>,
         NEW mss \in Nat \ {0}, NEW nonagle, NEW pushOne, NEW env
  PROVE  XmitOne(acc, mss, nonagle, pushOne, env) \in Writes(s0, f)
<1> DEFINE T == [sk : Sockets, room : Int, sent : Nat, go : BOOLEAN]
           a == acc.sk
           skb == InitTsoSegs(Head(a.wq), mss)
           s == [a EXCEPT !.wq = Spliced(@, 1, <<skb>>)]
           quota == Max({CwndQuota(s, skb), Bit(pushOne = 2)})
           stop(x) == [acc EXCEPT !.sk = x, !.go = FALSE]
           segs == Min({quota, MaxSegs})
           limit == IF skb.pc > 1 THEN MssSplitPoint(s, skb, mss, segs, nonagle) ELSE mss
           cut == IF Size(skb) > limit THEN TsoFragment(s, limit, mss) ELSE s
           out == Head(cut.wq)
           sent == EventNewDataSent(Transmit(cut, out))
           X == XmitOne(acc, mss, nonagle, pushOne, env)
           G == ~(acc.room = 0 /\ env.how = "early")
           H == ~(\/ quota = 0
                  \/ ~SndWndTest(s, skb, mss)
                  \/ skb.pc = 1 /\ IsLast(s) /\ ~NagleTest(s, skb, mss, nonagle)
                  \/ skb.pc > 1 /\ pushOne = 0 /\ TsoShouldDefer(s, skb, env.wait)
                  \/ acc.room = 0 /\ env.how = "mid")
<1>1. acc \in T /\ Wrote(s0, a, f) /\ Good(a, f)
      /\ (acc.sent # 0 => a.rtx # <<>> /\ a.packets_out > s0.packets_out)
  BY DEF Writes, Wrote
<1>2. \A x : /\ x \in T /\ Wrote(s0, x.sk, f)
             /\ x.sent # 0 => x.sk.rtx # <<>> /\ x.sk.packets_out > s0.packets_out
             => x \in Writes(s0, f)
  BY DEF Writes
<1>3. ASSUME NEW t, WqStep(a, t, f) PROVE stop(t) \in Writes(s0, f)
  <2>1. Good(t, f) /\ t.rtx = a.rtx /\ t.packets_out = a.packets_out
    BY <1>3 DEF WqStep, SameCounts
  <2>2. Wrote(s0, t, f)
    BY <1>1, <1>3, WroteStep, WroteTwice
  <2>3. t \in Sockets
    BY <2>1, GoodFacts
  <2>4. stop(t) \in T /\ stop(t).sk = t /\ stop(t).sent = acc.sent
    BY <1>1, <2>3
  <2> HIDE DEF stop
  <2> QED BY <1>1, <1>2, <2>1, <2>2, <2>4
<1>4. WqStep(a, a, f)
  BY <1>1 DEF WqStep, Frame, SameTimers, SameCounts
<1>5. CASE ~G
  <2>1. X = stop(a)
    BY <1>5 DEF XmitOne
  <2> QED BY <1>3, <1>4, <2>1
<1>6. skb \in Skb /\ SameRange(skb, a.wq[1]) /\ skb.pc >= 1 /\ (skb.pc > 1 => Size(skb) > mss)
      /\ skb.pc \in Nat /\ Size(skb) \in Int
  <2>1. Head(a.wq) = a.wq[1] /\ a.wq[1] \in Skb
    BY <1>1, WqHead
  <2>2. skb \in Skb /\ SameRange(skb, a.wq[1]) /\ skb.pc >= 1 /\ (skb.pc > 1 => Size(a.wq[1]) > mss)
        /\ Size(skb) = Size(a.wq[1])
    BY <2>1, InitTsoSegsIs
  <2> HIDE DEF skb
  <2>3. skb \in SkbRec
    BY <2>2 DEF Skb
  <2>4. skb.pc \in Nat /\ Size(skb) \in Int
    BY <2>3, SkbFields
  <2> QED BY <2>2, <2>4
<1>7. WqStep(a, s, f) /\ s.wq[1] = skb
  <2> HIDE DEF skb, a
  <2> QED BY <1>1, <1>6, WqCounted DEF a
<1>8. Good(s, f) /\ s.wq # <<>>
  <2> HIDE DEF s
  <2> QED BY <1>7 DEF WqStep
<1>9. CASE G /\ ~H
  <2>1. X = stop(s)
    BY <1>9 DEF XmitOne
  <2>2. stop(s) \in Writes(s0, f)
    <3> HIDE DEF s, stop
    <3> QED BY <1>3, <1>7
  <2> QED BY <2>1, <2>2
<1>10. CASE G /\ H
  <2>1. limit \in Nat /\ (Size(skb) > mss => skb.seq + limit <= WndEnd(s))
    <3>1. SndWndTest(s, skb, mss)
      BY <1>10
    <3>2. CASE skb.pc > 1
      <4>1. CwndQuota(s, skb) \in Nat
        <5> HIDE DEF s, skb
        <5> QED BY <1>8, CwndQuotaIs
      <4>2. Bit(pushOne = 2) \in {0, 1}
        BY DEF Bit
      <4>3. quota \in Nat
        <5> DEFINE c == CwndQuota(s, skb)
                   d == Bit(pushOne = 2)
        <5>1. c \in Int /\ d \in Int /\ c \in Nat /\ d \in Nat
          BY <4>1, <4>2
        <5> HIDE DEF c, d
        <5>2. Max({c, d}) = IF c >= d THEN c ELSE d
          BY ONLY <5>1, MinPair
        <5>3. Max({c, d}) \in Nat
          BY <5>1, <5>2
        <5> QED BY <5>3 DEF c, d
      <4> HIDE DEF quota
      <4>4. segs \in Nat
        <5>1. MaxSegs \in Nat /\ MaxSegs \in Int /\ quota \in Int
          BY <4>3, SenderAssumption
        <5>2. Min({quota, MaxSegs}) = IF quota <= MaxSegs THEN quota ELSE MaxSegs
          BY ONLY <5>1, MinPair
        <5> QED BY <4>3, <5>1, <5>2
      <4>5. SndWndTest(s, skb, mss)
        BY <1>10
      <4> HIDE DEF segs, s, skb
      <4>6. /\ MssSplitPoint(s, skb, mss, segs, nonagle) \in Nat
            /\ skb.seq + MssSplitPoint(s, skb, mss, segs, nonagle) <= WndEnd(s)
        BY <1>6, <1>8, <3>2, <4>4, <4>5, MssSplitPointIs
      <4> QED BY <3>2, <4>6
    <3>3. CASE ~(skb.pc > 1)
      <4>1. limit = mss
        BY <3>3
      <4> HIDE DEF limit, s, skb
      <4> QED BY <3>1, <4>1 DEF SndWndTest
    <3> QED BY <3>2, <3>3
  <2>2. ~(Size(skb) > mss) => skb.end <= WndEnd(s) /\ limit = mss
    <3>1. SndWndTest(s, skb, mss)
      BY <1>10
    <3>2. ~(Size(skb) > mss) => limit = mss
      <4> HIDE DEF s, skb
      <4> QED BY <1>6
    <3> HIDE DEF limit, s, skb
    <3> QED BY <3>1, <3>2 DEF SndWndTest
  <2>3. X = IF acc.room = 0 \/ out.seq = out.end THEN stop(cut)
            ELSE [sk   |-> [sent EXCEPT !.sml = IF Size(out) < out.pc * mss
                                                THEN out.end ELSE @],
                  room |-> acc.room - 1, sent |-> acc.sent + out.pc, go |-> pushOne = 0]
    BY <1>10 DEF XmitOne
  <2> HIDE DEF limit
  <2>4. CutHead(s, cut, f)
    <3> HIDE DEF s, skb
    <3>1. s.wq[1].pc >= 1
      BY <1>6, <1>7
    <3> QED BY <1>7, <1>8, <2>1, <3>1, CutHeadIs
  <2>5. HeadFits(cut)
    <3>1. s.wq[1].pc >= 1 /\ skb = s.wq[1]
      BY <1>6, <1>7
    <3> HIDE DEF s, skb
    <3>2. s.una \in Nat /\ s.wnd \in Nat /\ WndEnd(s) = s.una + s.wnd
      BY <1>8, GoodFacts DEF WndEnd
    <3>3. skb.seq \in Nat /\ skb.end \in Nat /\ Bit(skb.fin) \in {0, 1}
      BY <1>6, SkbRange DEF Bit
    <3>4. CASE Size(skb) > mss
      <4>1. ~skb.syn
        <5>1. ASSUME skb.syn PROVE FALSE
          <6>1. skb.seq = 0 /\ skb.end = 1 /\ Bit(skb.syn) = 1
            BY <1>6, <5>1 DEF Skb, Bit
          <6>2. Size(skb) <= 0
            BY <3>3, <6>1 DEF Size
          <6> QED BY <1>6, <3>4, <6>2
        <5> QED BY <5>1
      <4>2. s.wq[1].seq + limit <= s.una + s.wnd
        BY <2>1, <3>1, <3>2, <3>4
      <4> QED BY <1>8, <2>1, <3>1, <4>1, <4>2, CutHeadIs
    <3>5. CASE ~(Size(skb) > mss)
      <4>1. cut = s
        BY <2>2, <3>5
      <4>2. skb.end - Bit(skb.fin) <= s.una + s.wnd
        BY <2>2, <3>2, <3>3, <3>5
      <4> QED BY <3>1, <4>1, <4>2 DEF HeadFits
    <3> QED BY <3>4, <3>5
  <2> HIDE DEF cut, s
  <2>6. WqStep(s, cut, f) /\ cut.wq[1].pc >= 1 /\ Good(cut, f) /\ cut.wq # <<>>
    BY <2>4 DEF CutHead, WqStep
  <2>7. WqStep(a, cut, f)
    BY <1>7, <2>6 DEF WqStep, Frame, SameTimers, SameCounts
  <2>8. CASE acc.room = 0 \/ out.seq = out.end
    BY <1>3, <2>3, <2>7, <2>8
  <2>9. CASE ~(acc.room = 0 \/ out.seq = out.end)
    <3> DEFINE m == IF Size(out) < out.pc * mss THEN out.end ELSE sent.sml
               t == [sent EXCEPT !.sml = m]
    <3>1. out = cut.wq[1] /\ out.end \in Nat /\ out.pc \in Nat
      BY <2>6, WqHead
    <3>2. Wrote(cut, sent, f) /\ sent.rtx # <<>>
      BY <2>6, <2>5, SendHead DEF NewSent
    <3>3. sent.packets_out > cut.packets_out
      BY <2>6, <2>5, SendHead DEF NewSent
    <3>4. X = [sk |-> t, room |-> acc.room - 1, sent |-> acc.sent + out.pc, go |-> pushOne = 0]
      BY <2>3, <2>9
    <3> HIDE DEF sent, out
    <3>5. Good(sent, f) /\ sent \in Sockets
      BY <3>2, GoodFacts DEF Wrote
    <3>6. m \in Int
      <4>1. sent.sml \in Int
        BY <3>5, SocketFields
      <4> QED BY <3>1, <4>1
    <3> HIDE DEF m
    <3>7. /\ t \in Sockets /\ t.una = sent.una /\ t.nxt = sent.nxt /\ t.wseq = sent.wseq
          /\ t.rtx = sent.rtx /\ t.wq = sent.wq /\ SameCounts(sent, t) /\ t.hint = sent.hint
          /\ t.tx = sent.tx /\ t.bug = sent.bug
          /\ Frame(sent, t) /\ t.pending = sent.pending /\ t.ca = sent.ca /\ t.tlp = sent.tlp
          /\ t.wnd = sent.wnd
      BY <3>5, <3>6 DEF Sockets, SameCounts, Frame
    <3> HIDE DEF t
    <3>8. Good(t, f)
      BY <3>5, <3>7, GoodSame
    <3>9. Wrote(sent, t, f)
      BY <3>7, <3>8 DEF Wrote, SameCounts
    <3>10. Wrote(s0, t, f)
      <4>1. Wrote(a, cut, f)
        BY <2>7, WroteStep
      <4>2. Wrote(s0, cut, f)
        BY <1>1, <4>1, WroteTwice
      <4>3. Wrote(s0, sent, f)
        BY <3>2, <4>2, WroteTwice
      <4> QED BY <3>9, <4>3, WroteTwice
    <3>11. acc.room - 1 \in Int /\ acc.sent + out.pc \in Nat /\ (pushOne = 0) \in BOOLEAN
      BY <1>1, <3>1
    <3> HIDE DEF X
    <3>12. X \in T /\ X.sk = t
      BY <3>4, <3>7, <3>11
    <3>13. t.rtx # <<>> /\ t.packets_out > s0.packets_out
      <4>1. t.packets_out = sent.packets_out /\ cut.packets_out = a.packets_out
            /\ sent.packets_out > cut.packets_out
        BY <2>6, <2>7, <3>7, <3>3 DEF WqStep, SameCounts
      <4>2. s0.packets_out \in Int /\ a.packets_out \in Int /\ sent.packets_out \in Int
        BY <1>1, <3>5, GoodFacts
      <4>3. a.packets_out >= s0.packets_out
        BY <1>1, <4>2 DEF Wrote
      <4> QED BY <3>2, <3>7, <4>1, <4>2, <4>3
    <3>14. X \in Writes(s0, f)
      BY <1>2, <3>10, <3>12, <3>13
    <3> QED BY <3>14 DEF X
  <2> QED BY <2>8, <2>9
<1> QED BY <1>5, <1>9, <1>10

\* The elements of a sequence from the j-th on.
LEMMA RestOf ==
  ASSUME NEW T, NEW q \in Seq(T), NEW j \in 1..Len(q)
  PROVE  LET w == SubSeq(q, j, Len(q))
         IN /\ w \in Seq(T) /\ Len(w) = Len(q) - j + 1 /\ w # <<>>
            /\ \A k \in 1..Len(q) - j + 1 : w[k] = q[j + k - 1]
<1> DEFINE n == Len(q)
           w == SubSeq(q, j, n)
           m == n - j + 1
<1>1. n \in Nat /\ j \in 1..n
  BY SeqFacts
<1>2. m = n - j + 1 /\ m \in Nat /\ m > 0 /\ j <= n /\ j \in 1..n + 1 /\ n \in j - 1..n
  <2> HIDE DEF n
  <2> QED BY <1>1
<1>3. w \in Seq(T) /\ Len(w) = (IF j <= n THEN n - j + 1 ELSE 0)
      /\ \A k \in 1..n - j + 1 : w[k] = q[j + k - 1]
  BY <1>1, <1>2, SubSeqProperties
<1> HIDE DEF n, w, m
<1>4. w # <<>>
  BY <1>2, <1>3, SeqFacts
<1> QED BY <1>2, <1>3, <1>4 DEF w, n

\* An element put before a sequence.
LEMMA Behind ==
  ASSUME NEW T, NEW w \in Seq(T), NEW p \in T
  PROVE  LET r == <<p>> \o w
         IN /\ r \in Seq(T) /\ Len(r) = Len(w) + 1 /\ r[1] = p /\ r # <<>>
            /\ \A k \in 2..Len(w) + 1 : r[k] = w[k - 1]
<1> DEFINE r == <<p>> \o w
<1>1. Len(w) \in Nat
  BY SeqFacts
<1>2. <<p>> \in Seq(T) /\ Len(<<p>>) = 1 /\ <<p>>[1] = p
  OBVIOUS
<1>3. r \in Seq(T) /\ Len(r) = 1 + Len(w)
      /\ \A k \in 1..1 + Len(w) : r[k] = IF k <= 1 THEN <<p>>[k] ELSE w[k - 1]
  BY <1>2, ConcatProperties
<1> HIDE DEF r
<1>4. 1 \in 1..1 + Len(w) /\ Len(r) # 0
  BY <1>1, <1>3
<1>5. r[1] = p
  BY <1>2, <1>3, <1>4
<1>6. \A k \in 2..Len(w) + 1 : k \in 1..1 + Len(w) /\ ~(k <= 1)
  BY <1>1
<1>7. \A k \in 2..Len(w) + 1 : r[k] = w[k - 1]
  BY <1>3, <1>6
<1>8. r # <<>>
  BY <1>3, <1>4, SeqFacts
<1>9. Len(r) = Len(w) + 1
  BY <1>1, <1>3
<1> QED BY <1>3, <1>5, <1>7, <1>8, <1>9 DEF r

\* Whether the probe that ends before stop takes all of a buffer.
Swallowed(b, stop) == b.seq < stop /\ b.seq + Size(b) <= stop

\* A buffer that is swallowed ends where the probe does, or before; what the
\* probe leaves of another one begins there.
LEMMA SwallowedIs ==
  ASSUME NEW b \in Skb, NEW stop \in Nat, NEW mss \in Nat \ {0}, stop >= 1
  PROVE  /\ Swallowed(b, stop) /\ ~b.fin => b.end <= stop
         /\ ~Swallowed(b, stop) /\ b.seq < stop =>
              LET x == SetTsoSegs([b EXCEPT !.seq = stop], mss)
              IN /\ x \in Skb /\ x.seq = stop /\ x.end = b.end /\ x.fin = b.fin
                 /\ x.acked = b.acked /\ x.retrans = b.retrans /\ x.lost = b.lost
         /\ b.end > stop + 1 => ~Swallowed(b, stop)
<1> DEFINE c == [b EXCEPT !.seq = stop]
           x == SetTsoSegs(c, mss)
<1>1. b \in SkbRec /\ b.seq <= b.end /\ Size(b) >= 0 /\ (b.syn => b.seq = 0 /\ b.end = 1 /\ ~b.fin)
      /\ (b.retrans => b.lost) /\ (b.acked => ~b.lost)
  BY DEF Skb
<1>2. /\ b.seq \in Nat /\ b.end \in Nat /\ b.syn \in BOOLEAN /\ b.fin \in BOOLEAN
      /\ Bit(b.fin) \in {0, 1} /\ Bit(b.syn) \in {0, 1} /\ Size(b) \in Int
      /\ Size(b) = b.end - b.seq - Bit(b.fin) - Bit(b.syn)
  BY <1>1, SkbFields
<1>3. (b.fin => Bit(b.fin) = 1) /\ (~b.fin => Bit(b.fin) = 0)
      /\ (b.syn => Bit(b.syn) = 1) /\ (~b.syn => Bit(b.syn) = 0)
  BY <1>2, BitIs
<1>4. Swallowed(b, stop) /\ ~b.fin => b.end <= stop
  <2>1. CASE b.syn
    BY <1>1, <1>2, <2>1
  <2>2. CASE ~b.syn /\ ~b.fin
    <3>1. Bit(b.fin) = 0 /\ Bit(b.syn) = 0
      BY <1>3, <2>2
    <3> QED BY <1>2, <3>1 DEF Swallowed
  <2> QED BY <2>1, <2>2
<1>5. b.end > stop + 1 => ~Swallowed(b, stop)
  <2>1. Bit(b.fin) + Bit(b.syn) <= 1
    BY <1>1, <1>2, <1>3
  <2> QED BY <1>2, <2>1 DEF Swallowed
<1>6. ASSUME ~Swallowed(b, stop), b.seq < stop
      PROVE  /\ x \in Skb /\ x.seq = stop /\ x.end = b.end /\ x.fin = b.fin
             /\ x.acked = b.acked /\ x.retrans = b.retrans /\ x.lost = b.lost
  <2>1. b.seq + Size(b) > stop
    BY <1>2, <1>6 DEF Swallowed
  <2>2. ~b.syn
    <3> SUFFICES ASSUME b.syn PROVE FALSE
      OBVIOUS
    <3> DEFINE y == Bit(b.syn)
               v == Bit(b.fin)
               z == Size(b)
               e == b.end
               d == b.seq
    <3>1. d = 0 /\ e = 1 /\ y = 1 /\ v \in {0, 1} /\ z = e - d - v - y /\ d + z > stop
      BY <1>1, <1>2, <1>3, <2>1
    <3> HIDE DEF y, v, z, e, d
    <3> QED BY <3>1
  <2>3. c \in SkbRec /\ c.seq = stop /\ c.end = b.end /\ c.fin = b.fin /\ c.syn = b.syn
        /\ c.acked = b.acked /\ c.retrans = b.retrans /\ c.lost = b.lost
    BY <1>1 DEF SkbRec
  <2> HIDE DEF c
  <2>4. Size(c) = b.end - stop - Bit(b.fin) - Bit(b.syn)
    BY <2>3 DEF Size
  <2>5. Size(c) >= 0 /\ c.seq <= c.end
    BY <1>2, <2>1, <2>3, <2>4
  <2>6. (c.syn => c.seq = 0 /\ c.end = 1 /\ ~c.fin) /\ (c.retrans => c.lost) /\ (c.acked => ~c.lost)
    BY <1>1, <2>2, <2>3
  <2>7. x \in Skb /\ SameRange(x, c)
    BY <2>3, <2>5, <2>6, SetTsoSegsIs
  <2> HIDE DEF x
  <2> QED BY <2>3, <2>7 DEF SameRange
<1> QED BY <1>4, <1>5, <1>6

\* The write queue with an MTU probe in front.
Probed(s, w, f) ==
    /\ UnsentPart(w, s.nxt, s.wseq, f) /\ w # <<>>
    /\ w[1].pc = 1 /\ w[1].end = s.nxt + ProbeSize(s)

\* The first buffer that the probe does not swallow.
LEMMA FirstLeft ==
  ASSUME NEW s, NEW f, Good(s, f), s.wq # <<>>, s.wseq - s.nxt >= ProbeSize(s) + s.mss
  PROVE  LET stop == s.nxt + ProbeSize(s)
             L == {i \in DOMAIN s.wq : ~Swallowed(s.wq[i], stop)}
         IN /\ Min(L) \in L /\ L \subseteq 1..Len(s.wq)
            /\ \A i \in 1..Min(L) - 1 : Swallowed(s.wq[i], stop)
            /\ \A i \in DOMAIN s.wq : Swallowed(s.wq[i], stop) => ~s.wq[i].fin
            /\ stop \in Nat /\ stop >= 1
<1> DEFINE q == s.wq
           n == Len(q)
           stop == s.nxt + ProbeSize(s)
           L == {i \in DOMAIN q : ~Swallowed(q[i], stop)}
<1>1. q \in Seq(Skb) /\ DOMAIN q = 1..n /\ UnsentPart(q, s.nxt, s.wseq, f) /\ s.nxt \in Nat
      /\ s.wseq \in Nat /\ s.mss \in Msses
  BY GoodFacts
<1>2. s.mss \in Nat /\ s.mss >= 2
  BY <1>1, MssIs
<1>3. ProbeSize(s) = s.mss + 1
  BY DEF ProbeSize
<1>4. stop \in Nat /\ stop >= 1 /\ s.wseq > stop + 1
  BY <1>1, <1>2, <1>3
<1>5. n \in Nat \ {0} /\ q[n] \in Skb
  BY <1>1, SeqEnds
<1>6. q[n].end = s.wseq /\ \A i \in 1..n : q[i].fin => i = n
  BY <1>1, <1>5 DEF UnsentPart, FinLast
<1> HIDE DEF stop, n
<1>7. ~Swallowed(q[n], stop)
  BY <1>2, <1>4, <1>5, <1>6, SwallowedIs, MssIs, <1>1
<1>8. n \in L /\ L \subseteq 1..n /\ L \in SUBSET Nat /\ L # {}
  <2>1. n \in 1..n /\ \A i \in 1..n : i \in Nat
    BY <1>5
  <2>2. n \in L
    BY <1>1, <1>7, <2>1
  <2>3. L \subseteq 1..n
    BY <1>1
  <2> HIDE DEF L
  <2> QED BY <2>1, <2>2, <2>3
<1>9. PICK x \in L : \A y \in L : x <= y
  BY <1>8, LeastNat
<1>10. Min(L) \in L /\ \A y \in L : Min(L) <= y
  <2> HIDE DEF L
  <2> QED BY <1>9 DEF Min
<1>11. \A i \in 1..n : Swallowed(q[i], stop) => ~q[i].fin
  BY <1>6, <1>7
<1>12. ASSUME NEW i \in 1..Min(L) - 1 PROVE Swallowed(q[i], stop)
  <2> DEFINE m == Min(L)
  <2>1. m \in 1..n /\ i \in 1..m - 1 /\ \A y \in L : m <= y
    BY <1>8, <1>10
  <2> HIDE DEF m
  <2>2. i \in 1..n /\ ~(m <= i)
    BY <1>5, <2>1
  <2>3. i \notin L
    BY <2>1, <2>2
  <2> QED BY <1>1, <2>2, <2>3
<1> HIDE DEF L
<1> QED BY <1>1, <1>4, <1>8, <1>10, <1>11, <1>12 DEF stop, n, L

\* tcp_mtu_probe: the probe takes the place of the buffers it copies.
LEMMA MtuProbeQueueIs ==
  ASSUME NEW s, NEW f, Good(s, f), s.wq # <<>>, s.wseq - s.nxt >= ProbeSize(s) + s.mss
  PROVE  Probed(s, MtuProbeQueue(s), f)
<1> DEFINE q == s.wq
           n == Len(q)
           nx == s.nxt
           ws == s.wseq
           stop == nx + ProbeSize(s)
           L == {i \in DOMAIN q : ~Swallowed(q[i], stop)}
           j == Min(L)
           b == q[j]
           probe == [NewSkb(nx, stop) EXCEPT !.pc = 1, !.fin = FALSE]
           x == IF b.seq < stop THEN SetTsoSegs([b EXCEPT !.seq = stop], s.mss) ELSE b
           rest == SubSeq(q, j, n)
           left == AfterProbe(rest, stop, s.mss)
           r == <<probe>> \o left
<1>1. q \in Seq(Skb) /\ DOMAIN q = 1..n /\ UnsentPart(q, nx, ws, f) /\ nx \in Nat
      /\ n \in Nat /\ s.mss \in Nat \ {0}
  BY GoodFacts
<1>2. q[1].seq = nx /\ Head(q) = q[1]
  BY WqHead
<1>3. /\ j \in L /\ L \subseteq 1..n
      /\ \A i \in 1..j - 1 : Swallowed(q[i], stop)
      /\ \A i \in DOMAIN q : Swallowed(q[i], stop) => ~q[i].fin
      /\ stop \in Nat /\ stop >= 1
  BY FirstLeft
<1>4. j \in 1..n /\ ~Swallowed(b, stop)
  BY <1>3
<1>5. MtuProbeQueue(s) = r
  <2>1. (\E i \in DOMAIN q : Swallowed(q[i], stop) /\ q[i].fin) = FALSE
    BY <1>3
  <2>2. MtuProbeQueue(s) =
          <<[NewSkb(Head(q).seq, Head(q).seq + ProbeSize(s)) EXCEPT !.pc = 1,
               !.fin = \E i \in DOMAIN q : Swallowed(q[i], Head(q).seq + ProbeSize(s)) /\ q[i].fin]>>
          \o AfterProbe(SubSeq(q, Min({i \in DOMAIN q :
                             ~Swallowed(q[i], Head(q).seq + ProbeSize(s))}), Len(q)),
                        Head(q).seq + ProbeSize(s), s.mss)
    BY DEF MtuProbeQueue, Swallowed
  <2> HIDE DEF q
  <2> QED BY <1>2, <2>1, <2>2
<1>6. nx < stop /\ 1 \in 1..n /\ n > 0
  <2>1. s.mss \in Nat
    BY <1>1
  <2>2. stop = nx + (s.mss + 1)
    BY DEF ProbeSize
  <2> HIDE DEF stop, n
  <2> QED BY <1>1, <1>4, <2>1, <2>2
<1> HIDE DEF q, n, nx, ws, stop, L, j, r
<1>7. b \in Skb /\ b.seq \in Nat
  <2>1. b \in Skb
    BY <1>1, <1>4, SeqFacts DEF n
  <2> QED BY <2>1, SkbRange
<1>8. ~(b.seq < stop) => b.seq = stop
  <2> SUFFICES ASSUME ~(b.seq < stop) PROVE b.seq = stop
    OBVIOUS
  <2> DEFINE i == j - 1
  <2>1. j # 1
    BY <1>2, <1>6
  <2>2. i \in 1..j - 1 /\ i \in 1..n - 1 /\ i \in 1..n /\ i + 1 = j
    BY <1>1, <1>4, <2>1
  <2> HIDE DEF i
  <2>3. q[i].end = b.seq
    BY <1>1, <2>2 DEF UnsentPart, Linked, n
  <2>4. q[i] \in Skb /\ Swallowed(q[i], stop) /\ ~q[i].fin
    BY <1>1, <1>3, <2>2, SeqFacts DEF n
  <2>5. q[i].end <= stop
    BY <1>1, <1>3, <2>4, SwallowedIs
  <2> HIDE DEF b
  <2> QED BY <1>3, <1>7, <2>3, <2>5
<1>9. x \in Skb /\ x.seq = stop /\ x.end = b.end /\ x.fin = b.fin
      /\ x.acked = b.acked /\ x.retrans = b.retrans /\ x.lost = b.lost
  <2> HIDE DEF b
  <2>1. CASE b.seq < stop
    BY <1>1, <1>3, <1>4, <1>7, <2>1, SwallowedIs
  <2>2. CASE ~(b.seq < stop)
    BY <1>7, <1>8, <2>2
  <2> QED BY <2>1, <2>2
<1>10. Plain(b) /\ Plain(x)
  <2>1. Plain(b)
    BY <1>1, <1>4 DEF UnsentPart, AllPlain, n
  <2> HIDE DEF b, x
  <2> QED BY <1>9, <2>1 DEF Plain
<1>11. probe \in Skb /\ probe.seq = nx /\ probe.end = stop /\ probe.fin = FALSE /\ Plain(probe)
       /\ probe.pc = 1
  <2>1. probe \in SkbRec /\ probe.seq = nx /\ probe.end = stop /\ probe.fin = FALSE
        /\ probe.syn = FALSE /\ probe.acked = FALSE /\ probe.retrans = FALSE
        /\ probe.lost = FALSE /\ probe.pc = 1
    BY <1>1, <1>3 DEF NewSkb, SkbRec
  <2> HIDE DEF probe
  <2>2. Size(probe) = stop - nx
    <3>1. Bit(probe.fin) = 0 /\ Bit(probe.syn) = 0
      BY <2>1, BitIs
    <3>2. Size(probe) = stop - nx - 0 - 0
      BY <2>1, <3>1 DEF Size
    <3> QED BY <1>1, <1>3, <3>2
  <2>3. Size(probe) >= 0 /\ probe.seq <= probe.end
    BY <1>1, <1>3, <1>6, <2>1, <2>2
  <2>4. probe \in Skb
    BY <2>1, <2>3, SkbIs
  <2> QED BY <2>1, <2>4 DEF Plain
<1>12. /\ rest \in Seq(Skb) /\ Len(rest) = n - j + 1 /\ rest # <<>>
       /\ \A k \in 1..n - j + 1 : rest[k] = q[j + k - 1]
  BY <1>1, <1>4, RestOf DEF n
<1>13. n - j + 1 \in Nat /\ 1 \in 1..n - j + 1 /\ j + 1 - 1 = j /\ n - j + 1 > 0
  BY <1>1, <1>4
<1>14. Head(rest) = b /\ rest[1] = b
  <2> HIDE DEF rest
  <2>1. rest[1] = b
    BY <1>12, <1>13
  <2> QED BY <1>12, <2>1, SeqEnds
<1>15. /\ left \in Seq(Skb) /\ Len(left) = n - j + 1 /\ left[1] = x
       /\ \A k \in 2..n - j + 1 : left[k] = q[j + k - 1]
  <2>1. left = IF rest # <<>> /\ Head(rest).seq < stop
               THEN Spliced(rest, 1, <<SetTsoSegs([Head(rest) EXCEPT !.seq = stop], s.mss)>>)
               ELSE rest
    BY DEF AfterProbe
  <2>2. \A k \in 2..n - j + 1 : k \in 1..n - j + 1 /\ k # 1
    BY <1>13
  <2> HIDE DEF rest, left, b
  <2>3. CASE b.seq < stop
    <3>1. left = Spliced(rest, 1, <<x>>)
      BY <1>12, <1>14, <2>1, <2>3
    <3> HIDE DEF x
    <3>2. 1 \in 1..Len(rest)
      BY <1>12, <1>13
    <3>3. /\ left \in Seq(Skb) /\ Len(left) = Len(rest)
          /\ \A k \in 1..Len(rest) : left[k] = IF k = 1 THEN x ELSE rest[k]
      <4>1. x \in Skb /\ rest \in Seq(Skb)
        BY <1>9, <1>12
      <4>2. left \in Seq(Skb)
        BY ONLY <3>1, <3>2, <4>1, SplicedOne
      <4>3. Len(left) = Len(rest)
        BY ONLY <3>1, <3>2, <4>1, SplicedOne
      <4>4. \A k \in 1..Len(rest) : left[k] = IF k = 1 THEN x ELSE rest[k]
        BY ONLY <3>1, <3>2, <4>1, SplicedOne
      <4> QED BY <4>2, <4>3, <4>4
    <3> QED BY <1>12, <1>13, <2>2, <3>3
  <2>4. CASE ~(b.seq < stop)
    <3>1. left = rest /\ x = b
      BY <1>14, <2>1, <2>4
    <3> QED BY <1>12, <1>14, <2>2, <3>1
  <2> QED BY <2>3, <2>4
<1> HIDE DEF left, probe, x, b, rest
<1>16. /\ r \in Seq(Skb) /\ Len(r) = Len(left) + 1 /\ r[1] = probe /\ r # <<>>
       /\ \A k \in 2..Len(left) + 1 : r[k] = left[k - 1]
  BY <1>11, <1>15, Behind DEF r
<1>17. Len(r) = n - j + 2 /\ r[2] = x /\ \A k \in 3..Len(r) : r[k] = q[j + k - 2]
  <2>1. Len(r) = n - j + 2 /\ 2 \in 2..Len(left) + 1 /\ 2 - 1 = 1
    BY <1>1, <1>4, <1>13, <1>15, <1>16
  <2>2. r[2] = x
    BY <1>15, <1>16, <2>1
  <2>3. ASSUME NEW k \in 3..Len(r) PROVE r[k] = q[j + k - 2]
    <3> DEFINE i == k - 1
    <3>1. k \in 2..Len(left) + 1 /\ i \in 2..n - j + 1 /\ j + i - 1 = j + k - 2
      BY <1>1, <1>4, <1>15, <2>1
    <3>2. r[k] = left[i]
      BY <1>16, <3>1
    <3> HIDE DEF i
    <3>3. left[i] = q[j + i - 1]
      BY <1>15, <3>1
    <3> QED BY <3>1, <3>2, <3>3
  <2> QED BY <2>1, <2>2, <2>3
<1>18. UnsentPart(r, nx, ws, f)
  <2>1. j \in 1..Len(q) /\ Len(r) = Len(q) - j + 2
    BY <1>4, <1>17 DEF n
  <2>2. probe.end = x.seq /\ x.end = q[j].end /\ x.fin = q[j].fin
    BY <1>9, <1>11 DEF b
  <2>3. probe \in Skb /\ x \in Skb /\ probe.seq = nx /\ probe.fin = FALSE /\ Plain(probe)
        /\ Plain(x) /\ r \in Seq(Skb) /\ r[1] = probe /\ r[2] = x
        /\ (\A k \in 3..Len(r) : r[k] = q[j + k - 2]) /\ UnsentPart(q, nx, ws, f)
    BY <1>1, <1>9, <1>10, <1>11, <1>16, <1>17
  <2> QED BY ONLY <2>1, <2>2, <2>3, UnsentProbed
<1>19. Probed(s, r, f)
  <2>1. r[1].end = s.nxt + ProbeSize(s)
    BY <1>11, <1>16 DEF stop, nx
  <2> QED BY <1>11, <1>16, <1>18, <2>1 DEF Probed, nx, ws
<1> QED BY <1>5, <1>19

\* Nothing is in flight when the retransmit queue is empty.
LEMMA NothingOut ==
  ASSUME NEW s, NEW f, Good(s, f), s.rtx = <<>>
  PROVE  s.packets_out = 0 /\ InFlight(s) = 0 /\ s.una = s.nxt
<1>1. Counted(s) /\ SentPart(s.rtx, s.una, s.nxt, f /\ s.wq = <<>>)
  BY GoodFacts
<1>2. \A c \in Marks : Counter(s, c) = 0
  BY <1>1, SumsEmpty DEF Counted
<1>3. s.packets_out = 0 /\ s.lost_out = 0 /\ s.retrans_out = 0 /\ s.sacked_out = 0
  <2>1. Counter(s, "out") = 0 /\ Counter(s, "lost") = 0 /\ Counter(s, "retrans") = 0
        /\ Counter(s, "sacked") = 0
    BY <1>2 DEF Marks
  <2> QED BY <2>1 DEF Counter
<1>4. Len(s.rtx) = 0
  OBVIOUS
<1>5. s.una = s.nxt
  BY <1>1, <1>4 DEF SentPart
<1> QED BY <1>3, <1>5 DEF InFlight

\* What is known when an MTU probe may be sent, and when it must wait.
LEMMA VerdictIs ==
  ASSUME NEW s, NEW f, Good(s, f), NEW joins
  PROVE  /\ MtuProbeVerdict(s, joins) \in {-1, 0, 1}
         /\ MtuProbeVerdict(s, joins) = 1 =>
              /\ s.wseq - s.nxt >= ProbeSize(s) + s.mss
              /\ s.cwnd - 1 \in Nat \ {0} /\ s.wq # <<>>
              /\ s.nxt + ProbeSize(s) <= s.una + s.wnd
         /\ MtuProbeVerdict(s, joins) = 0 => s.rtx # <<>>
<1> DEFINE k == (Reordering + 1) * s.mss
           needed == ProbeSize(s) + k
<1>1. s.mss \in Nat /\ s.mss \in Nat \ {0} /\ s.wseq \in Nat /\ s.nxt \in Nat /\ s.una \in Nat
      /\ s.wnd \in Nat /\ s.cwnd \in Nat \ {0} /\ UnsentPart(s.wq, s.nxt, s.wseq, f)
      /\ s.cwnd \in Nat
  BY GoodFacts
<1>2. ProbeSize(s) = s.mss + 1
  BY DEF ProbeSize
<1>3. k \in Nat /\ k >= s.mss
  <2> DEFINE r == Reordering + 1
             m == s.mss
  <2>1. r \in Nat /\ r > 0 /\ m \in Nat
    BY <1>1, SenderAssumption
  <2> HIDE DEF r, m
  <2>2. m * r \in Nat /\ m * r >= m /\ r * m = m * r
    BY <2>1, Product
  <2>3. r * m \in Nat /\ r * m >= m
    BY <2>2
  <2> QED BY <2>3 DEF r, m
<1>4. MtuProbeVerdict(s, joins) =
        IF \/ ~MtuProbing \/ s.mtup # 0 \/ s.ca # "Open" \/ s.cwnd < ProbeCwnd
           \/ s.wseq - s.nxt < needed \/ s.wnd < needed THEN -1
        ELSE IF s.nxt + needed > WndEnd(s) THEN 0
        ELSE IF InFlight(s) + 2 > s.cwnd THEN (IF InFlight(s) = 0 THEN -1 ELSE 0)
        ELSE IF joins THEN 1 ELSE -1
  BY DEF MtuProbeVerdict
<1> HIDE DEF k
<1>5. needed \in Nat /\ needed >= ProbeSize(s) + s.mss /\ needed > 0
  BY <1>1, <1>2, <1>3
<1> HIDE DEF needed
<1>6. MtuProbeVerdict(s, joins) \in {-1, 0, 1}
  BY <1>4
<1>7. ASSUME MtuProbeVerdict(s, joins) = 1
      PROVE  /\ s.wseq - s.nxt >= ProbeSize(s) + s.mss /\ s.cwnd - 1 \in Nat \ {0}
             /\ s.wq # <<>> /\ s.nxt + ProbeSize(s) <= s.una + s.wnd
  <2>1. ~(s.cwnd < ProbeCwnd) /\ ~(s.wseq - s.nxt < needed)
    BY <1>4, <1>7
  <2>2. ProbeCwnd \in Nat /\ ProbeCwnd >= 2
    BY SenderAssumption
  <2>3. s.wseq - s.nxt >= ProbeSize(s) + s.mss /\ s.wseq # s.nxt
    BY <1>1, <1>2, <1>5, <2>1
  <2>4. s.wq # <<>>
    <3> SUFFICES ASSUME s.wq = <<>> PROVE FALSE
      OBVIOUS
    <3>1. Len(s.wq) = 0
      OBVIOUS
    <3> QED BY <1>1, <2>3, <3>1 DEF UnsentPart
  <2>5. ~(s.nxt + needed > WndEnd(s))
    BY <1>4, <1>7
  <2>6. s.nxt + ProbeSize(s) <= s.una + s.wnd
    BY <1>1, <1>2, <1>5, <2>5 DEF WndEnd
  <2> QED BY <1>1, <2>1, <2>2, <2>3, <2>4, <2>6
<1>8. ASSUME MtuProbeVerdict(s, joins) = 0, s.rtx = <<>> PROVE FALSE
  <2>1. InFlight(s) = 0 /\ s.una = s.nxt
    BY <1>8, NothingOut
  <2>2. ~(s.wnd < needed)
    BY <1>4, <1>8
  <2>3. ~(s.nxt + needed > WndEnd(s))
    BY <1>1, <1>5, <2>1, <2>2 DEF WndEnd
  <2> QED BY <1>4, <1>8, <2>1, <2>3
<1> QED BY <1>6, <1>7, <1>8

\* t is s with an MTU probe in flight, or ready to be sent.
LEMMA ProbeBuilt ==
  ASSUME NEW s, NEW f, Good(s, f), NEW joins, MtuProbeVerdict(s, joins) = 1
  PROVE  LET t == [s EXCEPT !.wq = MtuProbeQueue(s)] IN CutHead(s, t, f) /\ HeadFits(t)
<1> DEFINE w == MtuProbeQueue(s)
<1>1. s.wseq - s.nxt >= ProbeSize(s) + s.mss /\ s.wq # <<>>
      /\ s.nxt + ProbeSize(s) <= s.una + s.wnd
  BY VerdictIs
<1>2. Probed(s, w, f)
  BY <1>1, MtuProbeQueueIs
<1> HIDE DEF w
<1>3. UnsentPart(w, s.nxt, s.wseq, f) /\ w # <<>> /\ w[1].pc = 1
      /\ w[1].end = s.nxt + ProbeSize(s)
  BY <1>2 DEF Probed
<1>4. WqStep(s, [s EXCEPT !.wq = w], f) /\ [s EXCEPT !.wq = w].wq = w
  BY <1>1, <1>3, WqSet
<1>5. CutHead(s, [s EXCEPT !.wq = w], f)
  BY <1>3, <1>4 DEF CutHead
<1> DEFINE t == [s EXCEPT !.wq = w]
<1>6. t.wq = w /\ t.una = s.una /\ t.wnd = s.wnd
  <2> HIDE DEF t
  <2> QED BY <1>4 DEF WqStep, Frame, t
<1>7. HeadFits(t)
  <2>1. Bit(w[1].fin) \in {0, 1}
    BY DEF Bit
  <2>2. s.nxt \in Nat /\ s.mss \in Nat /\ s.una \in Nat /\ s.wnd \in Nat
        /\ ProbeSize(s) = s.mss + 1
    BY GoodFacts DEF ProbeSize
  <2>3. w[1].end - Bit(w[1].fin) <= s.una + s.wnd
    BY <1>1, <1>3, <2>1, <2>2
  <2> HIDE DEF t
  <2> QED BY <1>6, <2>3 DEF HeadFits
<1> QED BY <1>5, <1>7 DEF w

\* The MTU probe is sent.
LEMMA ProbeSent ==
  ASSUME NEW s, NEW f, Good(s, f), s.wq # <<>>, s.wq[1].pc >= 1, s.cwnd - 1 \in Nat \ {0},
         HeadFits(s)
  PROVE  LET t == [EventNewDataSent(Transmit(s, Head(s.wq)))
                     EXCEPT !.cwnd = @ - 1, !.mtup = Head(s.wq).end]
         IN Wrote(s, t, f) /\ t.rtx # <<>> /\ t.packets_out > s.packets_out
<1> DEFINE u == EventNewDataSent(Transmit(s, Head(s.wq)))
           c == u.cwnd - 1
           m == Head(s.wq).end
           t == [u EXCEPT !.cwnd = c, !.mtup = m]
<1>1. NewSent(s, u, f) /\ Wrote(s, u, f)
  BY SendHead
<1>2. m \in Int
  BY WqHead
<1> HIDE DEF u, m
<1>3. Good(u, f) /\ u.cwnd = s.cwnd /\ u.rtx # <<>> /\ u.packets_out > s.packets_out
  BY <1>1 DEF NewSent
<1>4. u \in Sockets
  BY <1>3, GoodFacts
<1>5. c \in Nat \ {0}
  BY <1>3
<1> HIDE DEF c
<1>6. /\ t \in Sockets /\ t.una = u.una /\ t.nxt = u.nxt /\ t.wseq = u.wseq
      /\ t.rtx = u.rtx /\ t.wq = u.wq /\ SameCounts(u, t) /\ t.hint = u.hint
      /\ t.tx = u.tx /\ t.bug = u.bug
      /\ Frame(u, t) /\ t.pending = u.pending /\ t.ca = u.ca /\ t.tlp = u.tlp
      /\ t.wnd = u.wnd
  BY <1>2, <1>4, <1>5 DEF Sockets, SameCounts, Frame
<1> HIDE DEF t
<1>7. Good(t, f)
  BY <1>3, <1>4, <1>6, GoodSame
<1>8. Wrote(u, t, f)
  BY <1>6, <1>7 DEF Wrote, SameCounts
<1>9. Wrote(s, t, f)
  BY <1>1, <1>8, WroteTwice
<1> QED BY <1>3, <1>6, <1>9 DEF t, c, m, u, SameCounts

\* tcp_write_xmit's outcome: what was sent, and whether nothing is in flight
\* and nothing could be sent.
WriteDone(s, r, f) ==
    /\ Wrote(s, r.sk, f)
    /\ r.sk.rtx = <<>> /\ r.sk.wq # <<>> => r.stuck

\* The loss probe is scheduled for what was sent.
LEMMA EndOfXmitIs ==
  ASSUME NEW s, NEW f, Good(s, f), NEW e \in Writes(s, f), NEW pushOne
  PROVE  WriteDone(s, EndOfXmit(e, pushOne), f)
<1> DEFINE d == IF e.sent > 0 /\ pushOne # 2 THEN ScheduleLossProbe(e.sk) ELSE e.sk
           u == e.sk
           r == EndOfXmit(e, pushOne)
<1>1. /\ Wrote(s, u, f) /\ u \in Sockets /\ e.sent \in Nat
      /\ e.sent # 0 => u.rtx # <<>> /\ u.packets_out > s.packets_out
  BY DEF Writes
<1>2. r = [sk |-> d, stuck |-> e.sent = 0 /\ d.packets_out = 0 /\ d.wq # <<>>]
  BY DEF EndOfXmit
<1>3. Good(u, f)
  BY <1>1 DEF Wrote
<1> HIDE DEF u
<1>4. CASE ~(e.sent > 0 /\ pushOne # 2 /\ CanProbeLoss(u))
  <2>1. d = u
    BY <1>4 DEF ScheduleLossProbe, u
  <2>2. u.rtx = <<>> => u.packets_out = 0 /\ e.sent = 0
    BY <1>1, <1>3, NothingOut
  <2> HIDE DEF d, r
  <2>3. r.sk = u /\ r.stuck = (e.sent = 0 /\ u.packets_out = 0 /\ u.wq # <<>>)
    BY <1>2, <2>1
  <2>4. WriteDone(s, r, f)
    BY <1>1, <2>2, <2>3 DEF WriteDone
  <2> QED BY <2>4 DEF r
<1>5. CASE e.sent > 0 /\ pushOne # 2 /\ CanProbeLoss(u)
  <2> DEFINE t == [u EXCEPT !.pending = "loss_probe"]
  <2>1. d = t
    BY <1>5 DEF ScheduleLossProbe, u
  <2>2. /\ t \in Sockets /\ t.una = u.una /\ t.nxt = u.nxt /\ t.wseq = u.wseq
        /\ t.rtx = u.rtx /\ t.wq = u.wq /\ SameCounts(u, t) /\ t.hint = u.hint
        /\ t.tx = u.tx /\ t.bug = u.bug
        /\ Frame(u, t) /\ t.pending = "loss_probe" /\ t.ca = u.ca /\ t.tlp = u.tlp
        /\ t.wnd = u.wnd
    <3>1. "loss_probe" \in Pendings
      BY DEF Pendings
    <3> QED BY <1>1, <3>1 DEF Sockets, SameCounts, Frame
  <2> HIDE DEF t, d, r
  <2>3. Good(t, f)
    BY <1>3, <2>2, GoodSame
  <2>4. u.rtx # <<>> /\ u.packets_out > s.packets_out
    BY <1>1, <1>5
  <2>5. Frame(s, u) /\ u.ca = s.ca /\ u.tlp = s.tlp
    BY <1>1 DEF Wrote
  <2>6. Frame(s, t)
    BY <2>2, <2>5, FrameStep
  <2>7. LastFits(t)
    <3>1. s.packets_out \in Int /\ u.packets_out \in Int
      BY <1>3, GoodFacts
    <3>2. LastFits(u)
      BY <1>1, <2>4, <3>1 DEF Wrote
    <3> QED BY <2>2, <3>2 DEF LastFits
  <2>8. Wrote(s, t, f)
    BY <2>2, <2>3, <2>4, <2>5, <2>6, <2>7 DEF Wrote, SameCounts
  <2>9. r.sk = t
    BY <1>2, <2>1
  <2>10. WriteDone(s, r, f)
    BY <2>2, <2>4, <2>8, <2>9 DEF WriteDone
  <2> QED BY <2>10 DEF r
<1> QED BY <1>4, <1>5

\* tcp_write_xmit as a whole.
LEMMA WriteXmitIs ==
  ASSUME NEW s, NEW f, Good(s, f), NEW mss \in Nat \ {0}, NEW nonagle, NEW pushOne,
         NEW env, env.room \in Int
  PROVE  WriteDone(s, WriteXmit(s, mss, nonagle, pushOne, env), f)
<1> DEFINE verdict == IF pushOne = 0 THEN MtuProbeVerdict(s, env.join > 0) ELSE -1
           built == IF verdict = 1 /\ (env.room > 0 \/ env.how # "early")
                    THEN [s EXCEPT !.wq = MtuProbeQueue(s)] ELSE s
           probe == Head(built.wq)
           probed == verdict = 1 /\ env.room > 0
           s0 == IF ~probed THEN built
                 ELSE [EventNewDataSent(Transmit(built, probe))
                         EXCEPT !.cwnd = @ - 1, !.mtup = probe.end]
           Op(acc, k) == IF acc.go /\ acc.sk.wq # <<>>
                         THEN XmitOne(acc, mss, nonagle, pushOne, env) ELSE acc
           base == [sk |-> s0, room |-> env.room - Bit(probed),
                    sent |-> Bit(probed), go |-> TRUE]
           n == s0.wseq - s0.nxt + 1
           S == Writes(s, f)
           F == [p \in S \X (1..n) |-> Op(p[1], p[2])]
           Is(g) == g = [k \in 0..n |-> IF k = 0 THEN base ELSE Op(g[k - 1], k)]
           W == WriteXmit(s, mss, nonagle, pushOne, env)
<1>1. W = IF verdict = 0 THEN [sk |-> s, stuck |-> FALSE]
          ELSE EndOfXmit(Iterate(Op, base, n), pushOne)
  BY DEF WriteXmit
<1>2. Wrote(s, s, f)
  BY WroteSame
<1>3. CASE verdict = 0
  <2>1. s.rtx # <<>>
    BY <1>3, VerdictIs
  <2>2. W.sk = s
    <3>1. W = [sk |-> s, stuck |-> FALSE]
      BY <1>1, <1>3
    <3> HIDE DEF W
    <3> QED BY <3>1
  <2> HIDE DEF W
  <2>3. WriteDone(s, W, f)
    BY <1>2, <2>1, <2>2 DEF WriteDone
  <2> QED BY <2>3 DEF W
<1>4. CASE verdict # 0
  <2>1. verdict = 1 => MtuProbeVerdict(s, env.join > 0) = 1
    OBVIOUS
  <2> HIDE DEF verdict
  <2>2. WqStep(s, built, f) \/ built = s
    <3>1. verdict = 1 => WqStep(s, [s EXCEPT !.wq = MtuProbeQueue(s)], f)
      BY <2>1, ProbeBuilt DEF CutHead
    <3> QED BY <3>1
  <2>3. Wrote(s, built, f)
    <3> HIDE DEF built
    <3> QED BY <1>2, <2>2, WroteStep
  <2>4. Wrote(s, s0, f) /\ (probed => s0.rtx # <<>> /\ s0.packets_out > s.packets_out)
    <3>1. CASE ~probed
      BY <2>3, <3>1
    <3>2. CASE probed
      <4>1. built = [s EXCEPT !.wq = MtuProbeQueue(s)]
        BY <3>2
      <4>2. CutHead(s, built, f) /\ HeadFits(built)
        BY <2>1, <3>2, <4>1, ProbeBuilt
      <4>3. s.cwnd - 1 \in Nat \ {0}
        BY <2>1, <3>2, VerdictIs
      <4>4. s0 = [EventNewDataSent(Transmit(built, probe)) EXCEPT !.cwnd = @ - 1, !.mtup = probe.end]
        BY <3>2
      <4> HIDE DEF built, s0
      <4>5. Good(built, f) /\ built.wq # <<>> /\ built.wq[1].pc >= 1
            /\ built.cwnd = s.cwnd /\ built.packets_out = s.packets_out
        BY <4>2 DEF CutHead, WqStep, SameTimers, SameCounts
      <4>6. built.cwnd - 1 \in Nat \ {0}
        BY <4>3, <4>5
      <4>7. Wrote(built, s0, f) /\ s0.rtx # <<>> /\ s0.packets_out > built.packets_out
        BY <4>2, <4>4, <4>5, <4>6, ProbeSent
      <4>8. Wrote(s, s0, f)
        BY <2>3, <4>7, WroteTwice
      <4> QED BY <4>5, <4>7, <4>8
    <3> QED BY <3>1, <3>2
  <2>5. s0 \in Sockets /\ n \in Nat
    <3> HIDE DEF s0
    <3>1. Good(s0, f)
      BY <2>4 DEF Wrote
    <3>2. s0 \in Sockets /\ s0.wseq \in Nat /\ s0.nxt \in Nat /\ s0.nxt <= s0.wseq
      BY <3>1, GoodFacts
    <3> QED BY <3>2
  <2>6. Bit(probed) \in {0, 1} /\ (Bit(probed) # 0 => probed)
    <3> HIDE DEF probed
    <3> QED BY DEF Bit
  <2>7. base \in S
    <3> HIDE DEF s0, probed
    <3>1. base \in [sk : Sockets, room : Int, sent : Nat, go : BOOLEAN]
      BY <2>5, <2>6
    <3>2. base.sk = s0 /\ base.sent = Bit(probed)
      OBVIOUS
    <3> HIDE DEF base
    <3> QED BY <2>4, <2>6, <3>1, <3>2 DEF Writes
  <2>8. ASSUME NEW a \in S, NEW k PROVE Op(a, k) \in S
    BY XmitOneIs
  <2> HIDE DEF s0
  <2> HIDE DEF Op, n, base, S
  <2>9. F \in [S \X (1..n) -> S]
    BY <2>8
  <2>10. \A a \in S, k \in 1..n : F[<<a, k>>] = Op(a, k)
    OBVIOUS
  <2> HIDE DEF F
  <2>11. PICK g : /\ g = [k \in 0..n |-> IF k = 0 THEN base ELSE F[<<g[k - 1], k>>]]
                /\ \A k \in 0..n : g[k] \in S
    <3>1. LoopBody(n, S, base, F)
      BY <2>5, <2>7, <2>9 DEF LoopBody
    <3>2. PICK g : LoopOf(g, n, S, base, F)
      BY <3>1, LoopExists
    <3> QED BY <3>2 DEF LoopOf
  <2>12. \A k \in 0..n : k # 0 => F[<<g[k - 1], k>>] = Op(g[k - 1], k)
    BY <2>5, <2>10, <2>11
  <2>13. Is(g)
    BY <2>11, <2>12
  <2> DEFINE h == CHOOSE o : Is(o)
  <2>14. Is(h)
    BY <2>13
  <2>15. Iterate(Op, base, n) = h[n]
    BY DEF Iterate
  <2> HIDE DEF h
  <2>16. h[0] = base /\ \A k \in 1..n : h[k] = Op(h[k - 1], k)
    BY <2>5, <2>14
  <2>17. h[n] \in S
    <3>1. n \in Nat /\ h[0] \in S /\ \A k \in 1..n : h[k - 1] \in S => h[k] \in S
      BY <2>5, <2>7, <2>8, <2>16
    <3> QED BY ONLY <3>1, Upward
  <2>18. Iterate(Op, base, n) \in S
    BY <2>15, <2>17
  <2> DEFINE e == Iterate(Op, base, n)
  <2>19. W = EndOfXmit(e, pushOne)
    BY <1>1, <1>4
  <2> HIDE DEF e
  <2>20. WriteDone(s, EndOfXmit(e, pushOne), f)
    BY <2>18, EndOfXmitIs DEF e, S
  <2> QED BY <2>19, <2>20
<1> QED BY <1>3, <1>4
=============================================================================
