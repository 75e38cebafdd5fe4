------------------------------ MODULE PingProofs ------------------------------
(***************************************************************************)
(* The ping programs, for packets of any size and number and any way the   *)
(* kernel cuts the stream: echoes are intact, the child never outlives a   *)
(* main that returns, and a reconfiguration is reported for every gap.     *)
(***************************************************************************)
EXTENDS MCPing, SequenceTheorems, TLAPS

Pcs == {"pop_ip", "connect", "fork", "loop", "recv", "check", "send", "close", "sigterm",
        "usleep", "sigkill", "waitpid", "plot", "exit", "failed", "killed"}
Starting == {"pop_ip", "connect", "fork"}
Children == {"none", "forked", "grouped", "exec", "dead", "reaped"}
Running == Children \ {"none", "reaped"}

TcpStates ==
    [pc : Pcs, pop : BOOLEAN, stop : BOOLEAN, pid : BOOLEAN, child : Children,
     good : Seq(BOOLEAN), read : Nat, buf : Seq(Nat), left : Nat, out : Seq(Nat),
     fin : BOOLEAN, rst : BOOLEAN, late : BOOLEAN]

\* The parent knows its child exactly while there is one to wait for.
ChildOK(r) ==
    /\ r.pid = (r.child \in Running)
    /\ r.pc \in Starting \cup {"failed"} => r.child = "none"
    /\ r.pc \in {"plot", "exit"} => r.child \in {"none", "reaped"}
    /\ r.pc = "killed" => r.fin /\ r.rst

\* The good ones of the first n bytes have been echoed.
Echoed(out, good, n) ==
    /\ InOrder(out)
    /\ Range(out) = {b \in 1 .. n : good[PacketOf(b)]}

\* Where the receiver is in the stream when k packets are done with.
Position(r, k, n) ==
    /\ r.pc \in Starting \cup {"loop"} => r.read = k * PktLen /\ n = k * PktLen
    /\ r.pc = "recv" => /\ r.left # 0 /\ Len(r.buf) + r.left = PktLen
                        /\ r.read = k * PktLen + Len(r.buf) /\ n = k * PktLen
    /\ r.pc = "check" => /\ Len(r.buf) = PktLen
                         /\ r.read = k * PktLen + PktLen /\ n = k * PktLen
    /\ r.pc = "send" => /\ r.left \in 1 .. PktLen /\ Len(r.buf) = PktLen
                        /\ r.read = k * PktLen + PktLen
                        /\ n = k * PktLen + PktLen - r.left
                        /\ r.good[k + 1]

\* The buffer holds the bytes read last.
BufferOK(r) ==
    r.pc \in {"recv", "check", "send"} =>
        \A i \in DOMAIN r.buf : r.buf[i] = r.read - Len(r.buf) + i

StreamOK(r, k, n) ==
    /\ n <= r.read /\ r.read <= Len(r.good) * PktLen
    /\ Position(r, k, n) /\ BufferOK(r) /\ Echoed(r.out, r.good, n)

EchoOK(r) == \E k, n \in Nat : StreamOK(r, k, n)

TcpOK(r) == r \in TcpStates /\ ChildOK(r) /\ EchoOK(r)

-----------------------------------------------------------------------------
(* Packets of the stream *)

\* The bytes after the first k packets are packet k + 1 ...
LEMMA PacketAt ==
  ASSUME NEW k \in Nat, NEW b \in Nat, k * PktLen < b, b <= k * PktLen + PktLen
  PROVE  PacketOf(b) = k + 1
<1> DEFINE q == (b - 1) \div PktLen
<1>0. PktLen \in Nat \ {0}
  BY PingAssumption
<1>1. q \in Nat /\ q * PktLen <= b - 1 /\ b - 1 < q * PktLen + PktLen /\ k * PktLen \in Nat
  BY <1>0
<1> HIDE DEF q
<1>2. ASSUME q < k PROVE FALSE
  <2>1. (q + 1) * PktLen <= k * PktLen
    BY <1>0, <1>1, <1>2
  <2>2. (q + 1) * PktLen = q * PktLen + PktLen
    BY <1>0, <1>1
  <2>3. q * PktLen \in Nat
    BY <1>0, <1>1
  <2> QED BY <1>0, <1>1, <2>1, <2>2, <2>3
<1>3. ASSUME k < q PROVE FALSE
  <2>1. (k + 1) * PktLen <= q * PktLen
    BY <1>0, <1>1, <1>3
  <2>2. (k + 1) * PktLen = k * PktLen + PktLen
    BY <1>0
  <2>3. q * PktLen \in Nat
    BY <1>0, <1>1
  <2> QED BY <1>0, <1>1, <2>1, <2>2, <2>3
<1>4. q = k
  BY <1>1, <1>2, <1>3
<1> QED BY <1>4 DEF PacketOf, q

\* ... and a byte of the first l packets is of one of them.
LEMMA PacketIn ==
  ASSUME NEW l \in Nat, NEW b \in 1 .. l * PktLen
  PROVE  PacketOf(b) \in 1 .. l
<1> DEFINE q == (b - 1) \div PktLen
<1>0. PktLen \in Nat \ {0} /\ l * PktLen \in Nat
  BY PingAssumption
<1>1. q \in Nat /\ q * PktLen <= b - 1
  BY <1>0
<1> HIDE DEF q
<1>2. ASSUME l <= q PROVE FALSE
  <2>1. l * PktLen <= q * PktLen
    BY <1>0, <1>1, <1>2
  <2>2. q * PktLen \in Nat
    BY <1>0, <1>1
  <2> QED BY <1>0, <1>1, <2>1, <2>2
<1>3. q + 1 \in 1 .. l
  BY <1>1, <1>2
<1> QED BY <1>3 DEF PacketOf, q

\* A packet that has arrived behind what was echoed changes nothing.
LEMMA EchoedAppend ==
  ASSUME NEW out, NEW good \in Seq(BOOLEAN), NEW g \in BOOLEAN, NEW n \in Nat,
         n <= Len(good) * PktLen, Echoed(out, good, n)
  PROVE  Echoed(out, Append(good, g), n)
<1>1. Len(good) \in Nat /\ Len(good) * PktLen \in Nat
  BY PingAssumption, LenProperties
<1>2. ASSUME NEW b \in 1 .. n PROVE Append(good, g)[PacketOf(b)] = good[PacketOf(b)]
  <2>1. b \in 1 .. Len(good) * PktLen
    BY <1>1
  <2>2. PacketOf(b) \in 1 .. Len(good)
    BY <1>1, <2>1, PacketIn
  <2> QED BY <2>2, AppendProperties
<1> QED BY <1>2 DEF Echoed

\* A packet with another magic is passed over.
LEMMA EchoedSkip ==
  ASSUME NEW out, NEW good, NEW k \in Nat, ~good[k + 1], Echoed(out, good, k * PktLen)
  PROVE  Echoed(out, good, k * PktLen + PktLen)
<1>1. PktLen \in Nat \ {0} /\ k * PktLen \in Nat
  BY PingAssumption
<1>2. ASSUME NEW b \in 1 .. k * PktLen + PktLen, good[PacketOf(b)]
      PROVE  b \in 1 .. k * PktLen
  <2>1. CASE k * PktLen < b
    <3>1. PacketOf(b) = k + 1
      BY <1>1, <2>1, PacketAt
    <3> QED BY <1>2, <3>1
  <2> QED BY <1>1, <2>1
<1>3. \A b \in 1 .. k * PktLen : b \in 1 .. k * PktLen + PktLen
  BY <1>1
<1> QED BY <1>2, <1>3 DEF Echoed

\* write_all: what send takes of the packet comes next in the echo.
LEMMA EchoedMore ==
  ASSUME NEW out \in Seq(Nat), NEW good, NEW k \in Nat, NEW n \in Nat, NEW more \in Seq(Nat),
         good[k + 1], Echoed(out, good, n),
         k * PktLen <= n, n + Len(more) <= k * PktLen + PktLen,
         \A i \in DOMAIN more : more[i] = n + i
  PROVE  Echoed(out \o more, good, n + Len(more))
<1> DEFINE a == Len(out)
           c == Len(more)
           s == out \o more
<1>1. PktLen \in Nat \ {0} /\ k * PktLen \in Nat
  BY PingAssumption
<1>2. /\ a \in Nat /\ c \in Nat /\ DOMAIN out = 1 .. a /\ DOMAIN more = 1 .. c
      /\ DOMAIN s = 1 .. a + c
      /\ \A i \in 1 .. a : s[i] = out[i]
      /\ \A i \in a + 1 .. a + c : s[i] = more[i - a]
  <2>1. /\ s \in Seq(Nat) /\ Len(s) = a + c
        /\ \A i \in 1 .. a + c : s[i] = IF i <= a THEN out[i] ELSE more[i - a]
    BY ConcatProperties
  <2>2. a \in Nat /\ c \in Nat /\ DOMAIN out = 1 .. a /\ DOMAIN more = 1 .. c
    BY LenProperties
  <2>3. DOMAIN s = 1 .. a + c
    BY <2>1, LenProperties
  <2> HIDE DEF s, a, c
  <2> QED BY <2>1, <2>2, <2>3
<1>3. n + Len(more) = n + c
  OBVIOUS
<1> HIDE DEF s, a, c
<1>4. ASSUME NEW i \in a + 1 .. a + c PROVE s[i] = n + (i - a) /\ i - a \in 1 .. c
  <2>1. i - a \in 1 .. c
    BY <1>2
  <2>2. more[i - a] = n + (i - a)
    BY <1>2, <2>1
  <2> QED BY <1>2, <2>1, <2>2
<1>5. ASSUME NEW i \in 1 .. a PROVE s[i] \in 1 .. n /\ good[PacketOf(s[i])]
  <2>1. out[i] \in Range(out)
    BY <1>2 DEF Range
  <2> QED BY <1>2, <2>1 DEF Echoed
<1>6. InOrder(s)
  <2> SUFFICES ASSUME NEW i \in 1 .. a + c, NEW j \in 1 .. a + c, i < j PROVE s[i] < s[j]
    BY <1>2 DEF InOrder
  <2>1. CASE j <= a
    <3>1. i \in 1 .. a /\ j \in 1 .. a
      BY <1>2, <2>1
    <3>2. out[i] < out[j]
      BY <1>2, <3>1 DEF Echoed, InOrder
    <3> QED BY <1>2, <3>1, <3>2
  <2>2. CASE a < j /\ i <= a
    <3>1. s[i] \in 1 .. n /\ s[j] = n + (j - a) /\ j - a \in 1 .. c
      BY <1>2, <1>4, <1>5, <2>2
    <3> QED BY <3>1, <1>2
  <2>3. CASE a < i
    <3>1. s[i] = n + (i - a) /\ s[j] = n + (j - a)
      BY <1>2, <1>4, <2>3
    <3> QED BY <3>1, <1>2
  <2> QED BY <1>2, <2>1, <2>2, <2>3
<1>7. ASSUME NEW b \in n + 1 .. n + c PROVE b \in Nat /\ PacketOf(b) = k + 1
  <2>1. b \in Nat /\ k * PktLen < b /\ b <= k * PktLen + PktLen
    BY <1>1, <1>2, <1>3
  <2> QED BY <2>1, PacketAt
<1>8. ASSUME NEW i \in 1 .. a + c PROVE s[i] \in 1 .. n + c /\ good[PacketOf(s[i])]
  <2>1. CASE i <= a
    BY <1>2, <1>5, <2>1
  <2>2. CASE a < i
    <3>1. s[i] = n + (i - a) /\ i - a \in 1 .. c
      BY <1>2, <1>4, <2>2
    <3>2. s[i] \in n + 1 .. n + c
      BY <1>2, <3>1
    <3> QED BY <1>2, <1>7, <3>2
  <2> QED BY <1>2, <2>1, <2>2
<1>9. ASSUME NEW b \in 1 .. n + c, good[PacketOf(b)]
      PROVE  \E i \in 1 .. a + c : s[i] = b
  <2>1. CASE b <= n
    <3>1. b \in Range(out)
      BY <1>9, <2>1 DEF Echoed
    <3>2. PICK i \in 1 .. a : out[i] = b
      BY <1>2, <3>1 DEF Range
    <3>3. i \in 1 .. a + c /\ s[i] = b
      BY <1>2, <3>2
    <3> QED BY <3>3
  <2>2. CASE n < b
    <3>1. a + (b - n) \in a + 1 .. a + c
      BY <1>2, <2>2
    <3>2. s[a + (b - n)] = b
      BY <1>2, <1>4, <3>1
    <3> QED BY <1>2, <3>1, <3>2
  <2> QED BY <2>1, <2>2
<1>10. Range(s) = {b \in 1 .. n + c : good[PacketOf(b)]}
  <2> DEFINE B == {b \in 1 .. n + c : good[PacketOf(b)]}
  <2>1. ASSUME NEW e \in Range(s) PROVE e \in B
    <3>1. PICK i \in 1 .. a + c : e = s[i]
      BY <1>2 DEF Range
    <3> QED BY <1>8, <3>1
  <2>2. ASSUME NEW e \in B PROVE e \in Range(s)
    <3>1. PICK i \in 1 .. a + c : s[i] = e
      BY <1>9
    <3> QED BY <1>2, <3>1 DEF Range
  <2> QED BY <2>1, <2>2
<1> QED BY <1>3, <1>6, <1>10 DEF Echoed, s

-----------------------------------------------------------------------------
(* Steps of the TCP receiver *)

\* A step that reads and writes nothing keeps its place in the stream.
LEMMA EchoKept ==
  ASSUME NEW r, NEW t, EchoOK(r),
         t.read = r.read, t.good = r.good, t.buf = r.buf, t.left = r.left, t.out = r.out,
         \/ t.pc = r.pc
         \/ r.pc \in Starting /\ t.pc \in Starting \cup {"loop"}
         \/ t.pc \notin Starting \cup {"loop", "recv", "check", "send"}
  PROVE  EchoOK(t)
<1>1. PICK k \in Nat, n \in Nat : StreamOK(r, k, n)
  BY DEF EchoOK
<1>2. Position(t, k, n)
  BY <1>1 DEF StreamOK, Position, Starting
<1>3. BufferOK(t)
  BY <1>1 DEF StreamOK, BufferOK, Starting
<1>4. StreamOK(t, k, n)
  BY <1>1, <1>2, <1>3 DEF StreamOK
<1> QED BY <1>4 DEF EchoOK

\* The head of the loop: the next packet is read from its first byte.
LEMMA LoopHeadOK ==
  ASSUME NEW r, TcpOK(r), r.pc = "loop"
  PROVE  TcpOK(LoopHead(r))
<1> DEFINE t == [r EXCEPT !.pc = "recv", !.buf = <<>>, !.left = PktLen]
           u == [r EXCEPT !.pc = "close"]
<1>0. PktLen \in Nat \ {0} /\ r \in TcpStates
  BY PingAssumption DEF TcpOK
<1>1. LoopHead(r) = IF r.stop THEN u ELSE t
  BY <1>0 DEF LoopHead, Go, TcpStates
<1>2. TcpOK(u)
  <2>1. u \in TcpStates /\ ChildOK(u)
    BY <1>0 DEF TcpOK, ChildOK, TcpStates, Pcs, Starting
  <2>2. EchoOK(u)
    <3>1. /\ u.read = r.read /\ u.good = r.good /\ u.buf = r.buf /\ u.left = r.left
          /\ u.out = r.out /\ u.pc = "close"
      BY <1>0 DEF TcpStates
    <3> HIDE DEF u
    <3> QED BY <3>1, EchoKept DEF TcpOK, Starting
  <2> QED BY <2>1, <2>2 DEF TcpOK
<1>3. TcpOK(t)
  <2>1. t \in TcpStates
    BY <1>0, EmptySeq DEF TcpStates, Pcs
  <2>2. ChildOK(t)
    BY <1>0 DEF TcpOK, ChildOK, TcpStates, Starting
  <2>3. PICK k \in Nat, n \in Nat : StreamOK(r, k, n)
    BY DEF TcpOK, EchoOK
  <2>4. r.read = k * PktLen /\ n = k * PktLen
    BY <2>3 DEF StreamOK, Position
  <2>5. /\ t.read = r.read /\ t.good = r.good /\ t.buf = <<>> /\ t.left = PktLen
        /\ t.out = r.out /\ t.pc = "recv"
    BY <1>0 DEF TcpStates
  <2> HIDE DEF t
  <2>6. Len(t.buf) = 0 /\ DOMAIN t.buf = {}
    BY <2>5
  <2>7. k * PktLen \in Nat
    BY <1>0
  <2>8. Position(t, k, n)
    BY <1>0, <2>4, <2>5, <2>6, <2>7 DEF Position, Starting
  <2>9. BufferOK(t)
    BY <2>6 DEF BufferOK
  <2>10. StreamOK(t, k, n)
    BY <2>3, <2>5, <2>8, <2>9 DEF StreamOK
  <2> QED BY <2>1, <2>2, <2>10 DEF TcpOK, EchoOK
<1> QED BY <1>1, <1>2, <1>3

\* read_all: what recv returns is appended to the packet.
LEMMA ReadSomeOK ==
  ASSUME NEW r, TcpOK(r), r.pc = "recv", NEW n \in Nat \ {0}, n <= r.left,
         r.read + n <= Len(r.good) * PktLen
  PROVE  TcpOK(ReadSome(r, n))
<1> DEFINE more == [i \in 1 .. n |-> r.read + i]
           buf == r.buf \o more
           read == r.read + n
           left == r.left - n
           pc == IF left = 0 THEN "check" ELSE "recv"
           t == [r EXCEPT !.pc = pc, !.buf = buf, !.read = read, !.left = left]
<1>0. PktLen \in Nat \ {0} /\ r \in TcpStates
  BY PingAssumption DEF TcpOK
<1>1. ReadSome(r, n) = t
  BY <1>0 DEF ReadSome, Go, TcpStates
<1>2. /\ r.read \in Nat /\ r.left \in Nat /\ r.buf \in Seq(Nat) /\ Len(r.buf) \in Nat
      /\ DOMAIN r.buf = 1 .. Len(r.buf)
  BY <1>0, LenProperties DEF TcpStates
<1>3. read \in Nat /\ left \in Nat /\ pc \in Pcs
  BY <1>2 DEF Pcs
<1>4. more \in Seq(Nat) /\ Len(more) = n /\ \A i \in 1 .. n : more[i] = r.read + i
  <2>1. more \in [1 .. n -> Nat]
    BY <1>2
  <2>2. more \in Seq(Nat)
    BY <2>1, IsASeq
  <2> QED BY <2>1, <2>2, LenProperties
<1> HIDE DEF more
<1>5. /\ buf \in Seq(Nat) /\ Len(buf) = Len(r.buf) + n /\ DOMAIN buf = 1 .. Len(r.buf) + n
      /\ \A i \in 1 .. Len(r.buf) + n :
            buf[i] = IF i <= Len(r.buf) THEN r.buf[i] ELSE more[i - Len(r.buf)]
  <2>1. r.buf \in Seq(Nat) /\ more \in Seq(Nat) /\ Len(more) = n
    BY <1>2, <1>4
  <2>2. /\ buf \in Seq(Nat) /\ Len(buf) = Len(r.buf) + Len(more)
        /\ \A i \in 1 .. Len(r.buf) + Len(more) :
              buf[i] = IF i <= Len(r.buf) THEN r.buf[i] ELSE more[i - Len(r.buf)]
    BY <2>1, ConcatProperties
  <2>3. DOMAIN buf = 1 .. Len(buf)
    BY <2>2, LenProperties
  <2> QED BY <2>1, <2>2, <2>3
<1> HIDE DEF buf, read, left, pc
<1>6. /\ t \in TcpStates /\ t.pc = pc /\ t.buf = buf /\ t.read = read /\ t.left = left
      /\ t.good = r.good /\ t.out = r.out /\ t.child = r.child /\ t.pid = r.pid
      /\ t.fin = r.fin /\ t.rst = r.rst
  BY <1>0, <1>3, <1>5 DEF TcpStates
<1> HIDE DEF t
<1>7. pc \in {"check", "recv"}
  BY DEF pc
<1>8. ChildOK(t)
  BY <1>6, <1>7 DEF TcpOK, ChildOK, Starting
<1>9. PICK k \in Nat, d \in Nat : StreamOK(r, k, d)
  BY DEF TcpOK, EchoOK
<1>10. /\ Len(r.buf) + r.left = PktLen /\ r.read = k * PktLen + Len(r.buf)
       /\ d = k * PktLen /\ k * PktLen \in Nat
  BY <1>0, <1>9 DEF StreamOK, Position
<1>16. Len(buf) + left = PktLen /\ read = k * PktLen + Len(buf)
  <2> DEFINE lb == Len(r.buf)
             kp == k * PktLen
  <2>1. /\ lb \in Nat /\ kp \in Nat /\ r.left \in Nat /\ lb + r.left = PktLen
        /\ r.read = kp + lb /\ Len(buf) = lb + n
    BY <1>2, <1>5, <1>10
  <2> HIDE DEF lb, kp
  <2>2. Len(buf) + left = PktLen /\ read = kp + Len(buf)
    BY <1>0, <2>1 DEF left, read
  <2> QED BY <2>2 DEF kp
<1>11. Position(t, k, d)
  <2>3. Len(buf) \in Nat
    BY <1>2, <1>5
  <2>1. CASE left = 0
    <3>1. pc = "check"
      BY <2>1 DEF pc
    <3>2. Len(buf) = PktLen /\ read = k * PktLen + PktLen
      BY <1>0, <2>1, <2>3, <1>16
    <3> QED BY <1>6, <1>10, <3>1, <3>2 DEF Position, Starting
  <2>2. CASE left # 0
    <3>1. pc = "recv"
      BY <2>2 DEF pc
    <3> QED BY <1>6, <1>10, <1>16, <2>2, <3>1 DEF Position, Starting
  <2> QED BY <2>1, <2>2
<1>12. ASSUME NEW i \in DOMAIN buf PROVE buf[i] = read - Len(buf) + i
  <2>3. i \in 1 .. Len(r.buf) + n
    BY <1>5
  <2>4. buf[i] = IF i <= Len(r.buf) THEN r.buf[i] ELSE more[i - Len(r.buf)]
    BY <1>5, <2>3
  <2>1. CASE i <= Len(r.buf)
    <3>1. i \in DOMAIN r.buf
      BY <1>2, <2>1, <2>3
    <3>2. r.buf[i] = r.read - Len(r.buf) + i
      BY <1>9, <3>1 DEF StreamOK, BufferOK
    <3>3. buf[i] = r.buf[i] /\ i \in Nat
      BY <2>1, <2>3, <2>4
    <3>4. read - Len(buf) = r.read - Len(r.buf)
      BY <1>2, <1>5 DEF read
    <3> QED BY <3>2, <3>3, <3>4
  <2>2. CASE Len(r.buf) < i
    <3>1. i - Len(r.buf) \in 1 .. n
      BY <1>2, <2>2, <2>3
    <3>3. more[i - Len(r.buf)] = r.read + (i - Len(r.buf))
      BY <1>4, <3>1
    <3>4. buf[i] = more[i - Len(r.buf)]
      BY <1>2, <2>2, <2>3, <2>4
    <3>2. buf[i] = r.read + (i - Len(r.buf))
      BY <3>3, <3>4
    <3> QED BY <1>2, <1>5, <3>2 DEF read
  <2> QED BY <1>2, <2>1, <2>2, <2>3
<1>13. BufferOK(t)
  BY <1>6, <1>12 DEF BufferOK
<1>14. d <= read /\ read <= Len(r.good) * PktLen
  BY <1>2, <1>9, <1>10 DEF StreamOK, read
<1>15. StreamOK(t, k, d)
  BY <1>6, <1>9, <1>11, <1>13, <1>14 DEF StreamOK
<1> QED BY <1>1, <1>6, <1>8, <1>15 DEF TcpOK, EchoOK

\* A whole packet is echoed or passed over, by its magic.
LEMMA CheckOK ==
  ASSUME NEW r, TcpOK(r), r.pc = "check"
  PROVE  TcpOK(Check(r))
<1> DEFINE t == [r EXCEPT !.pc = "send", !.left = PktLen]
           u == [r EXCEPT !.pc = "loop"]
<1>0. PktLen \in Nat \ {0} /\ r \in TcpStates
  BY PingAssumption DEF TcpOK
<1>1. Check(r) = IF r.good[PacketOf(Last(r.buf))] THEN t ELSE u
  BY <1>0 DEF Check, Go, TcpStates
<1>2. PICK k \in Nat, n \in Nat : StreamOK(r, k, n)
  BY DEF TcpOK, EchoOK
<1>3. /\ Len(r.buf) = PktLen /\ r.read = k * PktLen + PktLen /\ n = k * PktLen
      /\ k * PktLen \in Nat
  BY <1>0, <1>2 DEF StreamOK, Position
<1>4. PacketOf(Last(r.buf)) = k + 1
  <2>1. Len(r.buf) \in DOMAIN r.buf
    BY <1>0, <1>3, LenProperties DEF TcpStates
  <2>2. Last(r.buf) = k * PktLen + PktLen
    <3>1. r.buf[Len(r.buf)] = r.read - Len(r.buf) + Len(r.buf)
      BY <1>2, <2>1 DEF StreamOK, BufferOK
    <3> QED BY <1>0, <1>3, <3>1 DEF Last
  <2>3. k * PktLen + PktLen \in Nat /\ k * PktLen < k * PktLen + PktLen
    BY <1>0, <1>3
  <2> QED BY <2>2, <2>3, PacketAt
<1>5. /\ t \in TcpStates /\ ChildOK(t) /\ t.pc = "send" /\ t.left = PktLen
      /\ t.read = r.read /\ t.good = r.good /\ t.buf = r.buf /\ t.out = r.out
  BY <1>0 DEF TcpOK, ChildOK, TcpStates, Pcs, Starting
<1>6. /\ u \in TcpStates /\ ChildOK(u) /\ u.pc = "loop"
      /\ u.read = r.read /\ u.good = r.good /\ u.buf = r.buf /\ u.out = r.out
  BY <1>0 DEF TcpOK, ChildOK, TcpStates, Pcs, Starting
<1> HIDE DEF t, u
<1>7. CASE r.good[k + 1]
  <2>1. Position(t, k, n)
    <3>1. PktLen \in 1 .. PktLen /\ n = k * PktLen + PktLen - PktLen
      BY <1>0, <1>3
    <3> QED BY <1>3, <1>5, <1>7, <3>1 DEF Position, Starting
  <2>2. StreamOK(t, k, n)
    BY <1>2, <1>5, <2>1 DEF StreamOK, BufferOK
  <2> QED BY <1>1, <1>4, <1>5, <1>7, <2>2 DEF TcpOK, EchoOK
<1>8. CASE ~r.good[k + 1]
  <2> DEFINE e == (k + 1) * PktLen
  <2>1. e = k * PktLen + PktLen /\ e \in Nat
    BY <1>0, <1>3
  <2> HIDE DEF e
  <2>2. Echoed(u.out, u.good, e)
    BY <1>2, <1>3, <1>6, <1>8, <2>1, EchoedSkip DEF StreamOK
  <2>3. Position(u, k + 1, e)
    BY <1>3, <1>6, <2>1 DEF Position, Starting, e
  <2>4. StreamOK(u, k + 1, e)
    BY <1>2, <1>3, <1>6, <2>1, <2>2, <2>3 DEF StreamOK, BufferOK
  <2> QED BY <1>1, <1>4, <1>6, <1>8, <2>1, <2>4 DEF TcpOK, EchoOK
<1> QED BY <1>7, <1>8

\* write_all: the rest of a packet follows what of it was sent before.
LEMMA SendSomeOK ==
  ASSUME NEW r, TcpOK(r), r.pc = "send", NEW n \in 1 .. r.left
  PROVE  TcpOK(SendSome(r, n))
<1> DEFINE done == PktLen - r.left
           more == SubSeq(r.buf, done + 1, done + n)
           out == r.out \o more
           left == r.left - n
           pc == IF left = 0 THEN "loop" ELSE "send"
           t == [r EXCEPT !.pc = pc, !.out = out, !.left = left]
<1>0. PktLen \in Nat \ {0} /\ r \in TcpStates
  BY PingAssumption DEF TcpOK
<1>1. SendSome(r, n) = t
  BY <1>0 DEF SendSome, Go, TcpStates
<1>2. PICK k \in Nat, d \in Nat : StreamOK(r, k, d)
  BY DEF TcpOK, EchoOK
<1> DEFINE kp == k * PktLen
<1>3. /\ r.left \in 1 .. PktLen /\ Len(r.buf) = PktLen /\ r.read = kp + PktLen
      /\ d = kp + PktLen - r.left /\ kp \in Nat
  BY <1>0, <1>2 DEF StreamOK, Position
<1>17. r.good[k + 1]
  BY <1>2 DEF StreamOK, Position
<1> HIDE DEF kp
<1>4. done \in Nat /\ done + n <= PktLen /\ left \in Nat /\ n \in Nat /\ n >= 1
  BY <1>0, <1>3
<1>18. pc \in Pcs
  BY DEF Pcs
<1>19. done = PktLen - r.left
  OBVIOUS
<1> HIDE DEF done
<1>5. r.buf \in Seq(Nat) /\ r.out \in Seq(Nat) /\ DOMAIN r.buf = 1 .. PktLen
  BY <1>0, <1>3, LenProperties DEF TcpStates
<1>6. /\ more \in Seq(Nat) /\ Len(more) = n /\ DOMAIN more = 1 .. n
      /\ \A i \in 1 .. n : more[i] = r.buf[done + i]
  <2>2. \A i \in done + 1 .. done + n : r.buf[i] \in Nat
    <3>1. \A i \in done + 1 .. done + n : i \in 1 .. Len(r.buf)
      BY <1>0, <1>3, <1>4
    <3> QED BY <1>5, <3>1, ElementOfSeq
  <2>3. /\ more \in Seq(Nat)
        /\ Len(more) = IF done + 1 <= done + n THEN (done + n) - (done + 1) + 1 ELSE 0
        /\ \A i \in 1 .. (done + n) - (done + 1) + 1 : more[i] = r.buf[done + 1 + i - 1]
    <3>1. done + 1 \in Int /\ done + n \in Int
      BY <1>4
    <3> QED BY <2>2, <3>1, SubSeqProperties DEF more
  <2>4. (done + n) - (done + 1) + 1 = n /\ done + 1 <= done + n
    BY <1>4
  <2>5. \A i \in 1 .. n : done + 1 + i - 1 = done + i
    BY <1>4
  <2> QED BY <2>3, <2>4, <2>5, LenProperties
<1> HIDE DEF more
<1>7. ASSUME NEW i \in 1 .. n PROVE more[i] = d + i
  <2>1. done + i \in 1 .. PktLen
    BY <1>0, <1>4
  <2>2. r.buf[done + i] = r.read - Len(r.buf) + (done + i)
    BY <1>2, <1>5, <2>1 DEF StreamOK, BufferOK
  <2>3. r.read - Len(r.buf) + (done + i) = d + i
    BY <1>0, <1>3, <1>4, <1>19
  <2> QED BY <1>6, <2>2, <2>3
<1>8. kp <= d /\ d + n <= kp + PktLen
  BY <1>0, <1>3
<1>9. Echoed(out, r.good, d + n) /\ out \in Seq(Nat)
  <2>1. Echoed(r.out, r.good, d)
    BY <1>2 DEF StreamOK
  <2>2. Echoed(r.out \o more, r.good, d + Len(more))
    BY <1>5, <1>6, <1>7, <1>8, <1>17, <2>1, EchoedMore DEF kp
  <2>3. out \in Seq(Nat)
    BY <1>5, <1>6, ConcatProperties
  <2> QED BY <1>6, <2>2, <2>3
<1> HIDE DEF out, left, pc
<1>10. /\ t \in TcpStates /\ t.pc = pc /\ t.out = out /\ t.left = left
       /\ t.read = r.read /\ t.buf = r.buf
       /\ t.good = r.good /\ t.child = r.child /\ t.pid = r.pid
       /\ t.fin = r.fin /\ t.rst = r.rst
  BY <1>0, <1>4, <1>9, <1>18 DEF TcpStates
<1> HIDE DEF t
<1>11. pc \in {"loop", "send"}
  BY DEF pc
<1>12. ChildOK(t)
  BY <1>10, <1>11 DEF TcpOK, ChildOK, Starting
<1>13. BufferOK(t)
  BY <1>2, <1>10 DEF StreamOK, BufferOK
<1>14. d + n \in Nat /\ d + n <= r.read
  BY <1>3, <1>4, <1>8
<1>15. CASE left = 0
  <2> DEFINE e == (k + 1) * PktLen
  <2>1. e = kp + PktLen /\ e \in Nat
    BY <1>0 DEF kp
  <2> HIDE DEF e
  <2>2. d + n = e
    BY <1>0, <1>3, <1>15, <2>1 DEF left
  <2>3. pc = "loop"
    BY <1>15 DEF pc
  <2>4. Position(t, k + 1, d + n)
    BY <1>3, <1>10, <2>1, <2>2, <2>3 DEF Position, Starting, e
  <2>5. StreamOK(t, k + 1, d + n)
    BY <1>2, <1>9, <1>10, <1>13, <1>14, <2>4 DEF StreamOK
  <2> QED BY <1>1, <1>10, <1>12, <1>14, <2>5 DEF TcpOK, EchoOK
<1>16. CASE left # 0
  <2>1. pc = "send"
    BY <1>16 DEF pc
  <2>2. left \in 1 .. PktLen /\ d + n = kp + PktLen - left
    BY <1>0, <1>3, <1>4, <1>16 DEF left
  <2>3. Position(t, k, d + n)
    BY <1>3, <1>10, <1>17, <2>1, <2>2 DEF Position, Starting, kp
  <2>4. StreamOK(t, k, d + n)
    BY <1>2, <1>9, <1>10, <1>13, <1>14, <2>3 DEF StreamOK
  <2> QED BY <1>1, <1>10, <1>12, <1>14, <2>4 DEF TcpOK, EchoOK
<1> QED BY <1>15, <1>16

\* A packet arrives behind the others.
LEMMA ArrivalOK ==
  ASSUME NEW r, TcpOK(r), NEW g \in BOOLEAN
  PROVE  TcpOK([r EXCEPT !.good = Append(@, g)])
<1> DEFINE good == Append(r.good, g)
           t == [r EXCEPT !.good = good]
<1>0. PktLen \in Nat \ {0} /\ r \in TcpStates
  BY PingAssumption DEF TcpOK
<1>1. r.good \in Seq(BOOLEAN) /\ Len(r.good) \in Nat /\ r.read \in Nat
  BY <1>0, LenProperties DEF TcpStates
<1>2. /\ good \in Seq(BOOLEAN) /\ Len(good) = Len(r.good) + 1
      /\ \A i \in 1 .. Len(r.good) : good[i] = r.good[i]
  BY <1>1, AppendProperties
<1> HIDE DEF good
<1>3. /\ t \in TcpStates /\ ChildOK(t) /\ t.good = good /\ t.pc = r.pc /\ t.read = r.read
      /\ t.buf = r.buf /\ t.left = r.left /\ t.out = r.out
  BY <1>0, <1>2 DEF TcpOK, ChildOK, TcpStates
<1> HIDE DEF t
<1>4. PICK k \in Nat, n \in Nat : StreamOK(r, k, n)
  BY DEF TcpOK, EchoOK
<1>5. n <= r.read /\ r.read <= Len(r.good) * PktLen
  BY <1>4 DEF StreamOK
<1>6. Len(r.good) * PktLen \in Nat /\ Len(good) * PktLen = Len(r.good) * PktLen + PktLen
  BY <1>0, <1>1, <1>2
<1>7. n <= Len(r.good) * PktLen /\ r.read <= Len(good) * PktLen
  BY <1>0, <1>1, <1>5, <1>6
<1>8. Echoed(t.out, t.good, n)
  BY <1>1, <1>3, <1>4, <1>7, EchoedAppend DEF StreamOK, good
<1>9. ASSUME r.pc = "send" PROVE good[k + 1] = r.good[k + 1]
  <2>1. r.read = k * PktLen + PktLen
    BY <1>4, <1>9 DEF StreamOK, Position
  <2>2. k * PktLen \in Nat /\ (k + 1) * PktLen = k * PktLen + PktLen
    BY <1>0
  <2>3. ASSUME Len(r.good) < k + 1 PROVE FALSE
    <3>1. Len(r.good) * PktLen <= k * PktLen
      BY <1>0, <1>1, <2>3
    <3> QED BY <1>0, <1>5, <1>6, <2>1, <2>2, <3>1
  <2>4. k + 1 \in 1 .. Len(r.good)
    BY <1>1, <2>3
  <2> QED BY <1>2, <2>4
<1>10. Position(t, k, n)
  BY <1>3, <1>4, <1>9 DEF StreamOK, Position
<1>11. StreamOK(t, k, n)
  BY <1>3, <1>4, <1>5, <1>7, <1>8, <1>10 DEF StreamOK, BufferOK
<1> QED BY <1>3, <1>11 DEF TcpOK, EchoOK, good, t

\* The smaller of two numbers.
LEMMA MinPair ==
  ASSUME NEW a \in Int, NEW b \in Int
  PROVE  Min({a, b}) \in Int /\ Min({a, b}) <= a /\ Min({a, b}) <= b
<1>1. \E x \in {a, b} : \A y \in {a, b} : x =< y
  <2>1. CASE a <= b
    BY <2>1
  <2>2. CASE b <= a
    BY <2>2
  <2> QED BY <2>1, <2>2
<1>2. Min({a, b}) \in {a, b} /\ \A y \in {a, b} : Min({a, b}) =< y
  BY <1>1 DEF Min
<1> QED BY <1>2

\* What main, the child, a signal and the server do besides keeps the invariant.
LEMMA QuietOK ==
  ASSUME NEW r, TcpOK(r), NEW t \in TcpStates, ChildOK(t),
         t.read = r.read, t.good = r.good, t.buf = r.buf, t.left = r.left, t.out = r.out,
         \/ t.pc = r.pc
         \/ r.pc \in Starting /\ t.pc \in Starting \cup {"loop"}
         \/ t.pc \notin Starting \cup {"loop", "recv", "check", "send"}
  PROVE  TcpOK(t)
BY EchoKept DEF TcpOK

\* The calls of main that return at once.
LEMMA MainStepOK ==
  ASSUME TcpOK(tcp), MainStep
  PROVE  TcpOK(tcp')
<1>0. tcp \in TcpStates /\ ChildOK(tcp)
  BY DEF TcpOK
<1>1. ASSUME NEW ok \in BOOLEAN, tcp.pc = "pop_ip", tcp' = GetPopIp(tcp, ok)
      PROVE  TcpOK(tcp')
  <2>1. /\ tcp' \in TcpStates /\ ChildOK(tcp') /\ tcp'.pc = "connect"
        /\ tcp'.read = tcp.read /\ tcp'.good = tcp.good /\ tcp'.buf = tcp.buf
        /\ tcp'.left = tcp.left /\ tcp'.out = tcp.out
    BY <1>0, <1>1 DEF GetPopIp, Go, TcpStates, ChildOK, Pcs, Starting
  <2> QED BY <1>1, <2>1, QuietOK DEF Starting
<1>2. ASSUME NEW ok \in BOOLEAN, tcp.pc = "connect", tcp' = ConnectServer(tcp, ok)
      PROVE  TcpOK(tcp')
  <2>1. /\ tcp' \in TcpStates /\ ChildOK(tcp') /\ tcp'.pc \in {"fork", "failed"}
        /\ tcp'.read = tcp.read /\ tcp'.good = tcp.good /\ tcp'.buf = tcp.buf
        /\ tcp'.left = tcp.left /\ tcp'.out = tcp.out
    BY <1>0, <1>2 DEF ConnectServer, Go, TcpStates, ChildOK, Pcs, Starting
  <2> QED BY <1>2, <2>1, QuietOK DEF Starting
<1>3. ASSUME NEW ok \in BOOLEAN, tcp.pc = "fork", tcp' = StartChild(tcp, ok)
      PROVE  TcpOK(tcp')
  <2> DEFINE a == [tcp EXCEPT !.pc = "loop"]
             b == [tcp EXCEPT !.pc = "loop", !.pid = TRUE, !.child = "forked"]
  <2>1. tcp' = a \/ tcp' = b
    BY <1>0, <1>3 DEF StartChild, Go, TcpStates
  <2>2. /\ a \in TcpStates /\ ChildOK(a) /\ a.pc = "loop"
        /\ a.read = tcp.read /\ a.good = tcp.good /\ a.buf = tcp.buf
        /\ a.left = tcp.left /\ a.out = tcp.out
    BY <1>0 DEF TcpStates, ChildOK, Pcs, Starting
  <2>3. /\ b \in TcpStates /\ ChildOK(b) /\ b.pc = "loop"
        /\ b.read = tcp.read /\ b.good = tcp.good /\ b.buf = tcp.buf
        /\ b.left = tcp.left /\ b.out = tcp.out
    BY <1>0 DEF TcpStates, ChildOK, Pcs, Starting, Children, Running
  <2> HIDE DEF a, b
  <2>4. TcpOK(a)
    BY <1>3, <2>2, QuietOK DEF Starting
  <2>5. TcpOK(b)
    BY <1>3, <2>3, QuietOK DEF Starting
  <2> QED BY <2>1, <2>4, <2>5
<1>4. ASSUME tcp.pc = "close", tcp' = CloseSocket(tcp)
      PROVE  TcpOK(tcp')
  <2>1. /\ tcp' \in TcpStates /\ ChildOK(tcp') /\ tcp'.pc \in {"sigterm", "plot"}
        /\ tcp'.read = tcp.read /\ tcp'.good = tcp.good /\ tcp'.buf = tcp.buf
        /\ tcp'.left = tcp.left /\ tcp'.out = tcp.out
    BY <1>0, <1>4 DEF CloseSocket, Go, TcpStates, ChildOK, Pcs, Starting, Children, Running
  <2> QED BY <1>4, <2>1, QuietOK DEF Starting
<1>5. ASSUME tcp.pc = "sigterm", tcp' = Sigterm(tcp)
      PROVE  TcpOK(tcp')
  <2>1. /\ tcp' \in TcpStates /\ ChildOK(tcp') /\ tcp'.pc = "usleep"
        /\ tcp'.read = tcp.read /\ tcp'.good = tcp.good /\ tcp'.buf = tcp.buf
        /\ tcp'.left = tcp.left /\ tcp'.out = tcp.out
    BY <1>0, <1>5 DEF Sigterm, Go, TcpStates, ChildOK, Pcs, Starting, Children, Running
  <2> QED BY <1>5, <2>1, QuietOK DEF Starting
<1>6. ASSUME tcp.pc = "sigkill", tcp' = Sigkill(tcp)
      PROVE  TcpOK(tcp')
  <2>1. /\ tcp' \in TcpStates /\ ChildOK(tcp') /\ tcp'.pc = "waitpid"
        /\ tcp'.read = tcp.read /\ tcp'.good = tcp.good /\ tcp'.buf = tcp.buf
        /\ tcp'.left = tcp.left /\ tcp'.out = tcp.out
    BY <1>0, <1>6 DEF Sigkill, Go, TcpStates, ChildOK, Pcs, Starting, Children, Running
  <2> QED BY <1>6, <2>1, QuietOK DEF Starting
<1>7. ASSUME NEW pc \in {"sigkill", "exit"}, tcp.pc = IF pc = "exit" THEN "plot" ELSE "usleep",
             tcp' = Go(tcp, pc)
      PROVE  TcpOK(tcp')
  <2>1. /\ tcp' \in TcpStates /\ ChildOK(tcp') /\ tcp'.pc = pc
        /\ tcp'.read = tcp.read /\ tcp'.good = tcp.good /\ tcp'.buf = tcp.buf
        /\ tcp'.left = tcp.left /\ tcp'.out = tcp.out
    BY <1>0, <1>7 DEF Go, TcpStates, ChildOK, Pcs, Starting
  <2> QED BY <1>7, <2>1, QuietOK DEF Starting
<1> QED BY <1>1, <1>2, <1>3, <1>4, <1>5, <1>6, <1>7, LoopHeadOK, CheckOK DEF MainStep

\* recv and send, whole, in part or failing.
LEMMA IoStepOK ==
  ASSUME TcpOK(tcp), RecvStep \/ SendStep
  PROVE  TcpOK(tcp')
<1>0. tcp \in TcpStates /\ ChildOK(tcp) /\ PktLen \in Nat \ {0}
  BY PingAssumption DEF TcpOK
<1>1. ASSUME tcp.pc = "recv", NEW n \in 1 .. Min({tcp.left, Waiting}),
             tcp' = ReadSome(tcp, n)
      PROVE  TcpOK(tcp')
  <2> DEFINE a == Len(tcp.good) * PktLen
  <2>1. tcp.left \in Int /\ tcp.read \in Int /\ a \in Int /\ Waiting = a - tcp.read
    BY <1>0, LenProperties DEF Waiting, TcpStates
  <2> HIDE DEF a
  <2>2. Waiting \in Int
    BY <2>1
  <2> DEFINE w == Min({tcp.left, Waiting})
  <2>5. w \in Int /\ w <= tcp.left /\ w <= Waiting
    BY <2>1, <2>2, MinPair
  <2>6. n \in 1 .. w
    OBVIOUS
  <2> HIDE DEF w
  <2>3. n <= tcp.left /\ n <= Waiting /\ n \in Nat \ {0}
    BY <2>1, <2>2, <2>5, <2>6
  <2>4. tcp.read + n <= a
    BY <2>1, <2>3
  <2> QED BY <1>1, <2>3, <2>4, ReadSomeOK DEF a
<1>2. ASSUME tcp.pc = "recv", tcp' = Go(tcp, "close")
      PROVE  TcpOK(tcp')
  <2>1. /\ tcp' \in TcpStates /\ ChildOK(tcp') /\ tcp'.pc = "close"
        /\ tcp'.read = tcp.read /\ tcp'.good = tcp.good /\ tcp'.buf = tcp.buf
        /\ tcp'.left = tcp.left /\ tcp'.out = tcp.out
    BY <1>0, <1>2 DEF Go, TcpStates, ChildOK, Pcs, Starting
  <2> QED BY <2>1, QuietOK DEF Starting
<1>3. ASSUME tcp.pc = "send", tcp.rst, tcp' = SendFails(tcp)
      PROVE  TcpOK(tcp')
  <2>1. /\ tcp' \in TcpStates /\ ChildOK(tcp') /\ tcp'.pc \in {"killed", "close"}
        /\ tcp'.read = tcp.read /\ tcp'.good = tcp.good /\ tcp'.buf = tcp.buf
        /\ tcp'.left = tcp.left /\ tcp'.out = tcp.out
    BY <1>0, <1>3 DEF SendFails, Go, TcpStates, ChildOK, Pcs, Starting
  <2> QED BY <2>1, QuietOK DEF Starting
<1> QED BY <1>1, <1>2, <1>3, SendSomeOK DEF RecvStep, SendStep

\* waitpid, the child, a signal and the server.
LEMMA OtherStepOK ==
  ASSUME TcpOK(tcp), WaitStep \/ Child \/ Signal \/ ServerStep
  PROVE  TcpOK(tcp')
<1>0. tcp \in TcpStates /\ ChildOK(tcp)
  BY DEF TcpOK
<1>1. CASE WaitStep
  <2> DEFINE t == [tcp EXCEPT !.child = "reaped", !.pid = FALSE, !.pc = "plot"]
  <2>1. tcp' = t
    BY <1>0, <1>1 DEF WaitStep, Waitpid, Go, TcpStates
  <2>2. /\ t \in TcpStates /\ t.pc = "plot" /\ t.child = "reaped" /\ t.pid = FALSE
        /\ t.read = tcp.read /\ t.good = tcp.good /\ t.buf = tcp.buf
        /\ t.left = tcp.left /\ t.out = tcp.out
    BY <1>0 DEF TcpStates, Pcs, Children
  <2> HIDE DEF t
  <2>4. (t.child \in Running) = FALSE
    BY <2>2 DEF Running
  <2>3. ChildOK(t)
    BY <2>2, <2>4 DEF ChildOK, Starting
  <2> QED BY <2>1, <2>2, <2>3, QuietOK DEF Starting
<1>2. CASE Child
  <2>1. PICK ok \in BOOLEAN : tcp.child \in {"forked", "grouped"} /\ tcp' = ChildStep(tcp, ok)
    BY <1>2 DEF Child
  <2>2. /\ tcp' \in TcpStates /\ ChildOK(tcp') /\ tcp'.pc = tcp.pc
        /\ tcp'.read = tcp.read /\ tcp'.good = tcp.good /\ tcp'.buf = tcp.buf
        /\ tcp'.left = tcp.left /\ tcp'.out = tcp.out
    BY <1>0, <2>1 DEF ChildStep, TcpStates, ChildOK, Starting, Children, Running
  <2> QED BY <2>2, QuietOK
<1>3. CASE Signal
  <2>1. /\ tcp' \in TcpStates /\ ChildOK(tcp') /\ tcp'.pc = tcp.pc
        /\ tcp'.read = tcp.read /\ tcp'.good = tcp.good /\ tcp'.buf = tcp.buf
        /\ tcp'.left = tcp.left /\ tcp'.out = tcp.out
    BY <1>0, <1>3 DEF Signal, TcpStates, ChildOK
  <2> QED BY <2>1, QuietOK
<1>4. CASE ServerCloses
  <2>1. /\ tcp' \in TcpStates /\ ChildOK(tcp') /\ tcp'.pc = tcp.pc
        /\ tcp'.read = tcp.read /\ tcp'.good = tcp.good /\ tcp'.buf = tcp.buf
        /\ tcp'.left = tcp.left /\ tcp'.out = tcp.out
    BY <1>0, <1>4 DEF ServerCloses, TcpStates, ChildOK
  <2> QED BY <2>1, QuietOK
<1>5. ASSUME NEW g \in BOOLEAN, ServerSends(g) PROVE TcpOK(tcp')
  BY <1>5, ArrivalOK DEF ServerSends
<1> QED BY <1>1, <1>2, <1>3, <1>4, <1>5 DEF ServerStep

-----------------------------------------------------------------------------
(* The UDP receiver and the RTT monitor *)

UdpStates ==
    [registered : BOOLEAN, arrived : Nat, buf : [magic : BOOLEAN, seq : Nat], echoed : Seq(Nat)]

\* Pings are echoed in the order of their arrival, the newest last.
UdpOK(u) ==
    /\ u \in UdpStates
    /\ InOrder(u.echoed)
    /\ \A i \in DOMAIN u.echoed : u.echoed[i] > 0 /\ u.echoed[i] <= u.arrived

MonStates ==
    [time : Nat, wall : Int, last : Int, lines : Nat, stepped : BOOLEAN,
     report : {"none", "rtt", "reconfig"}]

\* Unless the clock was stepped it stands where the last line left it.
MonOK(n) == n \in MonStates /\ (~n.stepped => n.wall = n.last)

\* udp_ping_receiver.c echoes a datagram at most once, when it arrives.
LEMMA UdpStepOK ==
  ASSUME UdpOK(udp), UdpNext
  PROVE  UdpOK(udp')
<1>0. udp \in UdpStates
  BY DEF UdpOK
<1>1. ASSUME NEW ok \in BOOLEAN, Register(ok) PROVE UdpOK(udp')
  BY <1>0, <1>1 DEF Register, UdpOK, UdpStates
<1>2. ASSUME NEW d \in Datagrams, UdpRecv(d) PROVE UdpOK(udp')
  <2> DEFINE n == udp.arrived + 1
             buf == Received(udp.buf, d, n)
             e == udp.echoed
             echo == Echo(d, buf)
             echoed == e \o echo
             t == [udp EXCEPT !.arrived = n, !.buf = buf, !.echoed = echoed]
  <2>1. udp' = t
    BY <1>2 DEF UdpRecv
  <2>2. /\ n \in Nat /\ udp.arrived \in Nat /\ e \in Seq(Nat) /\ Len(e) \in Nat
        /\ DOMAIN e = 1 .. Len(e)
    BY <1>0, LenProperties DEF UdpStates
  <2>3. buf \in [magic : BOOLEAN, seq : Nat]
    BY <1>0, <2>2 DEF Received, UdpStates, Datagrams
  <2>4. echo = <<>> \/ echo = <<n>>
    BY DEF Echo, Received
  <2> HIDE DEF n, buf, echo
  <2>5. /\ echoed \in Seq(Nat) /\ InOrder(echoed)
        /\ \A i \in DOMAIN echoed : echoed[i] > 0 /\ echoed[i] <= n
    <3>1. CASE echo = <<>>
      <4>1. echoed = e
        BY <2>2, <3>1, ConcatEmptySeq
      <4>2. \A i \in DOMAIN e : e[i] > 0 /\ e[i] <= udp.arrived /\ e[i] \in Nat
        BY <2>2, ElementOfSeq DEF UdpOK
      <4>3. InOrder(e)
        BY DEF UdpOK
      <4> HIDE DEF echoed, e
      <4>4. \A i \in DOMAIN e : e[i] > 0 /\ e[i] <= n
        BY <2>2, <4>2 DEF n
      <4> QED BY <2>2, <4>1, <4>3, <4>4
    <3>2. CASE echo = <<n>>
      <4>1. echoed = Append(e, n)
        BY <2>2, <3>2, AppendIsConcat
      <4>2. /\ echoed \in Seq(Nat) /\ DOMAIN echoed = 1 .. Len(e) + 1
            /\ \A i \in 1 .. Len(e) : echoed[i] = e[i]
            /\ echoed[Len(e) + 1] = n
        <5>1. /\ echoed \in Seq(Nat) /\ Len(echoed) = Len(e) + 1
              /\ \A i \in 1 .. Len(e) : echoed[i] = e[i]
              /\ echoed[Len(e) + 1] = n
          BY <2>2, <4>1, AppendProperties
        <5> QED BY <5>1, LenProperties
      <4> HIDE DEF echoed, e
      <4>3. \A i \in 1 .. Len(e) : e[i] > 0 /\ e[i] < n /\ e[i] \in Int
        <5>1. \A i \in 1 .. Len(e) : e[i] > 0 /\ e[i] <= udp.arrived
          BY <2>2 DEF UdpOK, e
        <5>2. \A i \in 1 .. Len(e) : e[i] \in Nat
          BY <2>2, ElementOfSeq
        <5> QED BY <2>2, <5>1, <5>2 DEF n
      <4>4. ASSUME NEW i \in 1 .. Len(e) + 1, NEW j \in 1 .. Len(e) + 1, i < j
            PROVE  echoed[i] < echoed[j]
        <5>1. CASE j = Len(e) + 1
          BY <2>2, <4>2, <4>3, <4>4, <5>1
        <5>2. CASE j # Len(e) + 1
          <6>1. i \in 1 .. Len(e) /\ j \in 1 .. Len(e)
            BY <2>2, <4>4, <5>2
          <6>2. e[i] < e[j]
            BY <2>2, <4>4, <6>1 DEF UdpOK, InOrder, e
          <6> QED BY <4>2, <6>1, <6>2
        <5> QED BY <5>1, <5>2
      <4>5. ASSUME NEW i \in 1 .. Len(e) + 1 PROVE echoed[i] > 0 /\ echoed[i] <= n
        <5>1. CASE i = Len(e) + 1
          BY <2>2, <4>2, <5>1 DEF n
        <5>2. CASE i # Len(e) + 1
          <6>1. i \in 1 .. Len(e)
            BY <2>2, <5>2
          <6> QED BY <2>2, <4>2, <4>3, <6>1
        <5> QED BY <5>1, <5>2
      <4>6. InOrder(echoed)
        BY <4>2, <4>4 DEF InOrder
      <4> QED BY <4>2, <4>5, <4>6
    <3> QED BY <2>4, <3>1, <3>2
  <2> HIDE DEF echoed
  <2>6. t \in UdpStates /\ t.arrived = n /\ t.echoed = echoed
    BY <1>0, <2>2, <2>3, <2>5 DEF UdpStates
  <2> HIDE DEF t
  <2> QED BY <2>1, <2>5, <2>6 DEF UdpOK
<1> QED BY <1>1, <1>2 DEF UdpNext

\* monitor_ping.c: a line moves the clock and the time of the last line together.
LEMMA MonStepOK ==
  ASSUME MonOK(mon), MonNext
  PROVE  /\ MonOK(mon')
         /\ mon'.lines > mon.lines /\ ~mon.stepped =>
              (mon'.report = "reconfig" <=> mon'.time - mon.time > Threshold)
<1>0. mon \in MonStates /\ Threshold \in Nat /\ Gaps \subseteq Nat
  BY RttAssumption DEF MonOK
<1>1. ASSUME NEW gap \in Gaps, NEW reply \in BOOLEAN, Line(gap, reply)
      PROVE  /\ MonOK(mon')
             /\ ~mon.stepped =>
                  (mon'.report = "reconfig" <=> mon'.time - mon.time > Threshold)
  <2> DEFINE wall == mon.wall + gap
             time == mon.time + gap
             lines == mon.lines + 1
             report == Report(wall - mon.last, reply)
             t == [mon EXCEPT !.time = time, !.wall = wall, !.lines = lines,
                              !.report = report, !.last = wall, !.stepped = FALSE]
  <2>1. mon' = t
    BY <1>1 DEF Line
  <2>2. gap \in Nat /\ wall \in Int /\ time \in Nat /\ lines \in Nat
    BY <1>0 DEF MonStates
  <2>3. report \in {"none", "rtt", "reconfig"}
    BY DEF Report
  <2>4. ~mon.stepped => wall - mon.last = gap
    BY <1>0, <2>2 DEF MonOK, MonStates
  <2>5. ~mon.stepped => (report = "reconfig" <=> gap > Threshold)
    BY <2>4 DEF Report
  <2>6. time - mon.time = gap
    BY <1>0, <2>2 DEF MonStates
  <2> HIDE DEF wall, time, lines, report
  <2>7. /\ t \in MonStates /\ t.time = time /\ t.wall = t.last /\ t.report = report
    BY <1>0, <2>2, <2>3 DEF MonStates
  <2> HIDE DEF t
  <2> QED BY <2>1, <2>5, <2>6, <2>7 DEF MonOK
<1>2. ASSUME NEW by \in {-Threshold, Threshold}, ClockStep(by)
      PROVE  MonOK(mon') /\ mon'.lines = mon.lines
  <2>1. by \in Int
    BY <1>0
  <2> DEFINE wall == mon.wall + by
  <2>2. wall \in Int
    BY <1>0, <2>1 DEF MonStates
  <2>3. mon' = [mon EXCEPT !.wall = wall, !.stepped = TRUE, !.report = "none"]
    BY <1>2 DEF ClockStep
  <2> HIDE DEF wall
  <2>4. mon' \in MonStates /\ mon'.stepped = TRUE /\ mon'.lines = mon.lines
    BY <1>0, <2>2, <2>3 DEF MonStates
  <2> QED BY <2>4 DEF MonOK
<1>3. mon.lines \in Int
  BY <1>0 DEF MonStates
<1> QED BY <1>1, <1>2, <1>3 DEF MonNext

-----------------------------------------------------------------------------
(* The programs *)

PingInv == TcpOK(tcp) /\ UdpOK(udp) /\ MonOK(mon)

\* Nothing has been read, sent or forked when the programs start.
LEMMA InitPingInv == PingInit => PingInv
<1> SUFFICES ASSUME PingInit PROVE PingInv
  OBVIOUS
<1>5. ("none" \in Running) = FALSE
  BY DEF Running
<1>1. tcp \in TcpStates /\ ChildOK(tcp)
  BY <1>5, EmptySeq DEF PingInit, TcpInit, TcpStates, ChildOK, Pcs, Children, Starting
<1>2. EchoOK(tcp)
  <2>1. /\ tcp.read = 0 /\ tcp.good = <<>> /\ tcp.buf = <<>> /\ tcp.out = <<>>
        /\ tcp.pc = "pop_ip"
    BY DEF PingInit, TcpInit
  <2>2. 0 * PktLen = 0 /\ Len(tcp.good) = 0
    BY <2>1, PingAssumption
  <2>3. Echoed(tcp.out, tcp.good, 0)
    BY <2>1 DEF Echoed, InOrder, Range
  <2>4. Position(tcp, 0, 0) /\ BufferOK(tcp)
    BY <2>1, <2>2 DEF Position, BufferOK, Starting
  <2>5. StreamOK(tcp, 0, 0)
    BY <2>1, <2>2, <2>3, <2>4 DEF StreamOK
  <2> QED BY <2>5 DEF EchoOK
<1>3. UdpOK(udp)
  BY EmptySeq DEF PingInit, UdpInit, UdpOK, UdpStates, InOrder
<1>4. MonOK(mon)
  BY DEF PingInit, MonInit, MonOK, MonStates
<1> QED BY <1>1, <1>2, <1>3, <1>4 DEF PingInv, TcpOK

\* The programs keep their invariants.
LEMMA NextPingInv == PingInv /\ [PingNext]_vars => PingInv'
<1> SUFFICES ASSUME PingInv, [PingNext]_vars PROVE PingInv'
  OBVIOUS
<1>1. CASE TcpNext /\ UNCHANGED <<udp, mon>>
  BY <1>1, MainStepOK, IoStepOK, OtherStepOK DEF PingInv, TcpNext
<1>2. CASE UdpNext /\ UNCHANGED <<tcp, mon>>
  BY <1>2, UdpStepOK DEF PingInv
<1>3. CASE MonNext /\ UNCHANGED <<tcp, udp>>
  BY <1>3, MonStepOK DEF PingInv
<1>4. CASE UNCHANGED vars
  BY <1>4 DEF PingInv, vars
<1> QED BY <1>1, <1>2, <1>3, <1>4 DEF PingNext

\* The invariant holds in every state of every program.
LEMMA PingInvariant == PingSpec => []PingInv
BY InitPingInv, NextPingInv, PTL DEF PingSpec

\* Echoes are intact for packets of any size and number, however recv and send
\* cut the stream and whatever datagrams arrive.
THEOREM EchoesAlwaysIntact == PingSpec => []EchoesIntact
<1>1. PingInv => EchoesIntact
  <2> SUFFICES ASSUME PingInv PROVE EchoesIntact
    OBVIOUS
  <2>1. InOrder(udp.echoed) /\ \A i \in DOMAIN udp.echoed : udp.echoed[i] > 0
    BY DEF PingInv, UdpOK
  <2>2. PICK k \in Nat, n \in Nat : StreamOK(tcp, k, n)
    BY DEF PingInv, TcpOK, EchoOK
  <2> DEFINE a == Len(tcp.good) * PktLen
  <2>3. a \in Nat /\ tcp.read \in Nat
    BY PingAssumption, LenProperties DEF PingInv, TcpOK, TcpStates
  <2>4. n <= a
    BY <2>2, <2>3 DEF StreamOK
  <2>5. InOrder(tcp.out) /\ Range(tcp.out) = {b \in 1 .. n : tcp.good[PacketOf(b)]}
    BY <2>2 DEF StreamOK, Echoed
  <2> HIDE DEF a
  <2>6. Goods = {b \in 1 .. a : tcp.good[PacketOf(b)]}
    BY DEF Goods, a
  <2>7. Range(tcp.out) \subseteq Goods
    BY <2>3, <2>4, <2>5, <2>6
  <2>8. \A b \in Goods, e \in Range(tcp.out) : b < e => b \in Range(tcp.out)
    BY <2>3, <2>5, <2>6
  <2> QED BY <2>1, <2>5, <2>7, <2>8 DEF EchoesIntact
<1> QED BY <1>1, PingInvariant, PTL

\* A receiver whose main returns leaves no ping behind.
THEOREM ChildNeverLeft == PingSpec => []NoPopOrphan
<1>1. PingInv => NoPopOrphan
  BY DEF PingInv, TcpOK, ChildOK, NoPopOrphan, Starting
<1> QED BY <1>1, PingInvariant, PTL

\* Every gap between two lines is reported as a reconfiguration, and nothing else is.
THEOREM EveryGapReported == PingSpec => ReconfigIsGap
<1>1. PingInv /\ [PingNext]_vars =>
        [mon'.lines > mon.lines /\ ~mon.stepped =>
           (mon'.report = "reconfig" <=> mon'.time - mon.time > Threshold)]_mon
  <2> SUFFICES ASSUME PingInv, [PingNext]_vars, mon' # mon
               PROVE  mon'.lines > mon.lines /\ ~mon.stepped =>
                        (mon'.report = "reconfig" <=> mon'.time - mon.time > Threshold)
    OBVIOUS
  <2>1. MonNext
    BY DEF PingNext, vars
  <2> QED BY <2>1, MonStepOK DEF PingInv
<1> QED BY <1>1, PingInvariant, PTL DEF PingSpec, ReconfigIsGap
=============================================================================
