--------------------------- MODULE TcpHeaderProofs ---------------------------
(***************************************************************************)
(* The room in a header and the size of a segment, for every set of keys,  *)
(* cookies, MTUs, windows and numbers of SACK blocks.                      *)
(***************************************************************************)
EXTENDS TcpHeader, FiniteSetTheorems, TLAPS

-----------------------------------------------------------------------------
(* Options *)

NameSets == SUBSET Names
Opts == [set : NameSets, key : Keys, sacks : Nat, cookie : Nat, mptcp : Nat, bpf : Nat,
         left : Int]

\* What was reserved is what will be written, in whole words
Exact(o) == o \in Opts /\ OptionsWrite(o) = MaxOptionSpace - o.left /\ o.left % 4 = 0

\* A key's authentication code has at most 16 bytes.
LEMMA KeyMac ==
  ASSUME NEW key \in Keys
  PROVE  /\ key.mac \in 0 .. 16 /\ key.type \in {"none", "md5", "ao"}
         /\ key.type = "md5" => key.mac = 16
<1>1. CASE key = NoKey
  BY <1>1 DEF NoKey
<1>2. CASE key = [type |-> "md5", mac |-> 16]
  BY <1>2
<1>3. CASE key \in [type : {"ao"}, mac : Macs]
  <2>1. key.type = "ao" /\ key.mac \in Macs
    BY <1>3
  <2>2. key.mac \in 1 .. 16
    BY <2>1, HeaderAssumption
  <2> QED BY <2>1, <2>2
<1> QED BY <1>1, <1>2, <1>3 DEF Keys

\* The bytes of an option that is there are a natural number.
LEMMA BytesNat ==
  ASSUME NEW o \in Opts, NEW x \in Names
  PROVE  BytesIf(o, x) \in Nat
<1>0. /\ o.key \in Keys /\ o.sacks \in Nat /\ o.cookie \in Nat /\ o.mptcp \in Nat
  BY DEF Opts
<1>1. o.key.mac \in Nat
  BY <1>0, KeyMac
<1>2. AoBytes(o.key.mac) \in Nat
  BY <1>1 DEF AoBytes
<1>3. 4 * ((o.cookie + 3) \div 4) \in Nat
  BY <1>0
<1> QED BY <1>0, <1>2, <1>3 DEF BytesIf, Bytes, Names

\* One more option adds its bytes to those that are written.
LEMMA AddOption ==
  ASSUME NEW o \in Opts, NEW t \in Opts, NEW x \in Names, NEW n \in Nat,
         x \notin o.set, \A y \in Names \ {x} : BytesIf(t, y) = BytesIf(o, y),
         BytesIf(t, x) = n, t.bpf = o.bpf
  PROVE  OptionsWrite(t) = OptionsWrite(o) + n
<1>1. BytesIf(o, x) = 0
  BY DEF BytesIf
<1>2. \A y \in Names : BytesIf(o, y) \in Nat /\ BytesIf(t, y) \in Nat
  BY BytesNat
<1>3. o.bpf \in Nat
  BY DEF Opts
<1>4. \A y \in Names : BytesIf(t, y) = BytesIf(o, y) + (IF x = y THEN n ELSE 0)
  BY <1>1, <1>2
<1>5. /\ BytesIf(t, "md5") = BytesIf(o, "md5") + (IF x = "md5" THEN n ELSE 0)
      /\ BytesIf(t, "ao") = BytesIf(o, "ao") + (IF x = "ao" THEN n ELSE 0)
      /\ BytesIf(t, "mss") = BytesIf(o, "mss") + (IF x = "mss" THEN n ELSE 0)
      /\ BytesIf(t, "ts") = BytesIf(o, "ts") + (IF x = "ts" THEN n ELSE 0)
      /\ BytesIf(t, "sackPerm") = BytesIf(o, "sackPerm") + (IF x = "sackPerm" THEN n ELSE 0)
      /\ BytesIf(t, "ws") = BytesIf(o, "ws") + (IF x = "ws" THEN n ELSE 0)
      /\ BytesIf(t, "sack") = BytesIf(o, "sack") + (IF x = "sack" THEN n ELSE 0)
      /\ BytesIf(t, "cookie") = BytesIf(o, "cookie") + (IF x = "cookie" THEN n ELSE 0)
      /\ BytesIf(t, "smc") = BytesIf(o, "smc") + (IF x = "smc" THEN n ELSE 0)
      /\ BytesIf(t, "mptcp") = BytesIf(o, "mptcp") + (IF x = "mptcp" THEN n ELSE 0)
  BY <1>4 DEF Names
<1>6. /\ BytesIf(o, "md5") \in Nat
      /\ BytesIf(o, "ao") \in Nat
      /\ BytesIf(o, "mss") \in Nat
      /\ BytesIf(o, "ts") \in Nat
      /\ BytesIf(o, "sackPerm") \in Nat
      /\ BytesIf(o, "ws") \in Nat
      /\ BytesIf(o, "sack") \in Nat
      /\ BytesIf(o, "cookie") \in Nat
      /\ BytesIf(o, "smc") \in Nat
      /\ BytesIf(o, "mptcp") \in Nat
  BY <1>2 DEF Names
<1> QED BY <1>3, <1>5, <1>6 DEF OptionsWrite, Names

\* An option of fixed size
LEMMA MustExact ==
  ASSUME NEW o, Exact(o), NEW x \in {"mss", "ts", "ws", "smc", "sackPerm"}, x \notin o.set,
         x = "ts" => "sackPerm" \notin o.set, NEW n \in Nat, n % 4 = 0,
         n = CASE x = "mss" -> 4 [] x = "ts" -> 12 [] x = "ws" -> 4 [] x = "smc" -> 8
               [] x = "sackPerm" -> IF "ts" \in o.set THEN 0 ELSE 4
  PROVE  LET t == Must(o, x, n)
         IN  /\ Exact(t) /\ t.left = o.left - n /\ t.set = o.set \cup {x} /\ t.key = o.key
             /\ t.sacks = o.sacks /\ t.bpf = o.bpf
<1> DEFINE S == o.set \cup {x}
           l == o.left - n
           t == [o EXCEPT !.set = S, !.left = l]
<1>0. o \in Opts /\ o.left \in Int /\ o.left % 4 = 0 /\ OptionsWrite(o) = 40 - o.left
  BY DEF Exact, Opts, MaxOptionSpace
<1>a. x \in Names
  BY DEF Names
<1>b. S \in NameSets
  BY <1>0, <1>a DEF Opts, NameSets
<1>1. S \in NameSets /\ l \in Int /\ x \in Names /\ S = o.set \cup {x} /\ l = o.left - n
  BY <1>0, <1>a, <1>b
<1>2. Must(o, x, n) = t
  BY DEF Must
<1> HIDE DEF S, l
<1>3. t \in Opts
  BY <1>0, <1>1 DEF Opts
<1>4. /\ t.set = S /\ t.left = l /\ t.key = o.key /\ t.sacks = o.sacks /\ t.cookie = o.cookie
      /\ t.mptcp = o.mptcp /\ t.bpf = o.bpf
  BY <1>0 DEF Opts
<1> HIDE DEF t
<1>5. \A y \in Names \ {x} : BytesIf(t, y) = BytesIf(o, y)
  BY <1>1, <1>4 DEF BytesIf, Bytes, Names
<1>6. BytesIf(t, x) = n
  BY <1>1, <1>4 DEF BytesIf, Bytes
<1>7. OptionsWrite(t) = OptionsWrite(o) + n
  BY <1>0, <1>1, <1>3, <1>4, <1>5, <1>6, AddOption
<1>8. l % 4 = 0
  BY <1>0, <1>1
<1>9. OptionsWrite(t) = 40 - t.left
  BY <1>0, <1>1, <1>4, <1>7
<1>10. Exact(t)
  BY <1>3, <1>4, <1>8, <1>9 DEF Exact, MaxOptionSpace
<1> QED BY <1>1, <1>2, <1>4, <1>10

\* An empty header, and one with the option that signs it
LEMMA KeyExact ==
  ASSUME NEW key \in Keys
  PROVE  LET t == KeyRoom(Room, key)
         IN  /\ Exact(t) /\ t.left >= 20 /\ t.left <= 40 /\ t.set \subseteq {"md5", "ao"}
             /\ key.type = "none" => t.left = 40
             /\ t.sacks = 0 /\ t.bpf = 0
<1>0. /\ Room \in Opts /\ Room.set = {} /\ Room.left = 40 /\ Room.sacks = 0 /\ Room.bpf = 0
  <2>1. {} \in NameSets /\ NoKey \in Keys
    BY DEF NameSets, Keys
  <2> QED BY <2>1 DEF Room, Opts, MaxOptionSpace
<1>1. OptionsWrite(Room) = 0
  BY <1>0 DEF OptionsWrite, BytesIf
<1>2. Exact(Room)
  BY <1>0, <1>1 DEF Exact, MaxOptionSpace
<1>3. CASE key.type = "none"
  BY <1>0, <1>2, <1>3 DEF KeyRoom
<1>4. CASE key.type # "none"
  <2> DEFINE n == IF key.type = "md5" THEN 20 ELSE Align4(key.mac + 4)
             x == key.type
             S == Room.set \cup {x}
             l == Room.left - n
             t == [Room EXCEPT !.set = S, !.left = l, !.key = key]
  <2>0. key.mac \in 0 .. 16 /\ x \in {"md5", "ao"}
    BY <1>4, KeyMac
  <2>1. n \in Nat /\ n % 4 = 0 /\ n <= 20
    BY <2>0 DEF Align4
  <2>2. n = IF x = "md5" THEN 20 ELSE AoBytes(key.mac)
    BY <2>0 DEF Align4, AoBytes
  <2>3. x \in Names /\ S \in NameSets
    BY <1>0, <2>0 DEF Names, NameSets
  <2>4. KeyRoom(Room, key) = t
    BY <1>0, <1>4 DEF KeyRoom, Must
  <2>5. l = 40 - n /\ l \in Int /\ S = {x}
    BY <1>0, <2>1
  <2>x. x = key.type
    OBVIOUS
  <2> HIDE DEF n, x, S, l
  <2>6. t \in Opts
    BY <1>0, <2>3, <2>5 DEF Opts
  <2>7. /\ t.set = S /\ t.left = l /\ t.key = key /\ t.sacks = 0 /\ t.bpf = Room.bpf
    BY <1>0 DEF Opts
  <2> HIDE DEF t
  <2>8. \A y \in Names \ {x} : BytesIf(t, y) = BytesIf(Room, y)
    BY <1>0, <2>5, <2>7 DEF BytesIf
  <2>9. BytesIf(t, x) = n
    BY <2>0, <2>2, <2>5, <2>7 DEF BytesIf, Bytes
  <2>10. OptionsWrite(t) = n
    BY <1>0, <1>1, <2>1, <2>3, <2>6, <2>7, <2>8, <2>9, AddOption
  <2>11. Exact(t)
    BY <2>1, <2>5, <2>6, <2>7, <2>10 DEF Exact, MaxOptionSpace
  <2> QED BY <1>0, <1>4, <2>0, <2>1, <2>4, <2>5, <2>7, <2>11
<1> QED BY <1>3, <1>4

\* Room for a Fast Open cookie, if there is any
LEMMA CookieExact ==
  ASSUME NEW o, Exact(o), o.left >= 0, "cookie" \notin o.set, NEW c \in Nat
  PROVE  LET t == CookieRoom(o, c)
         IN  /\ Exact(t) /\ t.left >= 0 /\ t.left <= o.left /\ t.set \subseteq o.set \cup {"cookie"}
             /\ t.bpf = o.bpf
<1>0. o \in Opts /\ o.left \in Int /\ o.left % 4 = 0 /\ OptionsWrite(o) = 40 - o.left
  BY DEF Exact, Opts, MaxOptionSpace
<1>1. CASE c = 0 \/ o.left < Align4(c)
  BY <1>0, <1>1 DEF CookieRoom
<1>2. CASE ~(c = 0 \/ o.left < Align4(c))
  <2> DEFINE n == Align4(c)
             S == o.set \cup {"cookie"}
             l == o.left - n
             t == [o EXCEPT !.set = S, !.left = l, !.cookie = c]
  <2>1. n \in Nat /\ n % 4 = 0 /\ n = 4 * ((c + 3) \div 4) /\ n <= o.left
    BY <1>0, <1>2 DEF Align4
  <2>2. "cookie" \in Names /\ S \in NameSets
    BY <1>0 DEF Names, NameSets, Opts
  <2>3. CookieRoom(o, c) = t
    BY <1>0, <1>2 DEF CookieRoom, Must
  <2>4. l = o.left - n /\ l \in Int /\ S = o.set \cup {"cookie"} /\ l % 4 = 0 /\ l >= 0 /\ l <= o.left
    BY <1>0, <2>1
  <2> HIDE DEF n, S, l
  <2>5. t \in Opts
    BY <1>0, <2>2, <2>4 DEF Opts
  <2>6. /\ t.set = S /\ t.left = l /\ t.key = o.key /\ t.sacks = o.sacks /\ t.cookie = c
        /\ t.mptcp = o.mptcp /\ t.bpf = o.bpf
    BY <1>0 DEF Opts
  <2> HIDE DEF t
  <2>7. \A y \in Names \ {"cookie"} : BytesIf(t, y) = BytesIf(o, y)
    BY <2>4, <2>6 DEF BytesIf, Bytes, Names
  <2>8. BytesIf(t, "cookie") = n
    BY <2>1, <2>4, <2>6 DEF BytesIf, Bytes
  <2>9. OptionsWrite(t) = OptionsWrite(o) + n
    BY <1>0, <2>1, <2>2, <2>5, <2>6, <2>7, <2>8, AddOption
  <2>10. OptionsWrite(t) = 40 - t.left
    BY <1>0, <2>1, <2>4, <2>6, <2>9
  <2>11. Exact(t)
    BY <2>4, <2>5, <2>6, <2>10 DEF Exact, MaxOptionSpace
  <2> QED BY <2>3, <2>4, <2>6, <2>11
<1> QED BY <1>1, <1>2

\* Room for the option of MPTCP, if there is any
LEMMA MptcpExact ==
  ASSUME NEW o, Exact(o), o.left >= 0, "mptcp" \notin o.set, NEW c \in Nat, c % 4 = 0
  PROVE  LET t == MptcpRoom(o, c)
         IN  /\ Exact(t) /\ t.left >= 0 /\ t.left <= o.left /\ t.set \subseteq o.set \cup {"mptcp"}
             /\ t.sacks = o.sacks /\ t.bpf = o.bpf
<1>0. o \in Opts /\ o.left \in Int /\ o.left % 4 = 0 /\ OptionsWrite(o) = 40 - o.left
  BY DEF Exact, Opts, MaxOptionSpace
<1>1. CASE c = 0 \/ o.left < c
  BY <1>0, <1>1 DEF MptcpRoom
<1>2. CASE ~(c = 0 \/ o.left < c)
  <2> DEFINE S == o.set \cup {"mptcp"}
             l == o.left - c
             t == [o EXCEPT !.set = S, !.left = l, !.mptcp = c]
  <2>2. "mptcp" \in Names /\ S \in NameSets
    BY <1>0 DEF Names, NameSets, Opts
  <2>3. MptcpRoom(o, c) = t
    BY <1>0, <1>2 DEF MptcpRoom, Must
  <2>4. l = o.left - c /\ l \in Int /\ S = o.set \cup {"mptcp"} /\ l % 4 = 0 /\ l >= 0 /\ l <= o.left
    BY <1>0, <1>2
  <2> HIDE DEF S, l
  <2>5. t \in Opts
    BY <1>0, <2>2, <2>4 DEF Opts
  <2>6. /\ t.set = S /\ t.left = l /\ t.key = o.key /\ t.sacks = o.sacks /\ t.cookie = o.cookie
        /\ t.mptcp = c /\ t.bpf = o.bpf
    BY <1>0 DEF Opts
  <2> HIDE DEF t
  <2>7. \A y \in Names \ {"mptcp"} : BytesIf(t, y) = BytesIf(o, y)
    BY <2>4, <2>6 DEF BytesIf, Bytes, Names
  <2>8. BytesIf(t, "mptcp") = c
    BY <2>4, <2>6 DEF BytesIf, Bytes
  <2>9. OptionsWrite(t) = OptionsWrite(o) + c
    BY <1>0, <2>2, <2>5, <2>6, <2>7, <2>8, AddOption
  <2>10. OptionsWrite(t) = 40 - t.left
    BY <1>0, <2>4, <2>6, <2>9
  <2>11. Exact(t)
    BY <2>4, <2>5, <2>6, <2>10 DEF Exact, MaxOptionSpace
  <2> QED BY <2>3, <2>4, <2>6, <2>11
<1> QED BY <1>1, <1>2

\* Room for a BPF program, if there is any: what is left is whole words
LEMMA BpfExact ==
  ASSUME NEW o, Exact(o), o.left >= 0, o.bpf = 0, NEW c \in Nat
  PROVE  LET t == BpfRoom(o, c)
         IN  /\ Exact(t) /\ t.left >= 0 /\ t.left <= o.left /\ t.set = o.set
             /\ t.sacks = o.sacks
<1>0. o \in Opts /\ o.left \in Int /\ o.left % 4 = 0 /\ OptionsWrite(o) = 40 - o.left
  BY DEF Exact, Opts, MaxOptionSpace
<1>1. CASE c = 0 \/ c > o.left
  BY <1>0, <1>1 DEF BpfRoom
<1>2. CASE ~(c = 0 \/ c > o.left)
  <2> DEFINE n == Align4(c)
             l == o.left - n
             t == [o EXCEPT !.bpf = n, !.left = l]
  <2>1. n \in Nat /\ n % 4 = 0 /\ n <= o.left
    BY <1>0, <1>2 DEF Align4
  <2>3. BpfRoom(o, c) = t
    BY <1>0, <1>2 DEF BpfRoom
  <2>4. l = o.left - n /\ l \in Int /\ l % 4 = 0 /\ l >= 0 /\ l <= o.left
    BY <1>0, <2>1
  <2> HIDE DEF n, l
  <2>5. t \in Opts
    BY <1>0, <2>1, <2>4 DEF Opts
  <2>6. /\ t.set = o.set /\ t.left = l /\ t.key = o.key /\ t.sacks = o.sacks
        /\ t.cookie = o.cookie /\ t.mptcp = o.mptcp /\ t.bpf = n
    BY <1>0 DEF Opts
  <2> HIDE DEF t
  <2>7. \A y \in Names : BytesIf(t, y) = BytesIf(o, y) /\ BytesIf(o, y) \in Nat
    BY <1>0, <2>6, BytesNat DEF BytesIf, Bytes, Names
  <2>8. OptionsWrite(t) = OptionsWrite(o) + n
    BY <2>1, <2>6, <2>7 DEF OptionsWrite, Names
  <2>10. OptionsWrite(t) = 40 - t.left
    BY <1>0, <2>1, <2>4, <2>6, <2>8
  <2>11. Exact(t)
    BY <2>4, <2>5, <2>6, <2>10 DEF Exact, MaxOptionSpace
  <2> QED BY <2>3, <2>4, <2>6, <2>11
<1> QED BY <1>1, <1>2

\* Room for SMC, if there is any
LEMMA SmcExact ==
  ASSUME NEW o, Exact(o), o.left >= 0, "smc" \notin o.set, NEW smc
  PROVE  LET t == SmcRoom(o, smc)
         IN  /\ Exact(t) /\ t.left >= 0 /\ t.left <= o.left /\ t.set \subseteq o.set \cup {"smc"}
             /\ t.bpf = o.bpf
<1>0. o.left \in Int
  BY DEF Exact, Opts
<1>1. CASE smc /\ o.left >= 8
  <2> DEFINE u == Must(o, "smc", 8)
  <2>1. SmcRoom(o, smc) = u
    BY <1>1 DEF SmcRoom, May
  <2>2. Exact(u) /\ u.left = o.left - 8 /\ u.set = o.set \cup {"smc"} /\ u.bpf = o.bpf
    BY MustExact
  <2> HIDE DEF u
  <2>3. o.left >= 8
    BY <1>1
  <2>4. u.left >= 0 /\ u.left <= o.left
    BY <1>0, <2>2, <2>3
  <2> QED BY <2>1, <2>2, <2>4
<1>2. CASE ~(smc /\ o.left >= 8)
  BY <1>0, <1>2 DEF SmcRoom, May
<1> QED BY <1>1, <1>2

\* As many SACK blocks as fit
LEMMA SackExact ==
  ASSUME NEW o, Exact(o), o.left >= 12, "sack" \notin o.set, NEW n \in Nat \ {0}
  PROVE  LET t == SackRoom(o, n)
             fit == MinOf(n, (o.left - 4) \div 8)
         IN  /\ Exact(t) /\ t.left >= 0 /\ t.left = o.left - (4 + 8 * fit)
             /\ t.set \subseteq o.set \cup {"sack"} /\ t.bpf = o.bpf /\ t.sacks = fit /\ fit > 0
<1> DEFINE fit == MinOf(n, (o.left - 4) \div 8)
           m == 4 + 8 * fit
           S == o.set \cup {"sack"}
           l == o.left - m
           t == [o EXCEPT !.set = S, !.left = l, !.sacks = fit]
<1>0. o \in Opts /\ o.left \in Int /\ o.left % 4 = 0 /\ OptionsWrite(o) = 40 - o.left
  BY DEF Exact, Opts, MaxOptionSpace
<1>1. fit \in Nat /\ fit > 0 /\ m <= o.left
  BY <1>0 DEF MinOf
<1> HIDE DEF fit
<1>a. m \in Nat /\ m % 4 = 0 /\ m = 4 + 8 * fit
  BY <1>1
<1> HIDE DEF m
<1>2. "sack" \in Names /\ S \in NameSets
  BY <1>0 DEF Names, NameSets, Opts
<1>3. SackRoom(o, n) = t
  BY <1>0 DEF SackRoom, Must, fit, m
<1>4. l = o.left - m /\ l \in Int /\ S = o.set \cup {"sack"} /\ l % 4 = 0 /\ l >= 0
  BY <1>0, <1>1, <1>a
<1> HIDE DEF S, l
<1>5. t \in Opts
  BY <1>0, <1>1, <1>2, <1>4 DEF Opts
<1>6. /\ t.set = S /\ t.left = l /\ t.key = o.key /\ t.sacks = fit /\ t.cookie = o.cookie
      /\ t.mptcp = o.mptcp /\ t.bpf = o.bpf
  BY <1>0 DEF Opts
<1> HIDE DEF t
<1>7. \A y \in Names \ {"sack"} : BytesIf(t, y) = BytesIf(o, y)
  BY <1>4, <1>6 DEF BytesIf, Bytes, Names
<1>8. BytesIf(t, "sack") = m
  BY <1>4, <1>6, <1>a DEF BytesIf, Bytes
<1>9. OptionsWrite(t) = OptionsWrite(o) + m
  BY <1>0, <1>2, <1>5, <1>6, <1>7, <1>8, <1>a, AddOption
<1>10. OptionsWrite(t) = 40 - t.left
  BY <1>0, <1>4, <1>6, <1>9, <1>a
<1>11. Exact(t)
  BY <1>4, <1>5, <1>6, <1>10 DEF Exact, MaxOptionSpace
<1> QED BY <1>1, <1>3, <1>4, <1>6, <1>11, <1>a DEF fit

\* What the sysctls, the socket and others may want
WantsOK(w) ==
    /\ w.cookie \in Nat /\ w.mptcp \in Nat /\ w.mptcp % 4 = 0 /\ w.bpf \in Nat

\* The options of a SYN fit.
LEMMA SynExact ==
  ASSUME NEW key \in Keys, NEW w, WantsOK(w)
  PROVE  Exact(SynOptions(key, w)) /\ SynOptions(key, w).left \in 0 .. 40
<1> DEFINE o0 == KeyRoom(Room, key)
           o1 == Must(o0, "mss", 4)
           o2 == When(w.ts /\ key.type # "md5", Must(o1, "ts", 12), o1)
           o3 == When(w.ws, Must(o2, "ws", 4), o2)
           o4 == When(w.sack, SackPermRoom(o3), o3)
           o5 == CookieRoom(o4, w.cookie)
           o6 == SmcRoom(o5, w.smc)
           o7 == MptcpRoom(o6, w.mptcp)
           o8 == BpfRoom(o7, w.bpf)
<1>0. SynOptions(key, w) = o8
  BY DEF SynOptions
<1>1. /\ Exact(o0) /\ o0.left >= 20 /\ o0.left <= 40 /\ o0.set \subseteq {"md5", "ao"}
      /\ o0.bpf = 0 /\ o0.left \in Int
  BY KeyExact DEF Exact, Opts
<1> HIDE DEF o0
<1>2. /\ Exact(o1) /\ o1.left = o0.left - 4 /\ o1.set = o0.set \cup {"mss"} /\ o1.bpf = o0.bpf
  BY <1>1, MustExact
<1> HIDE DEF o1
<1>3. /\ Exact(o2) /\ o2.set \subseteq {"md5", "ao", "mss", "ts"} /\ o2.bpf = 0
      /\ o2.left = o0.left - 4 - (IF "ts" \in o2.set THEN 12 ELSE 0)
  <2>1. CASE w.ts /\ key.type # "md5"
    <3>1. o2 = Must(o1, "ts", 12)
      BY <2>1 DEF When
    <3>2. Exact(o2) /\ o2.left = o1.left - 12 /\ o2.set = o1.set \cup {"ts"} /\ o2.bpf = o1.bpf
      BY <1>1, <1>2, <3>1, MustExact
    <3> QED BY <1>1, <1>2, <3>2
  <2>2. CASE ~(w.ts /\ key.type # "md5")
    <3>1. o2 = o1
      BY <2>2 DEF When
    <3> QED BY <1>1, <1>2, <3>1
  <2> QED BY <2>1, <2>2
<1> HIDE DEF o2
<1>4. /\ Exact(o3) /\ o3.set \subseteq {"md5", "ao", "mss", "ts", "ws"} /\ o3.bpf = 0
      /\ o3.left >= o0.left - 8 - (IF "ts" \in o3.set THEN 12 ELSE 0)
      /\ o3.left <= 40
  <2>1. CASE w.ws
    <3>1. o3 = Must(o2, "ws", 4)
      BY <2>1 DEF When
    <3>2. Exact(o3) /\ o3.left = o2.left - 4 /\ o3.set = o2.set \cup {"ws"} /\ o3.bpf = o2.bpf
      BY <1>3, <3>1, MustExact
    <3> QED BY <1>1, <1>3, <3>2
  <2>2. CASE ~w.ws
    <3>1. o3 = o2
      BY <2>2 DEF When
    <3> QED BY <1>1, <1>3, <3>1
  <2> QED BY <2>1, <2>2
<1> HIDE DEF o3
<1>5. /\ Exact(o4) /\ o4.set \subseteq {"md5", "ao", "mss", "ts", "ws", "sackPerm"}
      /\ o4.bpf = 0 /\ o4.left >= 0 /\ o4.left <= 40
  <2>1. CASE w.sack
    <3> DEFINE n == IF "ts" \in o3.set THEN 0 ELSE 4
    <3>1. o4 = Must(o3, "sackPerm", n)
      BY <2>1 DEF When, SackPermRoom
    <3>2. n \in Nat /\ n % 4 = 0 /\ n <= 4
      OBVIOUS
    <3>a. o3.left - n >= 0 /\ o3.left - n <= 40
      BY <1>1, <1>4 DEF Exact, Opts
    <3>3. Exact(o4) /\ o4.left = o3.left - n /\ o4.set = o3.set \cup {"sackPerm"} /\ o4.bpf = o3.bpf
      BY <1>4, <3>1, <3>2, MustExact
    <3> QED BY <1>4, <3>3, <3>a
  <2>2. CASE ~w.sack
    <3>1. o4 = o3
      BY <2>2 DEF When
    <3> QED BY <1>1, <1>4, <3>1 DEF Exact, Opts
  <2> QED BY <2>1, <2>2
<1> HIDE DEF o4
<1>6. /\ Exact(o5) /\ o5.set \subseteq o4.set \cup {"cookie"} /\ o5.bpf = 0
      /\ o5.left >= 0 /\ o5.left <= o4.left
  BY <1>5, CookieExact DEF WantsOK
<1> HIDE DEF o5
<1>7. /\ Exact(o6) /\ o6.set \subseteq o5.set \cup {"smc"} /\ o6.bpf = 0
      /\ o6.left >= 0 /\ o6.left <= o5.left
  BY <1>5, <1>6, SmcExact
<1> HIDE DEF o6
<1>8. Exact(o7) /\ o7.bpf = 0 /\ o7.left >= 0 /\ o7.left <= o6.left
  BY <1>5, <1>6, <1>7, MptcpExact DEF WantsOK
<1> HIDE DEF o7
<1>9. Exact(o8) /\ o8.left >= 0 /\ o8.left <= o7.left
  BY <1>8, BpfExact DEF WantsOK
<1> HIDE DEF o8
<1> QED BY <1>0, <1>5, <1>6, <1>7, <1>8, <1>9 DEF Exact, Opts

\* The options of a SYN-ACK fit, signed, with a cookie or neither.
LEMMA SynackExact ==
  ASSUME NEW key \in Keys, NEW w, WantsOK(w)
  PROVE  Exact(SynackOptions(key, w)) /\ SynackOptions(key, w).left \in 0 .. 40
<1> DEFINE o0 == KeyRoom(Room, key)
           o1 == Must(o0, "mss", 4)
           o2 == When(w.ws, Must(o1, "ws", 4), o1)
           o3 == When(SynackTs(key, w), Must(o2, "ts", 12), o2)
           o4 == When(w.sack, SackPermRoom(o3), o3)
           o5 == CookieRoom(o4, w.cookie)
           o6 == MptcpRoom(o5, w.mptcp)
           o7 == SmcRoom(o6, w.smc)
           o8 == BpfRoom(o7, w.bpf)
<1>0. SynackOptions(key, w) = o8
  BY DEF SynackOptions
<1>1. /\ Exact(o0) /\ o0.left >= 20 /\ o0.left <= 40 /\ o0.set \subseteq {"md5", "ao"}
      /\ o0.bpf = 0 /\ o0.left \in Int
  BY KeyExact DEF Exact, Opts
<1> HIDE DEF o0
<1>2. /\ Exact(o1) /\ o1.left = o0.left - 4 /\ o1.set = o0.set \cup {"mss"} /\ o1.bpf = o0.bpf
  BY <1>1, MustExact
<1> HIDE DEF o1
<1>3. /\ Exact(o2) /\ o2.set \subseteq {"md5", "ao", "mss", "ws"} /\ o2.bpf = 0
      /\ o2.left >= o0.left - 8 /\ o2.left <= 40
  <2>1. CASE w.ws
    <3>1. o2 = Must(o1, "ws", 4)
      BY <2>1 DEF When
    <3>2. Exact(o2) /\ o2.left = o1.left - 4 /\ o2.set = o1.set \cup {"ws"} /\ o2.bpf = o1.bpf
      BY <1>1, <1>2, <3>1, MustExact
    <3> QED BY <1>1, <1>2, <3>2
  <2>2. CASE ~w.ws
    <3>1. o2 = o1
      BY <2>2 DEF When
    <3> QED BY <1>1, <1>2, <3>1
  <2> QED BY <2>1, <2>2
<1> HIDE DEF o2
<1>4. /\ Exact(o3) /\ o3.set \subseteq {"md5", "ao", "mss", "ts", "ws"} /\ o3.bpf = 0
      /\ o3.left >= o0.left - 8 - (IF "ts" \in o3.set THEN 12 ELSE 0)
      /\ o3.left <= 40
  <2>0. o2.left \in Int
    BY <1>3 DEF Exact, Opts
  <2>1. CASE SynackTs(key, w)
    <3>1. o3 = Must(o2, "ts", 12)
      BY <2>1 DEF When
    <3>2. Exact(o3) /\ o3.left = o2.left - 12 /\ o3.set = o2.set \cup {"ts"} /\ o3.bpf = o2.bpf
      BY <1>3, <3>1, MustExact
    <3> QED BY <1>1, <1>3, <2>0, <3>2
  <2>2. CASE ~SynackTs(key, w)
    <3>1. o3 = o2
      BY <2>2 DEF When
    <3> QED BY <1>1, <1>3, <2>0, <3>1
  <2> QED BY <2>1, <2>2
<1> HIDE DEF o3
<1>5. /\ Exact(o4) /\ o4.set \subseteq {"md5", "ao", "mss", "ts", "ws", "sackPerm"}
      /\ o4.bpf = 0 /\ o4.left >= 0 /\ o4.left <= 40
  <2>1. CASE w.sack
    <3> DEFINE n == IF "ts" \in o3.set THEN 0 ELSE 4
    <3>1. o4 = Must(o3, "sackPerm", n)
      BY <2>1 DEF When, SackPermRoom
    <3>2. n \in Nat /\ n % 4 = 0 /\ n <= 4
      OBVIOUS
    <3>a. o3.left - n >= 0 /\ o3.left - n <= 40
      BY <1>1, <1>4 DEF Exact, Opts
    <3>3. Exact(o4) /\ o4.left = o3.left - n /\ o4.set = o3.set \cup {"sackPerm"} /\ o4.bpf = o3.bpf
      BY <1>4, <3>1, <3>2, MustExact
    <3> QED BY <1>4, <3>3, <3>a
  <2>2. CASE ~w.sack
    <3>1. o4 = o3
      BY <2>2 DEF When
    <3> QED BY <1>1, <1>4, <3>1 DEF Exact, Opts
  <2> QED BY <2>1, <2>2
<1> HIDE DEF o4
<1>6. /\ Exact(o5) /\ o5.set \subseteq o4.set \cup {"cookie"} /\ o5.bpf = 0
      /\ o5.left >= 0 /\ o5.left <= o4.left
  BY <1>5, CookieExact DEF WantsOK
<1> HIDE DEF o5
<1>7. /\ Exact(o6) /\ o6.set \subseteq o5.set \cup {"mptcp"} /\ o6.bpf = 0
      /\ o6.left >= 0 /\ o6.left <= o5.left
  BY <1>5, <1>6, MptcpExact DEF WantsOK
<1> HIDE DEF o6
<1>8. Exact(o7) /\ o7.bpf = 0 /\ o7.left >= 0 /\ o7.left <= o6.left
  BY <1>5, <1>6, <1>7, SmcExact
<1> HIDE DEF o7
<1>9. Exact(o8) /\ o8.left >= 0 /\ o8.left <= o7.left
  BY <1>8, BpfExact DEF WantsOK
<1> HIDE DEF o8
<1> QED BY <1>0, <1>5, <1>6, <1>7, <1>8, <1>9 DEF Exact, Opts

\* The options of any other segment fit.
LEMMA EstablishedExact ==
  ASSUME NEW t, t.key \in Keys, t.sacks \in 0 .. 4, t.dsack \in 0 .. 1,
         NEW m \in Nat, m % 4 = 0, NEW b \in Nat
  PROVE  /\ Exact(EstablishedOptions(t, m, b))
         /\ EstablishedOptions(t, m, b).left \in 0 .. 40
<1> DEFINE o1 == KeyRoom(Room, t.key)
           o2 == When(t.ts, Must(o1, "ts", 12), o1)
           o3 == MptcpRoom(o2, m)
           n  == t.sacks + t.dsack
           o4 == SackRoom(o3, n)
           o5 == BpfRoom(o4, b)
           o6 == BpfRoom(o3, b)
<1>0. EstablishedOptions(t, m, b) = IF n = 0 THEN o6 ELSE IF o3.left < 4 + 8 THEN o3 ELSE o5
  BY DEF EstablishedOptions
<1>1. /\ Exact(o1) /\ o1.left >= 20 /\ o1.left <= 40 /\ o1.set \subseteq {"md5", "ao"}
      /\ o1.bpf = 0 /\ o1.left \in Int
  BY KeyExact DEF Exact, Opts
<1> HIDE DEF o1
<1>2. /\ Exact(o2) /\ o2.left >= 8 /\ o2.left <= 40 /\ o2.set \subseteq {"md5", "ao", "ts"}
      /\ o2.bpf = 0
  <2>1. CASE t.ts
    <3>1. o2 = Must(o1, "ts", 12)
      BY <2>1 DEF When
    <3>2. Exact(o2) /\ o2.left = o1.left - 12 /\ o2.set = o1.set \cup {"ts"} /\ o2.bpf = o1.bpf
      BY <1>1, <3>1, MustExact
    <3> QED BY <1>1, <3>2
  <2>2. CASE ~t.ts
    <3>1. o2 = o1
      BY <2>2 DEF When
    <3> QED BY <1>1, <3>1
  <2> QED BY <2>1, <2>2
<1> HIDE DEF o2
<1>3. /\ Exact(o3) /\ o3.left >= 0 /\ o3.left <= 40 /\ "sack" \notin o3.set /\ o3.bpf = 0
      /\ o3.left \in Int
  <2>1. /\ Exact(o3) /\ o3.left >= 0 /\ o3.left <= o2.left /\ o3.bpf = 0
        /\ o3.set \subseteq o2.set \cup {"mptcp"}
    BY <1>2, MptcpExact DEF Exact, Opts
  <2> QED BY <1>2, <2>1 DEF Exact, Opts
<1> HIDE DEF o3
<1>4. n \in Nat
  OBVIOUS
<1> HIDE DEF n
<1>5. Exact(o6) /\ o6.left >= 0 /\ o6.left <= 40
  <2>1. Exact(o6) /\ o6.left >= 0 /\ o6.left <= o3.left
    BY <1>3, BpfExact
  <2> QED BY <1>3, <2>1 DEF Exact, Opts
<1>6. n # 0 /\ o3.left >= 12 => Exact(o5) /\ o5.left >= 0 /\ o5.left <= 40
  <2> SUFFICES ASSUME n # 0, o3.left >= 12
               PROVE  Exact(o5) /\ o5.left >= 0 /\ o5.left <= 40
    OBVIOUS
  <2> DEFINE fit == MinOf(n, (o3.left - 4) \div 8)
  <2>1. /\ Exact(o4) /\ o4.left >= 0 /\ o4.left = o3.left - (4 + 8 * fit) /\ o4.bpf = 0
        /\ fit > 0 /\ fit = o4.sacks
    BY <1>3, <1>4, SackExact
  <2>2. o4.left \in Int /\ o4.sacks \in Nat
    BY <2>1 DEF Exact, Opts
  <2> HIDE DEF o4, fit
  <2>3. o4.left <= 40
    BY <1>3, <2>1, <2>2
  <2>4. Exact(o5) /\ o5.left >= 0 /\ o5.left <= o4.left
    BY <2>1, BpfExact
  <2> QED BY <2>2, <2>3, <2>4 DEF Exact, Opts
<1> HIDE DEF o5, o6
<1> QED BY <1>0, <1>3, <1>5, <1>6 DEF Exact, Opts

-----------------------------------------------------------------------------
(* Segment sizes *)

Phases == {"closed", "synSent", "synRecv", "established"}
Users == {0, MinMss}
Hlens == {h \in 20 .. 60 : h % 4 = 0}
Flags == BOOLEAN
Sacks == 0 .. 4
Dsacks == 0 .. 1
Words == {n \in Nat : n % 4 = 0}

Tps == [phase : Phases, key : Keys, user : Users, ts : Flags, hlen : Hlens, clamp : Nat,
        maxWnd : Nat, mtu : Nat, pmtu : Nat, mss : Int, probing : Flags, low : Int, high : Int,
        sacks : Sacks, dsack : Dsacks, mssNow : Nat, mptcp : Words, bpf : Nat]

\* The constants that are numbers
LEMMA Numbers ==
  /\ ExtHdr \in Nat /\ BaseMss \in Nat /\ ProbeFloor \in Nat /\ MaxRmem \in Nat
  /\ MinSndMss \in Nat /\ MinSndMss >= 48
BY HeaderAssumption

\* However small the path is, the segment size is at least what is left of
\* the sysctl's minimum by the options of every segment.
LEMMA MtuToMssFloor ==
  ASSUME NEW t \in Tps, NEW p \in Int
  PROVE  MtuToMss(t, p) \in Int /\ MtuToMss(t, p) + t.hlen >= 68
<1>1. t.clamp \in Nat /\ t.hlen \in Int
  BY DEF Tps, Hlens
<1> QED BY <1>1, Numbers DEF MtuToMss, MaxOf, MinOf, TcpHdr, NetHdr

\* Half of the peer's window bounds the size from above, not below the floor.
LEMMA BoundFloor ==
  ASSUME NEW t \in Tps, NEW m \in Int, m + t.hlen >= 68
  PROVE  /\ BoundToHalfWnd(t, m) \in Int /\ BoundToHalfWnd(t, m) <= m
         /\ BoundToHalfWnd(t, m) + t.hlen >= 68
<1>1. t.maxWnd \in Nat /\ t.hlen \in Int
  BY DEF Tps, Hlens
<1> QED BY <1>1 DEF BoundToHalfWnd, MaxOf

\* The fields that tcp_sync_mss leaves alone
SameBut(t, u) ==
    /\ u.phase = t.phase /\ u.key = t.key /\ u.user = t.user /\ u.ts = t.ts /\ u.hlen = t.hlen
    /\ u.clamp = t.clamp /\ u.maxWnd = t.maxWnd /\ u.mtu = t.mtu
    /\ u.sacks = t.sacks /\ u.dsack = t.dsack /\ u.mssNow = t.mssNow /\ u.mptcp = t.mptcp
    /\ u.bpf = t.bpf

\* The fields that a transmission leaves alone when it starts
SameButNow(t, u) ==
    /\ u.phase = t.phase /\ u.key = t.key /\ u.ts = t.ts /\ u.hlen = t.hlen /\ u.clamp = t.clamp
    /\ u.mtu = t.mtu /\ u.pmtu = t.pmtu /\ u.mss = t.mss
    /\ u.sacks = t.sacks /\ u.dsack = t.dsack

\* The size is within bounds: not below the floor, and it fits the path
MssOK(t) == t.mss + t.hlen >= 68 /\ t.mss <= MtuToMss(t, t.pmtu)

\* tcp_sync_mss establishes the bounds, whatever was there before.
LEMMA SyncMssOK ==
  ASSUME NEW t \in Tps, NEW p \in Nat
  PROVE  /\ SyncMss(t, p) \in Tps /\ SyncMss(t, p).pmtu = p /\ SameBut(t, SyncMss(t, p))
         /\ MssOK(SyncMss(t, p))
         /\ SyncMss(t, p).probing = t.probing
<1> DEFINE m == MtuToMss(t, p)
           a == BoundToHalfWnd(t, m)
           b == MtuToMss(t, t.low)
           c == IF t.probing THEN MinOf(a, b) ELSE a
           h == MinOf(t.high, p)
           u == [t EXCEPT !.high = h, !.pmtu = p, !.mss = c]
<1>0. t.low \in Int /\ t.high \in Int /\ t.hlen \in Int
  BY DEF Tps, Hlens
<1>1. m \in Int /\ m + t.hlen >= 68
  BY MtuToMssFloor
<1>2. b \in Int /\ b + t.hlen >= 68
  BY <1>0, MtuToMssFloor
<1>3. a \in Int /\ a <= m /\ a + t.hlen >= 68
  <2> HIDE DEF m
  <2> QED BY <1>1, BoundFloor
<1>4. SyncMss(t, p) = u
  BY DEF SyncMss
<1>5. c \in Int /\ c <= m /\ c + t.hlen >= 68
  <2> HIDE DEF a, b, m
  <2> QED BY <1>0, <1>1, <1>2, <1>3 DEF MinOf
<1>6. h \in Int
  BY <1>0 DEF MinOf
<1> HIDE DEF a, b, c, h
<1>7. u \in Tps
  BY <1>5, <1>6 DEF Tps
<1>8. u.pmtu = p /\ SameBut(t, u) /\ u.mss = c /\ u.probing = t.probing
  BY DEF Tps, SameBut
<1>9. MtuToMss(u, p) = m
  BY <1>8 DEF MtuToMss, SameBut
<1> HIDE DEF u, m
<1> QED BY <1>4, <1>5, <1>7, <1>8, <1>9 DEF MssOK, SameBut

\* tcp_mtup_init only touches what the probes use.
LEMMA MtupInitOK ==
  ASSUME NEW t \in Tps, NEW on \in Flags
  PROVE  /\ MtupInit(t, on) \in Tps /\ SameBut(t, MtupInit(t, on))
         /\ MtupInit(t, on).pmtu = t.pmtu /\ MtupInit(t, on).mss = t.mss
<1> DEFINE h == t.clamp + TcpHdr + NetHdr
           l == MssToMtu(t, BaseMss)
           u == [t EXCEPT !.probing = on, !.high = h, !.low = l]
<1>0. t.clamp \in Nat /\ t.hlen \in Int
  BY DEF Tps, Hlens
<1>1. MtupInit(t, on) = u
  BY DEF MtupInit
<1>2. h \in Int /\ l \in Int
  BY <1>0, Numbers DEF MssToMtu, TcpHdr, NetHdr
<1> HIDE DEF h, l
<1>3. u \in Tps
  BY <1>2 DEF Tps
<1>4. SameBut(t, u) /\ u.pmtu = t.pmtu /\ u.mss = t.mss
  BY DEF Tps, SameBut
<1> QED BY <1>1, <1>3, <1>4

\* tcp_current_mss: the connection is synchronised with its route.
LEMMA CurrentTpOK ==
  ASSUME NEW t \in Tps, MssOK(t)
  PROVE  /\ CurrentTp(t) \in Tps /\ SameBut(t, CurrentTp(t)) /\ MssOK(CurrentTp(t))
         /\ CurrentTp(t).pmtu = t.mtu
<1>1. CASE t.mtu = t.pmtu
  BY <1>1 DEF CurrentTp, SameBut
<1>2. CASE t.mtu # t.pmtu
  <2>1. t.mtu \in Nat
    BY DEF Tps
  <2> QED BY <1>2, <2>1, SyncMssOK DEF CurrentTp
<1> QED BY <1>1, <1>2

\* What the options of a segment leave of the size: 8 bytes at least
LEMMA CurrentMssFloor ==
  ASSUME NEW t \in Tps, MssOK(t), NEW m \in Words, NEW b \in Nat
  PROVE  LET size == Size(EstablishedOptions(t, m, b))
         IN  /\ size \in 0 .. 40
             /\ CurrentMss(t, m, b) = CurrentTp(t).mss - (size + 20 - t.hlen)
             /\ CurrentMss(t, m, b) \in Nat /\ CurrentMss(t, m, b) >= 8
<1> DEFINE size == Size(EstablishedOptions(t, m, b))
           u == CurrentTp(t)
<1>1. t.key \in Keys /\ t.sacks \in 0 .. 4 /\ t.dsack \in 0 .. 1 /\ t.hlen \in Int
  BY DEF Tps, Sacks, Dsacks, Hlens
<1>2. m \in Nat /\ m % 4 = 0
  BY DEF Words
<1>3. EstablishedOptions(t, m, b).left \in 0 .. 40
  BY <1>1, <1>2, EstablishedExact
<1>4. size \in 0 .. 40
  BY <1>3 DEF Size, MaxOptionSpace
<1>5. u.mss \in Int /\ u.mss + t.hlen >= 68
  BY CurrentTpOK DEF Tps, MssOK, SameBut
<1>6. CurrentMss(t, m, b) = u.mss - (size + 20 - t.hlen)
  BY DEF CurrentMss, TcpHdr
<1> HIDE DEF size, u
<1>7. CurrentMss(t, m, b) \in Nat /\ CurrentMss(t, m, b) >= 8
  BY <1>1, <1>4, <1>5, <1>6
<1> QED BY <1>4, <1>6, <1>7 DEF u, size

-----------------------------------------------------------------------------
(* The first window *)

\* The powers of two that a window scale stands for
LEMMA ScalePower ==
  ASSUME NEW k \in 0 .. MaxWscale
  PROVE  2 ^ k \in Nat /\ 2 ^ k >= 1
<1>1. \/ k = 0 \/ k = 1 \/ k = 2 \/ k = 3 \/ k = 4 \/ k = 5 \/ k = 6 \/ k = 7 \/ k = 8
      \/ k = 9 \/ k = 10 \/ k = 11 \/ k = 12 \/ k = 13 \/ k = 14
  BY DEF MaxWscale
<1>c0. CASE k = 0
  BY <1>c0
<1>c1. CASE k = 1
  BY <1>c1
<1>c2. CASE k = 2
  BY <1>c2
<1>c3. CASE k = 3
  BY <1>c3
<1>c4. CASE k = 4
  BY <1>c4
<1>c5. CASE k = 5
  BY <1>c5
<1>c6. CASE k = 6
  BY <1>c6
<1>c7. CASE k = 7
  BY <1>c7
<1>c8. CASE k = 8
  BY <1>c8
<1>c9. CASE k = 9
  BY <1>c9
<1>c10. CASE k = 10
  BY <1>c10
<1>c11. CASE k = 11
  BY <1>c11
<1>c12. CASE k = 12
  BY <1>c12
<1>c13. CASE k = 13
  BY <1>c13
<1>c14. CASE k = 14
  BY <1>c14
<1> QED BY <1>1, <1>c0, <1>c1, <1>c2, <1>c3, <1>c4, <1>c5, <1>c6, <1>c7, <1>c8, <1>c9, <1>c10, <1>c11, <1>c12, <1>c13, <1>c14

\* The scale is at most 14, however large the buffer is.
LEMMA WscaleBound ==
  ASSUME NEW space \in Int
  PROVE  Wscale(space) \in 0 .. MaxWscale
<1> DEFINE all == 1 .. MaxWscale
           ks == {k \in all : 2 ^ (k + 15) <= space}
<1>1. IsFiniteSet(all) /\ Cardinality(all) = 14
  <2> DEFINE a == 1
             b == MaxWscale
  <2>1. a \in Int /\ b \in Int /\ a = 1 /\ b = 14
    BY DEF MaxWscale
  <2> HIDE DEF a, b
  <2>2. IsFiniteSet(a .. b) /\ Cardinality(a .. b) = IF a > b THEN 0 ELSE b - a + 1
    BY <2>1, FS_Interval
  <2>3. (IF a > b THEN 0 ELSE b - a + 1) = 14
    BY <2>1
  <2> QED BY <2>2, <2>3 DEF a, b
<1>2. ks \subseteq all
  OBVIOUS
<1>3. Cardinality(ks) \in Nat /\ Cardinality(ks) <= 14
  BY <1>1, <1>2, FS_Subset, FS_CardinalityType
<1> QED BY <1>3 DEF Wscale, MaxWscale

WndOK(w) ==
    /\ w.rcv \in Nat /\ w.clamp \in Nat /\ w.scale \in 0 .. MaxWscale
    /\ w.rcv <= U16Max /\ w.rcv <= w.clamp /\ w.clamp <= U16Max * 2 ^ w.scale

\* tcp_select_initial_window returns a window that can be expressed.
LEMMA SelectInitialWindowOK ==
  ASSUME NEW space \in Int, NEW mss \in Nat \ {0}, NEW clamp \in Nat,
         NEW ws \in BOOLEAN, NEW signed \in BOOLEAN, NEW init \in Nat
  PROVE  WndOK(SelectInitialWindow(space, mss, clamp, ws, signed, init))
<1> DEFINE most   == IF clamp = 0 THEN U16Max * 2 ^ MaxWscale ELSE clamp
           avail  == MinOf(most, MaxOf(space, 0))
           whole  == IF avail > mss THEN avail - (avail % mss) ELSE avail
           offer  == MinOf(whole, IF signed THEN 32767 ELSE U16Max)
           scale  == IF ws THEN Wscale(MinOf(MaxOf(whole, MaxRmem), most)) ELSE 0
           rcv    == IF init > 0 THEN MinOf(offer, init * mss) ELSE offer
           top    == AdvertisableClamp(most, scale)
           w      == [rcv |-> rcv, scale |-> scale, clamp |-> top]
<1>0. SelectInitialWindow(space, mss, clamp, ws, signed, init) = w
  BY DEF SelectInitialWindow
<1>1. most \in Nat
  BY ScalePower DEF U16Max, MaxWscale
<1> HIDE DEF most
<1>2. avail \in Nat /\ avail <= most
  BY <1>1 DEF MinOf, MaxOf
<1> HIDE DEF avail
<1>3. avail % mss \in 0 .. mss - 1
  BY <1>2
<1>4. whole \in Nat /\ whole <= avail
  BY <1>2, <1>3
<1> HIDE DEF whole
<1>5. offer \in Nat /\ offer <= whole /\ offer <= U16Max
  BY <1>4 DEF MinOf, U16Max
<1> HIDE DEF offer
<1>6. init * mss \in Nat
  OBVIOUS
<1>7. rcv \in Nat /\ rcv <= offer
  BY <1>5, <1>6 DEF MinOf
<1> HIDE DEF rcv
<1>8. scale \in 0 .. MaxWscale
  <2>1. MinOf(MaxOf(whole, MaxRmem), most) \in Int
    BY <1>1, <1>4, Numbers DEF MinOf, MaxOf
  <2> QED BY <2>1, WscaleBound DEF MaxWscale
<1> HIDE DEF scale
<1>9. 2 ^ scale \in Nat /\ 2 ^ scale >= 1
  BY <1>8, ScalePower
<1>10. /\ top \in Nat /\ top <= U16Max * 2 ^ scale
       /\ top = most \/ top >= U16Max
  <2> DEFINE x == 2 ^ scale
  <2>1. x \in Nat /\ x >= 1
    BY <1>9
  <2>2. top = MinOf(U16Max * x, most)
    BY DEF AdvertisableClamp
  <2> HIDE DEF x, top
  <2>3. top \in Nat /\ top <= U16Max * x /\ (top = most \/ top >= U16Max)
    BY <1>1, <2>1, <2>2 DEF MinOf, U16Max
  <2> QED BY <2>3 DEF x
<1> HIDE DEF top
<1>11. rcv <= top /\ rcv <= U16Max
  BY <1>1, <1>2, <1>4, <1>5, <1>7, <1>10 DEF U16Max
<1>12. w.rcv = rcv /\ w.scale = scale /\ w.clamp = top
  OBVIOUS
<1> HIDE DEF w
<1> QED BY <1>0, <1>7, <1>8, <1>10, <1>11, <1>12 DEF WndOK

-----------------------------------------------------------------------------
(* The inductive invariant *)

\* A connection that transmits has synchronised its size with its route.
TpOK(t) ==
    /\ t \in Tps
    /\ t.phase = "established" => MssOK(t)
    /\ t.phase # "established" => t.mssNow = 0
    /\ t.mssNow > 0 => t.pmtu = t.mtu /\ t.mssNow >= 8

SegOK(s) ==
    /\ Exact(s.opts) /\ s.opts.left \in 0 .. 40
    /\ s.reserved = Size(s.opts) /\ s.written = s.reserved

IInv == TpOK(tp) /\ SegOK(seg) /\ WndOK(wnd)

\* A header built by one of the three functions that reserve the room
LEMMA HeaderOK ==
  ASSUME NEW kind, NEW o, Exact(o), o.left \in 0 .. 40, NEW len
  PROVE  SegOK(Header(kind, o, len))
<1>1. OptionsWrite(o) = Size(o)
  BY DEF Exact, Size
<1> QED BY <1>1 DEF Header, SegOK

\* Before the first header
LEMMA NoHeaderOK == SegOK(NoHeader)
<1>1. NoKey \in Keys
  BY DEF Keys
<1>2. Exact(Room) /\ Room.left = 40
  <2>1. Room \in Opts
    BY <1>1 DEF Room, Opts, NameSets, MaxOptionSpace
  <2>2. Room.set = {} /\ Room.bpf = 0 /\ Room.left = 40
    BY DEF Room, MaxOptionSpace
  <2>3. OptionsWrite(Room) = 0
    BY <2>2 DEF OptionsWrite, BytesIf
  <2> QED BY <2>1, <2>2, <2>3 DEF Exact, MaxOptionSpace
<1>3. Size(Room) = 0
  BY <1>2 DEF Size, MaxOptionSpace
<1>4. OptionsWrite(Room) = 0
  BY <1>2 DEF Exact, MaxOptionSpace
<1>5. NoHeader.opts = Room /\ NoHeader.reserved = 0 /\ NoHeader.written = 0
  BY DEF NoHeader
<1> QED BY <1>2, <1>3, <1>5 DEF SegOK

\* Before tcp_select_initial_window there is no window.
LEMMA NoWindowOK == WndOK(NoWindow)
<1>1. 2 ^ 0 = 1
  OBVIOUS
<1> QED BY <1>1 DEF WndOK, NoWindow, U16Max, MaxWscale

\* A closed socket has the types of the sizes it will compute.
LEMMA ClosedOK == Closed \in Tps
<1>1. NoKey \in Keys
  BY DEF Keys
<1> QED BY <1>1 DEF Closed, Tps, Phases, Users, Hlens, Flags, Sacks, Dsacks, Words, TcpHdr

\* The invariant holds of a closed socket that has sent nothing.
LEMMA InitIInv == HeaderInit => IInv
<1> SUFFICES ASSUME HeaderInit PROVE IInv
  OBVIOUS
<1>1. TpOK(Closed)
  BY ClosedOK DEF TpOK, Closed
<1> QED BY <1>1, NoHeaderOK, NoWindowOK DEF HeaderInit, IInv

\* Connecting chooses a size and a first window.
LEMMA ConnectStep ==
  ASSUME NEW key \in Keys, NEW mtu \in Mtus, NEW user \in {0, MinMss}, NEW ts \in BOOLEAN,
         NEW recent \in BOOLEAN, NEW probing \in BOOLEAN, NEW space \in Spaces, NEW clamp \in Clamps,
         NEW ws \in BOOLEAN, NEW signed \in BOOLEAN, NEW init \in InitRwnds,
         Connect(key, mtu, user, ts, recent, probing, space, clamp, ws, signed, init)
  PROVE  TpOK(tp') /\ WndOK(wnd') /\ seg' = seg /\ tp'.mssNow = 0
<1> DEFINE t == [Closed EXCEPT !.phase = "synSent", !.key = key, !.mtu = mtu, !.user = user]
           hl == ConnectHlen(t, ts)
           cl == IF t.user > 0 THEN t.user ELSE t.clamp
           t1 == [t EXCEPT !.hlen = hl, !.maxWnd = 0, !.clamp = cl]
           t2 == MtupInit(t1, probing)
           t3 == SyncMss(t2, t.mtu)
<1>0. tp' = t3 /\ wnd' = SelectInitialWindow(space, FirstMss(t, ts, recent), clamp, ws, signed, init)
      /\ seg' = seg
  BY DEF Connect, ConnectInit
<1>1. mtu \in Nat /\ "synSent" \in Phases /\ user \in Users /\ space \in Int /\ clamp \in Nat /\ init \in Nat
      /\ probing \in Flags
  BY HeaderAssumption DEF Phases, Users, Flags
<1>2. t \in Tps
  BY <1>1, ClosedOK DEF Tps
<1>3. t.phase = "synSent" /\ t.mtu = mtu /\ t.user = user /\ t.key = key /\ t.mssNow = 0
  <2>1. Closed.mssNow = 0
    BY DEF Closed
  <2> QED BY <2>1, ClosedOK DEF Tps
<1> HIDE DEF t
<1>4. hl \in Hlens
  <2>1. key.mac \in 0 .. 16
    BY KeyMac
  <2>2. Align4(key.mac + 4) \in 0 .. 20 /\ Align4(key.mac + 4) % 4 = 0
    BY <2>1 DEF Align4
  <2> DEFINE a == Align4(key.mac + 4)
  <2>3. hl = 20 + (IF ts THEN 12 ELSE 0) + (IF key.type = "ao" THEN a ELSE 0)
    BY <1>3 DEF ConnectHlen, TcpHdr
  <2> HIDE DEF a, hl
  <2> QED BY <2>2, <2>3 DEF a, Hlens
<1>5. cl \in Nat
  BY <1>2, <1>3 DEF Tps, MinMss
<1>5a. hl <= 52 /\ FirstMss(t, ts, recent) = AdvMss(t) - (IF recent THEN hl - TcpHdr ELSE 0)
  <2>1. key.mac \in 0 .. 16
    BY KeyMac
  <2>2. Align4(key.mac + 4) \in 0 .. 20
    BY <2>1 DEF Align4
  <2> DEFINE a == Align4(key.mac + 4)
  <2>3. hl = 20 + (IF ts THEN 12 ELSE 0) + (IF key.type = "ao" THEN a ELSE 0)
    BY <1>3 DEF ConnectHlen, TcpHdr
  <2>4. FirstMss(t, ts, recent) = AdvMss(t) - (IF recent THEN hl - TcpHdr ELSE 0)
    BY DEF FirstMss
  <2> HIDE DEF a, hl
  <2>5. hl <= 52
    BY <2>2, <2>3 DEF a
  <2> QED BY <2>4, <2>5
<1> HIDE DEF hl, cl
<1>6. t1 \in Tps
  BY <1>2, <1>4, <1>5 DEF Tps
<1>7. t1.phase = "synSent" /\ t1.mssNow = 0
  BY <1>2, <1>3 DEF Tps
<1> HIDE DEF t1
<1>8. t2 \in Tps /\ t2.phase = "synSent" /\ t2.mssNow = 0
  BY <1>1, <1>6, <1>7, MtupInitOK DEF SameBut
<1> HIDE DEF t2
<1>9. t3 \in Tps /\ t3.phase = "synSent" /\ t3.mssNow = 0
  BY <1>1, <1>3, <1>8, SyncMssOK DEF SameBut
<1> HIDE DEF t3
<1>10. TpOK(tp') /\ tp'.mssNow = 0
  BY <1>0, <1>9 DEF TpOK
<1>11. FirstMss(t, ts, recent) \in Nat \ {0}
  <2>1. AdvMss(t) \in Nat /\ AdvMss(t) >= 88
    BY <1>1, <1>3 DEF AdvMss, MssClamp, MaxOf, MinOf, MinMss, NetHdr, TcpHdr
  <2>2. hl \in Nat
    BY <1>4 DEF Hlens
  <2> QED BY <1>4, <1>5a, <2>1, <2>2 DEF Hlens, TcpHdr
<1>12. WndOK(wnd')
  BY <1>0, <1>1, <1>11, SelectInitialWindowOK
<1> QED BY <1>0, <1>10, <1>12

\* MPTCP asks for whole words.
LEMMA MptcpWords ==
  ASSUME NEW m \in MptcpSizes \cup {0}
  PROVE  m \in Words
<1>1. CASE m = 0
  BY <1>1 DEF Words
<1>2. CASE m \in MptcpSizes
  <2>1. \A n \in MptcpSizes : n \in Nat /\ n % 4 = 0
    BY HeaderAssumption
  <2> QED BY <1>2, <2>1 DEF Words
<1> QED BY <1>1, <1>2

\* What is wanted of a header comes in whole words where it must.
LEMMA WantsWords ==
  ASSUME NEW w \in Wants
  PROVE  WantsOK(w)
<1>1. /\ w.cookie \in Cookies \cup {0} /\ w.mptcp \in MptcpSizes \cup {0}
      /\ w.bpf \in BpfSizes \cup {0}
  BY DEF Wants
<1>2. w.cookie \in Nat /\ w.bpf \in Nat
  <2>1. \A n \in Cookies \cup {0} : n \in Nat
    BY HeaderAssumption
  <2>2. \A n \in BpfSizes \cup {0} : n \in Nat
    BY HeaderAssumption
  <2> QED BY <1>1, <2>1, <2>2
<1>3. w.mptcp \in Nat /\ w.mptcp % 4 = 0
  BY <1>1, MptcpWords DEF Words
<1> QED BY <1>2, <1>3 DEF WantsOK

\* tcp_connect: the options of a SYN fit, and sizes and window stay.
LEMMA SendSynStep ==
  ASSUME TpOK(tp), NEW w \in Wants, SendSyn(w)
  PROVE  SegOK(seg') /\ tp' = tp /\ wnd' = wnd /\ seg'.kind # "data"
<1>1. tp.key \in Keys
  BY DEF TpOK, Tps
<1> DEFINE o == SynOptions(tp.key, w)
<1>2. Exact(o) /\ o.left \in 0 .. 40
  BY <1>1, WantsWords, SynExact
<1>3. seg' = Header("syn", o, 0) /\ tp' = tp /\ wnd' = wnd
  BY DEF SendSyn
<1>4. SegOK(seg')
  <2> HIDE DEF o
  <2> QED BY <1>2, <1>3, HeaderOK
<1>5. seg'.kind = "syn"
  BY <1>3 DEF Header
<1> QED BY <1>3, <1>4, <1>5

\* The peer's answer gives the connection the size that the peer takes.
LEMMA RecvSynAckStep ==
  ASSUME TpOK(tp), NEW ts \in BOOLEAN, NEW mss \in PeerMss, NEW win \in Windows,
         RecvSynAck(ts, mss, win)
  PROVE  TpOK(tp') /\ seg' = NoHeader /\ wnd' = NoWindow /\ tp'.mssNow = 0
<1> DEFINE hl == TcpHdr + (IF ts THEN 12 ELSE 0)
           cl == MssClamp(tp.user, mss)
           t  == [tp EXCEPT !.phase = "established", !.ts = ts, !.maxWnd = win, !.hlen = hl,
                            !.clamp = cl]
           t1 == SyncMss(t, tp.pmtu)
           t2 == MtupInit(t1, tp.probing)
<1>0. tp' = t2 /\ seg' = NoHeader /\ wnd' = NoWindow /\ tp.phase = "synSent"
  BY DEF RecvSynAck
<1>1. /\ tp \in Tps /\ tp.mssNow = 0 /\ tp.user \in Users /\ tp.pmtu \in Nat
      /\ tp.probing \in Flags
  BY <1>0 DEF TpOK, Tps
<1>2. hl \in Hlens /\ ts \in Flags /\ "established" \in Phases
  BY DEF Hlens, Flags, Phases, TcpHdr
<1>3. mss \in Nat /\ win \in Nat
  BY HeaderAssumption
<1>4. cl \in Nat
  BY <1>1, <1>3 DEF MssClamp, MinOf, Users, MinMss
<1> HIDE DEF hl, cl
<1>5. t \in Tps
  BY <1>1, <1>2, <1>3, <1>4 DEF Tps
<1>6. t.phase = "established" /\ t.mssNow = 0
  BY <1>1 DEF Tps
<1> HIDE DEF t
<1>7. t1 \in Tps /\ t1.phase = "established" /\ t1.mssNow = 0 /\ MssOK(t1)
  BY <1>1, <1>5, <1>6, SyncMssOK DEF SameBut
<1> HIDE DEF t1
<1>8. t2 \in Tps /\ SameBut(t1, t2) /\ t2.pmtu = t1.pmtu /\ t2.mss = t1.mss
  BY <1>1, <1>7, MtupInitOK
<1> HIDE DEF t2
<1>9. MssOK(t2) /\ t2.phase = "established" /\ t2.mssNow = 0
  BY <1>7, <1>8 DEF MssOK, SameBut, MtuToMss
<1> QED BY <1>0, <1>8, <1>9 DEF TpOK

\* tcp_make_synack: the options of a SYN-ACK fit the key and the request.
LEMMA MakeSynackStep ==
  ASSUME TpOK(tp), NEW key \in Keys, NEW w \in Wants, MakeSynack(key, w)
  PROVE  /\ TpOK(tp') /\ SegOK(seg') /\ wnd' = wnd /\ tp'.mssNow = 0
         /\ seg'.kind # "data"
<1> DEFINE o == SynackOptions(key, w)
           on == SynackTs(key, w)
           t == [tp EXCEPT !.phase = "synRecv", !.key = key, !.ts = on]
<1>1. /\ tp' = t /\ seg' = Header("synack", o, 0) /\ wnd' = wnd
      /\ tp.phase \in {"closed", "synRecv"}
  BY DEF MakeSynack
<1>2. Exact(o) /\ o.left \in 0 .. 40
  BY WantsWords, SynackExact
<1>3. SegOK(seg') /\ seg'.kind # "data"
  <2> HIDE DEF o
  <2>1. SegOK(seg')
    BY <1>1, <1>2, HeaderOK
  <2>2. seg'.kind = "synack"
    BY <1>1 DEF Header
  <2> QED BY <2>1, <2>2
<1>4. on \in Flags
  BY DEF SynackTs, Flags
<1>5. tp \in Tps /\ tp.mssNow = 0 /\ "synRecv" \in Phases
  BY <1>1 DEF TpOK, Phases
<1> HIDE DEF on
<1>6. t \in Tps
  BY <1>4, <1>5 DEF Tps
<1>7. t.phase = "synRecv" /\ t.mssNow = 0
  BY <1>5 DEF Tps
<1> HIDE DEF t
<1> QED BY <1>1, <1>3, <1>6, <1>7 DEF TpOK

\* A child starts with the size that its path and the peer's MSS allow.
LEMMA CreateChildStep ==
  ASSUME TpOK(tp), NEW mtu \in Mtus, NEW mss \in PeerMss, NEW win \in Windows,
         NEW probing \in BOOLEAN, CreateChild(mtu, mss, win, probing)
  PROVE  TpOK(tp') /\ seg' = NoHeader /\ wnd' = wnd /\ tp'.mssNow = 0
<1> DEFINE hl == TcpHdr + (IF tp.ts THEN 12 ELSE 0) + (IF tp.key.type = "md5" THEN 20 ELSE 0)
           t  == [tp EXCEPT !.phase = "established", !.mtu = mtu, !.clamp = mss, !.maxWnd = win,
                            !.hlen = hl]
           t1 == SyncMss(t, mtu)
           t2 == MtupInit(t1, probing)
<1>0. tp' = t2 /\ seg' = NoHeader /\ wnd' = wnd /\ tp.phase = "synRecv"
  BY DEF CreateChild
<1>1. tp \in Tps /\ tp.mssNow = 0
  BY <1>0 DEF TpOK
<1>2. hl \in Hlens /\ probing \in Flags /\ "established" \in Phases
  BY DEF Hlens, Flags, Phases, TcpHdr
<1>3. mtu \in Nat /\ mss \in Nat /\ win \in Nat
  BY HeaderAssumption
<1> HIDE DEF hl
<1>5. t \in Tps
  BY <1>1, <1>2, <1>3 DEF Tps
<1>6. t.phase = "established" /\ t.mssNow = 0
  BY <1>1 DEF Tps
<1> HIDE DEF t
<1>7. t1 \in Tps /\ t1.phase = "established" /\ t1.mssNow = 0 /\ MssOK(t1)
  BY <1>3, <1>5, <1>6, SyncMssOK DEF SameBut
<1> HIDE DEF t1
<1>8. t2 \in Tps /\ SameBut(t1, t2) /\ t2.pmtu = t1.pmtu /\ t2.mss = t1.mss
  BY <1>2, <1>7, MtupInitOK
<1> HIDE DEF t2
<1>9. MssOK(t2) /\ t2.phase = "established" /\ t2.mssNow = 0
  BY <1>7, <1>8 DEF MssOK, SameBut, MtuToMss
<1> QED BY <1>0, <1>8, <1>9 DEF TpOK

\* A transmission starts with a size that its options leave.
LEMMA StartXmitStep ==
  ASSUME TpOK(tp), NEW m \in MptcpSizes \cup {0}, NEW b \in BpfSizes \cup {0}, StartXmit(m, b)
  PROVE  /\ TpOK(tp') /\ seg' = seg /\ wnd' = wnd
         /\ tp'.mssNow > 0 /\ tp'.mptcp = m /\ tp'.bpf = b
         /\ tp'.key = tp.key /\ tp'.ts = tp.ts /\ tp'.sacks = tp.sacks /\ tp'.dsack = tp.dsack
         /\ tp'.mssNow = tp'.mss + tp'.hlen - 20 - Size(EstablishedOptions(tp, m, b))
<1> DEFINE u == CurrentTp(tp)
           s == Size(EstablishedOptions(tp, m, b))
           n == CurrentMss(tp, m, b)
           t == [u EXCEPT !.mssNow = n, !.mptcp = m, !.bpf = b]
<1>0. tp' = t /\ seg' = seg /\ wnd' = wnd /\ tp.phase = "established"
  BY DEF StartXmit
<1>1. tp \in Tps /\ MssOK(tp) /\ m \in Words /\ b \in Nat
  BY <1>0, MptcpWords, HeaderAssumption DEF TpOK
<1>2. u \in Tps /\ SameBut(tp, u) /\ MssOK(u) /\ u.pmtu = tp.mtu
  BY <1>1, CurrentTpOK
<1>3. s \in 0 .. 40 /\ n = u.mss - (s + 20 - tp.hlen) /\ n \in Nat /\ n >= 8
  BY <1>1, CurrentMssFloor
<1> HIDE DEF u, s, n
<1>4. t \in Tps
  BY <1>1, <1>2, <1>3 DEF Tps
<1>5. SameButNow(u, t) /\ t.mssNow = n /\ t.mptcp = m /\ t.bpf = b
  BY <1>2 DEF Tps, SameButNow
<1> HIDE DEF t
<1>6. MssOK(t) /\ t.pmtu = t.mtu
  BY <1>2, <1>5 DEF MssOK, MtuToMss, SameBut, SameButNow
<1>7. t.phase = "established"
  BY <1>0, <1>2, <1>5 DEF SameBut, SameButNow
<1>8. TpOK(t) /\ t.mssNow > 0
  BY <1>3, <1>4, <1>5, <1>6, <1>7 DEF TpOK
<1>9. t.mss \in Int /\ t.hlen \in Int
  BY <1>4 DEF Tps, Hlens
<1>10. t.mssNow = t.mss + t.hlen - 20 - s
  BY <1>2, <1>3, <1>5, <1>9 DEF SameBut, SameButNow
<1>11. t.key = tp.key /\ t.ts = tp.ts /\ t.sacks = tp.sacks /\ t.dsack = tp.dsack
  BY <1>2, <1>5 DEF SameBut, SameButNow
<1> QED BY <1>0, <1>5, <1>8, <1>10, <1>11 DEF s

\* __tcp_transmit_skb on an established socket writes the options it has counted,
\* and a duplicate SACK goes with the first segment that has room for it.
LEMMA SendSegmentStep ==
  ASSUME TpOK(tp), SendSegment
  PROVE  LET o == EstablishedOptions(tp, tp.mptcp, tp.bpf)
         IN  /\ TpOK(tp') /\ SegOK(seg') /\ wnd' = wnd
             /\ o.left \in 0 .. 40 /\ Exact(o)
             /\ seg'.kind = "data" /\ seg'.opts = o
             /\ seg'.packet = 40 + ExtHdr + Size(o) + tp.mssNow
             /\ tp'.dsack = IF o.sacks > 0 THEN 0 ELSE tp.dsack
             /\ tp'.mssNow = tp.mssNow /\ tp'.mss = tp.mss /\ tp'.hlen = tp.hlen
             /\ tp'.mptcp = tp.mptcp /\ tp'.bpf = tp.bpf /\ tp'.key = tp.key /\ tp'.ts = tp.ts
             /\ tp'.sacks = tp.sacks
<1> DEFINE o == EstablishedOptions(tp, tp.mptcp, tp.bpf)
           d == IF o.sacks > 0 THEN 0 ELSE tp.dsack
           t == [tp EXCEPT !.dsack = d]
<1>0. tp' = t /\ seg' = Header("data", o, tp.mssNow) /\ wnd' = wnd /\ tp.mssNow > 0
  BY DEF SendSegment
<1>1. /\ tp \in Tps /\ tp.key \in Keys /\ tp.sacks \in 0 .. 4 /\ tp.dsack \in 0 .. 1
      /\ tp.mptcp \in Words /\ tp.bpf \in Nat /\ tp.mssNow \in Nat
  BY DEF TpOK, Tps, Sacks, Dsacks
<1>2. Exact(o) /\ o.left \in 0 .. 40
  BY <1>1, EstablishedExact DEF Words
<1> HIDE DEF o
<1>3. SegOK(seg')
  BY <1>0, <1>2, HeaderOK
<1>4. d \in Dsacks
  BY <1>1 DEF Dsacks
<1> HIDE DEF d
<1>5. t \in Tps
  BY <1>1, <1>4 DEF Tps
<1>6. /\ t.dsack = d /\ t.phase = tp.phase /\ t.mssNow = tp.mssNow /\ t.mss = tp.mss
      /\ t.hlen = tp.hlen /\ t.mptcp = tp.mptcp /\ t.bpf = tp.bpf /\ t.key = tp.key
      /\ t.ts = tp.ts /\ t.sacks = tp.sacks /\ t.pmtu = tp.pmtu /\ t.mtu = tp.mtu
      /\ t.clamp = tp.clamp
  BY <1>1 DEF Tps
<1> HIDE DEF t
<1>7. TpOK(t)
  BY <1>5, <1>6 DEF TpOK, MssOK, MtuToMss
<1>8. seg'.kind = "data" /\ seg'.opts = o /\ seg'.packet = 20 + ExtHdr + 20 + Size(o) + tp.mssNow
  BY <1>0 DEF Header, NetHdr, TcpHdr
<1>9. Size(o) \in Int
  BY <1>2 DEF Size, MaxOptionSpace
<1>10. seg'.packet = 40 + ExtHdr + Size(o) + tp.mssNow
  BY <1>1, <1>8, <1>9, Numbers
<1> QED BY <1>0, <1>2, <1>3, <1>6, <1>7, <1>8, <1>10 DEF o, d

\* Outside tcp_write_xmit no segment size is in use.
LEMMA EndXmitStep ==
  ASSUME TpOK(tp), EndXmit
  PROVE  TpOK(tp') /\ seg' = NoHeader /\ wnd' = wnd /\ tp'.mssNow = 0
<1> DEFINE t == [tp EXCEPT !.mssNow = 0, !.mptcp = 0, !.bpf = 0]
<1>0. tp' = t /\ seg' = NoHeader /\ wnd' = wnd
  BY DEF EndXmit
<1>1. tp \in Tps /\ 0 \in Words
  BY DEF TpOK, Words
<1>2. t \in Tps
  BY <1>1 DEF Tps
<1>3. /\ t.mssNow = 0 /\ t.phase = tp.phase /\ t.mss = tp.mss /\ t.hlen = tp.hlen
      /\ t.pmtu = tp.pmtu /\ t.clamp = tp.clamp
  BY <1>1 DEF Tps
<1> HIDE DEF t
<1> QED BY <1>0, <1>2, <1>3 DEF TpOK, MssOK, MtuToMss

\* Between two transmissions the bounds of the size survive a change of what
\* they do not depend on.
LEMMA IdleStep ==
  ASSUME TpOK(tp), Idle, NEW t \in Tps, t.phase = tp.phase, t.mssNow = tp.mssNow,
         t.mss = tp.mss, t.hlen = tp.hlen, t.clamp = tp.clamp, t.pmtu = tp.pmtu
  PROVE  TpOK(t) /\ t.mssNow = 0
BY DEF TpOK, MssOK, MtuToMss, Idle

\* New SACK blocks change no size that is in use.
LEMMA SackChangeStep ==
  ASSUME TpOK(tp), NEW n \in SackCounts, NEW d \in 0 .. 1, SackChange(n, d)
  PROVE  TpOK(tp') /\ tp'.mssNow = 0
<1> DEFINE t == [tp EXCEPT !.sacks = n, !.dsack = d]
<1>0. tp' = t /\ Idle /\ tp \in Tps
  BY DEF SackChange, TpOK
<1>1. n \in Sacks /\ d \in Dsacks
  BY HeaderAssumption DEF Sacks, Dsacks
<1>2. t \in Tps
  BY <1>0, <1>1 DEF Tps
<1>3. /\ t.phase = tp.phase /\ t.mssNow = tp.mssNow /\ t.mss = tp.mss /\ t.hlen = tp.hlen
      /\ t.clamp = tp.clamp /\ t.pmtu = tp.pmtu
  BY <1>0 DEF Tps
<1> HIDE DEF t
<1> QED BY <1>0, <1>2, <1>3, IdleStep

\* A new path MTU changes no size before tcp_sync_mss.
LEMMA PathChangeStep ==
  ASSUME TpOK(tp), NEW mtu \in Mtus, PathChange(mtu)
  PROVE  TpOK(tp') /\ tp'.mssNow = 0
<1> DEFINE t == [tp EXCEPT !.mtu = mtu]
<1>0. tp' = t /\ Idle /\ tp \in Tps
  BY DEF PathChange, TpOK
<1>1. mtu \in Nat
  BY HeaderAssumption
<1>2. t \in Tps
  BY <1>0, <1>1 DEF Tps
<1>3. /\ t.phase = tp.phase /\ t.mssNow = tp.mssNow /\ t.mss = tp.mss /\ t.hlen = tp.hlen
      /\ t.clamp = tp.clamp /\ t.pmtu = tp.pmtu
  BY <1>0 DEF Tps
<1> HIDE DEF t
<1> QED BY <1>0, <1>2, <1>3, IdleStep

\* A larger window of the peer lets tcp_sync_mss derive the size again.
LEMMA WindowGrowsStep ==
  ASSUME TpOK(tp), NEW win \in Windows, WindowGrows(win)
  PROVE  TpOK(tp') /\ tp'.mssNow = 0
<1> DEFINE u == [tp EXCEPT !.maxWnd = win]
           t == SyncMss(u, tp.pmtu)
<1>0. tp' = t
  BY DEF WindowGrows
<1>1. win \in Nat /\ tp \in Tps /\ tp.phase = "established" /\ tp.mssNow = 0 /\ tp.pmtu \in Nat
  BY HeaderAssumption DEF WindowGrows, TpOK, Idle, Tps
<1>2. u \in Tps
  BY <1>1 DEF Tps
<1>3. u.phase = "established" /\ u.mssNow = 0
  BY <1>1 DEF Tps
<1> HIDE DEF u
<1>4. t \in Tps /\ t.phase = "established" /\ t.mssNow = 0 /\ MssOK(t)
  BY <1>1, <1>2, <1>3, SyncMssOK DEF SameBut
<1> HIDE DEF t
<1> QED BY <1>0, <1>4 DEF TpOK

\* A deleted key changes no size before the next tcp_current_mss.
LEMMA DeleteKeyStep ==
  ASSUME TpOK(tp), DeleteKey
  PROVE  TpOK(tp') /\ tp'.mssNow = 0
<1> DEFINE t == [tp EXCEPT !.key = NoKey]
<1>0. tp' = t /\ Idle /\ tp \in Tps
  BY DEF DeleteKey, TpOK
<1>1. NoKey \in Keys
  BY DEF Keys
<1>2. t \in Tps
  BY <1>0, <1>1 DEF Tps
<1>3. /\ t.phase = tp.phase /\ t.mssNow = tp.mssNow /\ t.mss = tp.mss /\ t.hlen = tp.hlen
      /\ t.clamp = tp.clamp /\ t.pmtu = tp.pmtu
  BY <1>0 DEF Tps
<1> HIDE DEF t
<1> QED BY <1>0, <1>2, <1>3, IdleStep

\* Probing starts over from the size that the connection uses now.
LEMMA CheckReprobeStep ==
  ASSUME TpOK(tp), NEW m \in MptcpSizes \cup {0}, NEW b \in BpfSizes \cup {0}, CheckReprobe(m, b)
  PROVE  TpOK(tp') /\ tp'.mssNow = 0
<1> DEFINE u == CurrentTp(tp)
           n == CurrentMss(tp, m, b)
           h == u.clamp + TcpHdr + NetHdr
           l == MssToMtu(u, n)
           t == [u EXCEPT !.high = h, !.low = l]
<1>0. tp' = t /\ Idle
  BY DEF CheckReprobe
<1>1. /\ tp \in Tps /\ MssOK(tp) /\ m \in Words /\ b \in Nat /\ tp.phase = "established"
      /\ tp.mssNow = 0
  BY <1>0, MptcpWords, HeaderAssumption DEF TpOK, Idle
<1>2. u \in Tps /\ SameBut(tp, u) /\ MssOK(u)
  BY <1>1, CurrentTpOK
<1>3. n \in Nat
  BY <1>1, CurrentMssFloor
<1> HIDE DEF u, n
<1>4. u.clamp \in Nat /\ u.hlen \in Int
  BY <1>2 DEF Tps, Hlens
<1>5. h \in Int /\ l \in Int
  BY <1>3, <1>4, Numbers DEF MssToMtu, TcpHdr, NetHdr
<1> HIDE DEF h, l
<1>6. t \in Tps
  BY <1>2, <1>5 DEF Tps
<1>7. /\ t.phase = u.phase /\ t.mssNow = u.mssNow /\ t.mss = u.mss /\ t.hlen = u.hlen
      /\ t.clamp = u.clamp /\ t.pmtu = u.pmtu
  BY <1>2 DEF Tps
<1> HIDE DEF t
<1>8. t.phase = "established" /\ t.mssNow = 0
  BY <1>1, <1>2, <1>7 DEF SameBut
<1> QED BY <1>0, <1>2, <1>6, <1>7, <1>8 DEF TpOK, MssOK, MtuToMss

\* tcp_sync_mss after a change of the probes
LEMMA ProbeStep ==
  ASSUME TpOK(tp), Idle, NEW l \in Int, NEW on \in Flags
  PROVE  LET t == SyncMss([tp EXCEPT !.low = l, !.probing = on], tp.pmtu)
         IN  TpOK(t) /\ t.mssNow = 0
<1> DEFINE u == [tp EXCEPT !.low = l, !.probing = on]
           t == SyncMss(u, tp.pmtu)
<1>1. tp \in Tps /\ tp.phase = "established" /\ tp.mssNow = 0 /\ tp.pmtu \in Nat
  BY DEF TpOK, Idle, Tps
<1>2. u \in Tps
  BY <1>1 DEF Tps
<1>3. u.phase = "established" /\ u.mssNow = 0
  BY <1>1 DEF Tps
<1> HIDE DEF u
<1>4. t \in Tps /\ t.phase = "established" /\ t.mssNow = 0 /\ MssOK(t)
  BY <1>1, <1>2, <1>3, SyncMssOK DEF SameBut
<1> HIDE DEF t
<1>5. TpOK(t)
  BY <1>4 DEF TpOK
<1> QED BY <1>4, <1>5 DEF t, u

\* tcp_mtup_probe_success raises the lower end of the search and derives a size again.
LEMMA ProbeSuccessStep ==
  ASSUME TpOK(tp), NEW size \in Mtus, ProbeSuccess(size)
  PROVE  TpOK(tp') /\ tp'.mssNow = 0
<1>0. tp' = SyncMss([tp EXCEPT !.low = size], tp.pmtu) /\ Idle
  BY DEF ProbeSuccess
<1>1. size \in Int
  BY HeaderAssumption
<1>2. tp \in Tps /\ tp.probing \in Flags
  BY DEF TpOK, Tps
<1>3. [tp EXCEPT !.low = size] = [tp EXCEPT !.low = size, !.probing = tp.probing]
  BY <1>2 DEF Tps
<1> DEFINE u == [tp EXCEPT !.low = size]
           v == [tp EXCEPT !.low = size, !.probing = tp.probing]
<1>4. TpOK(SyncMss(v, tp.pmtu)) /\ SyncMss(v, tp.pmtu).mssNow = 0
  BY <1>0, <1>1, <1>2, ProbeStep
<1>5. tp' = SyncMss(u, tp.pmtu) /\ u = v
  BY <1>0, <1>3
<1> HIDE DEF u, v
<1> QED BY <1>4, <1>5

\* tcp_mtu_probing after a black hole halves the search but keeps its floors.
LEMMA BlackHoleStep ==
  ASSUME TpOK(tp), BlackHole
  PROVE  TpOK(tp') /\ tp'.mssNow = 0
<1> DEFINE half == MinOf(BaseMss, MtuToMss(tp, tp.low) \div 2)
           mss  == MaxOf(MaxOf(half, ProbeFloor), MinSndMss)
           l    == MssToMtu(tp, mss)
<1>0. /\ Idle
      /\ tp' = IF tp.probing THEN SyncMss([tp EXCEPT !.low = l], tp.pmtu)
               ELSE SyncMss([tp EXCEPT !.probing = TRUE], tp.pmtu)
  BY DEF BlackHole
<1>1. /\ tp \in Tps /\ tp.low \in Int /\ tp.probing \in Flags /\ tp.hlen \in Int
      /\ TRUE \in Flags
  BY DEF TpOK, Tps, Hlens, Flags
<1>2. half \in Int
  <2>1. MtuToMss(tp, tp.low) \in Int
    BY <1>1, MtuToMssFloor
  <2> QED BY <2>1, Numbers DEF MinOf
<1> HIDE DEF half
<1>3. mss \in Int
  BY <1>2, Numbers DEF MaxOf
<1> HIDE DEF mss
<1>4. l \in Int
  BY <1>1, <1>3, Numbers DEF MssToMtu, NetHdr
<1> HIDE DEF l
<1>5. CASE tp.probing
  <2>1. [tp EXCEPT !.low = l] = [tp EXCEPT !.low = l, !.probing = tp.probing]
    BY <1>1 DEF Tps
  <2> DEFINE u == [tp EXCEPT !.low = l]
             v == [tp EXCEPT !.low = l, !.probing = tp.probing]
  <2>2. TpOK(SyncMss(v, tp.pmtu)) /\ SyncMss(v, tp.pmtu).mssNow = 0
    BY <1>0, <1>1, <1>4, ProbeStep
  <2>3. tp' = SyncMss(u, tp.pmtu) /\ u = v
    BY <1>0, <1>5, <2>1
  <2> HIDE DEF u, v
  <2> QED BY <2>2, <2>3
<1>6. CASE ~tp.probing
  <2>1. [tp EXCEPT !.probing = TRUE] = [tp EXCEPT !.low = tp.low, !.probing = TRUE]
    BY <1>1 DEF Tps
  <2> QED BY <1>0, <1>1, <1>6, <2>1, ProbeStep
<1> QED BY <1>5, <1>6

\* The actions that leave the header and the window alone
Quiet ==
    \/ \E m \in MptcpSizes \cup {0}, b \in BpfSizes \cup {0} : CheckReprobe(m, b)
    \/ \E n \in SackCounts, d \in 0 .. 1 : SackChange(n, d)
    \/ \E mtu \in Mtus : PathChange(mtu) \/ ProbeSuccess(mtu)
    \/ \E win \in Windows : WindowGrows(win)
    \/ DeleteKey
    \/ BlackHole

\* What happens outside tcp_write_xmit leaves segment and window alone.
LEMMA QuietStep ==
  ASSUME TpOK(tp), Quiet
  PROVE  TpOK(tp') /\ tp'.mssNow = 0 /\ tp.mssNow = 0 /\ seg' = seg /\ wnd' = wnd
<1>1. seg' = seg /\ wnd' = wnd /\ tp.mssNow = 0
  BY DEF Quiet, CheckReprobe, SackChange, PathChange, ProbeSuccess, WindowGrows, DeleteKey,
         BlackHole, Idle
<1>2. TpOK(tp') /\ tp'.mssNow = 0
  BY CheckReprobeStep, SackChangeStep, PathChangeStep, ProbeSuccessStep, WindowGrowsStep,
     DeleteKeyStep, BlackHoleStep DEF Quiet
<1> QED BY <1>1, <1>2

\* Every step keeps the invariant.
LEMMA NextIInv == IInv /\ [HeaderNext]_vars => IInv'
<1> SUFFICES ASSUME IInv, [HeaderNext]_vars PROVE IInv'
  OBVIOUS
<1>0. TpOK(tp) /\ SegOK(seg) /\ WndOK(wnd)
  BY DEF IInv
<1> SUFFICES TpOK(tp') /\ SegOK(seg') /\ WndOK(wnd')
  BY DEF IInv
<1>1. ASSUME NEW key \in Keys, NEW mtu \in Mtus, NEW ts \in BOOLEAN, NEW recent \in BOOLEAN,
             NEW probing \in BOOLEAN, NEW ws \in BOOLEAN, NEW signed \in BOOLEAN, NEW space \in Spaces,
             NEW clamp \in Clamps, NEW init \in InitRwnds, NEW user \in {0, MinMss},
             Connect(key, mtu, user, ts, recent, probing, space, clamp, ws, signed, init)
      PROVE  TpOK(tp') /\ SegOK(seg') /\ WndOK(wnd')
  BY <1>0, <1>1, ConnectStep
<1>2. ASSUME NEW w \in Wants, SendSyn(w)
      PROVE  TpOK(tp') /\ SegOK(seg') /\ WndOK(wnd')
  BY <1>0, <1>2, SendSynStep
<1>3. ASSUME NEW ts \in BOOLEAN, NEW mss \in PeerMss, NEW win \in Windows,
             RecvSynAck(ts, mss, win)
      PROVE  TpOK(tp') /\ SegOK(seg') /\ WndOK(wnd')
  BY <1>0, <1>3, RecvSynAckStep, NoHeaderOK, NoWindowOK
<1>4. ASSUME NEW key \in Keys, NEW w \in Wants, MakeSynack(key, w)
      PROVE  TpOK(tp') /\ SegOK(seg') /\ WndOK(wnd')
  BY <1>0, <1>4, MakeSynackStep
<1>5. ASSUME NEW mtu \in Mtus, NEW mss \in PeerMss, NEW win \in Windows,
             NEW probing \in BOOLEAN, CreateChild(mtu, mss, win, probing)
      PROVE  TpOK(tp') /\ SegOK(seg') /\ WndOK(wnd')
  BY <1>0, <1>5, CreateChildStep, NoHeaderOK
<1>6. ASSUME NEW m \in MptcpSizes \cup {0}, NEW b \in BpfSizes \cup {0}, StartXmit(m, b)
      PROVE  TpOK(tp') /\ SegOK(seg') /\ WndOK(wnd')
  BY <1>0, <1>6, StartXmitStep
<1>7. CASE SendSegment
  BY <1>0, <1>7, SendSegmentStep
<1>8. CASE EndXmit
  BY <1>0, <1>8, EndXmitStep, NoHeaderOK
<1>9. CASE Quiet
  BY <1>0, <1>9, QuietStep
<1>10. CASE UNCHANGED vars
  BY <1>0, <1>10 DEF vars
<1> QED BY <1>1, <1>2, <1>3, <1>4, <1>5, <1>6, <1>7, <1>8, <1>9, <1>10 DEF HeaderNext, Quiet

\* The inductive invariant holds in every reachable state.
LEMMA Invariant == HeaderSpec => []IInv
<1>1. HeaderInit => IInv
  BY InitIInv
<1>2. IInv /\ [HeaderNext]_vars => IInv'
  BY NextIInv
<1> QED BY <1>1, <1>2, PTL DEF HeaderSpec

\* What goes into a header fits its fields, whatever keys, cookies, options of
\* other subsystems, routes and buffers there are.
THEOREM HeaderAlwaysFits == HeaderSpec => []HeaderFits
<1>1. IInv => HeaderFits
  <2> SUFFICES ASSUME IInv PROVE HeaderFits
    OBVIOUS
  <2>1. TpOK(tp) /\ SegOK(seg) /\ WndOK(wnd)
    BY DEF IInv
  <2>2. HeaderTypeOK
    <3>1. seg.opts.set \subseteq Names
      BY <2>1 DEF SegOK, Exact, Opts, NameSets
    <3>2. tp \in Tps /\ wnd.rcv \in Nat /\ wnd.clamp \in Nat
      BY <2>1 DEF TpOK, WndOK
    <3>3. /\ tp.key \in Keys /\ tp.hlen \in 20 .. 60 /\ tp.hlen % 4 = 0
          /\ tp.sacks \in 0 .. 4 /\ tp.dsack \in 0 .. 1
          /\ tp.clamp \in Nat /\ tp.maxWnd \in Nat /\ tp.mtu \in Nat /\ tp.pmtu \in Nat
          /\ tp.mssNow \in Nat
      BY <3>2 DEF Tps, Hlens, Sacks, Dsacks
    <3> QED BY <3>1, <3>2, <3>3 DEF HeaderTypeOK
  <2>3. OptionsFit /\ WrittenAsReserved
    BY <2>1 DEF OptionsFit, WrittenAsReserved, SegOK, Exact, MaxOptionSpace
  <2>4. InitialWindow
    BY <2>1 DEF WndOK, InitialWindow
  <2> QED BY <2>2, <2>3, <2>4 DEF HeaderFits
<1> QED BY <1>1, Invariant, PTL

\* No path, peer or combination of options makes a segment carry less than
\* 8 bytes of data.
THEOREM MssKeepsFloor == HeaderSpec => []MssFloor
<1>1. IInv => MssFloor
  BY DEF IInv, TpOK, MssOK, MssFloor
<1> QED BY <1>1, Invariant, PTL

-----------------------------------------------------------------------------
(* A full segment fits *)

\* What is left after a BPF program has taken its part of the room
BpfLeft(l, b) == IF b = 0 \/ b > l THEN l ELSE l - Align4(b)

\* ... and that part
BpfTaken(l, b) == IF b = 0 \/ b > l THEN 0 ELSE Align4(b)

\* What a BPF option of n bytes takes beyond a SACK block
Beyond(n) == MaxOf(n - 8, 0)

\* The room that a BPF option takes and leaves.
LEMMA BpfLeftOf ==
  ASSUME NEW o \in Opts, o.bpf = 0, NEW b \in Nat
  PROVE  BpfRoom(o, b).left = BpfLeft(o.left, b) /\ BpfRoom(o, b).bpf = BpfTaken(o.left, b)
BY DEF BpfRoom, BpfLeft, BpfTaken, Opts

\* Without the duplicate SACK the options are larger by no more than what a BPF
\* option takes beyond the block that is gone.
LEMMA DsackShrinks ==
  ASSUME NEW t, NEW u, t.key \in Keys, u.key = t.key, u.ts = t.ts,
         t.sacks \in 0 .. 4, u.sacks = t.sacks, t.dsack \in 0 .. 1,
         NEW m \in Words, NEW b \in Nat,
         u.dsack = IF EstablishedOptions(t, m, b).sacks > 0 THEN 0 ELSE t.dsack
  PROVE  Size(EstablishedOptions(u, m, b))
           <= Size(EstablishedOptions(t, m, b)) + Beyond(EstablishedOptions(u, m, b).bpf)
<1> DEFINE o1 == KeyRoom(Room, t.key)
           o2 == When(t.ts, Must(o1, "ts", 12), o1)
           o3 == MptcpRoom(o2, m)
           n  == t.sacks + t.dsack
           k  == u.sacks + u.dsack
           E(i) == IF i = 0 THEN BpfRoom(o3, b)
                   ELSE IF o3.left < 4 + 8 THEN o3 ELSE BpfRoom(SackRoom(o3, i), b)
           F(i) == IF i = 0 THEN BpfLeft(o3.left, b)
                   ELSE IF o3.left < 12 THEN o3.left
                   ELSE BpfLeft(o3.left - (4 + 8 * MinOf(i, (o3.left - 4) \div 8)), b)
           G(i) == IF i = 0 THEN BpfTaken(o3.left, b)
                   ELSE IF o3.left < 12 THEN 0
                   ELSE BpfTaken(o3.left - (4 + 8 * MinOf(i, (o3.left - 4) \div 8)), b)
<1>1. EstablishedOptions(t, m, b) = E(n) /\ EstablishedOptions(u, m, b) = E(k)
  BY DEF EstablishedOptions
<1>2. /\ Exact(o1) /\ o1.left >= 20 /\ o1.left <= 40 /\ o1.set \subseteq {"md5", "ao"}
      /\ o1.bpf = 0 /\ o1.left \in Int /\ o1.sacks = 0
  BY KeyExact DEF Exact, Opts
<1> HIDE DEF o1
<1>3. /\ Exact(o2) /\ o2.left >= 8 /\ o2.left <= 40 /\ o2.set \subseteq {"md5", "ao", "ts"}
      /\ o2.bpf = 0 /\ o2.sacks = 0
  <2>1. CASE t.ts
    <3>1. o2 = Must(o1, "ts", 12)
      BY <2>1 DEF When
    <3>2. /\ Exact(o2) /\ o2.left = o1.left - 12 /\ o2.set = o1.set \cup {"ts"}
          /\ o2.bpf = o1.bpf /\ o2.sacks = o1.sacks
      BY <1>2, <3>1, MustExact
    <3> QED BY <1>2, <3>2
  <2>2. CASE ~t.ts
    <3>1. o2 = o1
      BY <2>2 DEF When
    <3> QED BY <1>2, <3>1
  <2> QED BY <2>1, <2>2
<1> HIDE DEF o2
<1>4. /\ Exact(o3) /\ o3.left >= 0 /\ o3.left <= 40 /\ "sack" \notin o3.set /\ o3.bpf = 0
      /\ o3.left \in Int /\ o3.left % 4 = 0 /\ o3.sacks = 0
  <2>0. m \in Nat /\ m % 4 = 0
    BY DEF Words
  <2>1. /\ Exact(o3) /\ o3.left >= 0 /\ o3.left <= o2.left /\ o3.bpf = 0
        /\ o3.set \subseteq o2.set \cup {"mptcp"} /\ o3.sacks = o2.sacks
    <3>1. o2.left \in Int /\ o2.left >= 0 /\ "mptcp" \notin o2.set
      BY <1>3 DEF Exact, Opts
    <3> QED BY <1>3, <2>0, <3>1, MptcpExact
  <2> QED BY <1>3, <2>1 DEF Exact, Opts
<1> HIDE DEF o3
<1>5. \A i \in 0 .. 5 : E(i).left = F(i) /\ E(i).left \in Int /\ E(i).bpf = G(i) /\ G(i) \in Nat
  <2> SUFFICES ASSUME NEW i \in 0 .. 5
               PROVE  E(i).left = F(i) /\ E(i).left \in Int /\ E(i).bpf = G(i) /\ G(i) \in Nat
    OBVIOUS
  <2>1. CASE i = 0
    <3>1. BpfRoom(o3, b).left = BpfLeft(o3.left, b) /\ BpfRoom(o3, b).bpf = BpfTaken(o3.left, b)
      BY <1>4, BpfLeftOf DEF Exact
    <3>2. BpfLeft(o3.left, b) \in Int /\ BpfTaken(o3.left, b) \in Nat
      BY <1>4 DEF BpfLeft, BpfTaken, Align4
    <3> QED BY <2>1, <3>1, <3>2
  <2>2. CASE i # 0 /\ o3.left < 12
    <3>1. E(i) = o3 /\ F(i) = o3.left /\ G(i) = 0
      BY <2>2
    <3> QED BY <1>4, <3>1
  <2>3. CASE i # 0 /\ o3.left >= 12
    <3> DEFINE fit == MinOf(i, (o3.left - 4) \div 8)
               s == SackRoom(o3, i)
    <3>0. i \in Nat \ {0}
      BY <2>3
    <3>1. Exact(s) /\ s.left = o3.left - (4 + 8 * fit) /\ s.bpf = 0
      BY <1>4, <2>3, <3>0, SackExact
    <3>2. s \in Opts /\ s.left \in Int
      BY <3>1 DEF Exact, Opts
    <3>3. BpfRoom(s, b).left = BpfLeft(s.left, b) /\ BpfRoom(s, b).bpf = BpfTaken(s.left, b)
      BY <3>1, <3>2, BpfLeftOf
    <3>4. E(i) = BpfRoom(s, b) /\ F(i) = BpfLeft(o3.left - (4 + 8 * fit), b)
          /\ G(i) = BpfTaken(o3.left - (4 + 8 * fit), b)
      BY <1>4, <2>3
    <3>5. BpfLeft(s.left, b) \in Int /\ BpfTaken(s.left, b) \in Nat
      BY <3>2 DEF BpfLeft, BpfTaken, Align4
    <3> HIDE DEF s, fit, E, F, G
    <3> QED BY <3>1, <3>3, <3>4, <3>5
  <2> QED BY <1>4, <2>1, <2>2, <2>3
<1>6. n \in 0 .. 5
  OBVIOUS
<1>7. CASE k = n
  <2>1. E(k) = E(n) /\ E(n).left \in Int /\ E(n).bpf \in Nat
    BY <1>5, <1>6, <1>7
  <2> HIDE DEF E
  <2>2. Beyond(E(n).bpf) \in Nat
    BY <2>1 DEF Beyond, MaxOf
  <2> QED BY <1>1, <2>1, <2>2 DEF Size, MaxOptionSpace
<1>8. CASE k # n
  <2>1. u.dsack = 0 /\ t.dsack = 1 /\ E(n).sacks > 0
    BY <1>1, <1>8
  <2>2. k = n - 1 /\ n >= 1 /\ k \in 0 .. 5
    BY <2>1
  <2>3. o3.left >= 12
    <3>1. CASE o3.left < 12
      <4>1. E(n) = o3
        BY <1>4, <2>2, <3>1
      <4> QED BY <1>4, <2>1, <4>1
    <3> QED BY <1>4, <3>1
  <2>4. F(k) + Beyond(G(k)) >= F(n)
    <3> DEFINE q == (o3.left - 4) \div 8
    <3>1. q \in 1 .. 4 /\ 4 + 8 * q <= o3.left
      BY <1>4, <2>3
    <3>2. Align4(b) \in Nat
      BY DEF Align4
    <3> DEFINE a == Align4(b)
               x == o3.left - (4 + 8 * MinOf(n, q))
               y == IF k = 0 THEN o3.left ELSE o3.left - (4 + 8 * MinOf(k, q))
    <3>3. F(n) = BpfLeft(x, b) /\ F(k) = BpfLeft(y, b) /\ G(k) = BpfTaken(y, b)
      BY <1>4, <2>2, <2>3
    <3> HIDE DEF q, F, G
    <3>4. x \in Nat /\ y \in Nat /\ (y = x \/ y >= x + 8)
      <4> DEFINE f == MinOf(n, q)
                 g == MinOf(k, q)
      <4>1. o3.left \in Nat
        BY <1>4
      <4>2. f \in 1 .. q /\ (k = 0 => f = 1)
        BY <1>6, <2>2, <3>1 DEF MinOf
      <4>3. k # 0 => g \in 1 .. q /\ (g = f \/ g = f - 1)
        BY <1>6, <2>2, <3>1 DEF MinOf
      <4>4. x = o3.left - (4 + 8 * f)
        OBVIOUS
      <4>5. y = IF k = 0 THEN o3.left ELSE o3.left - (4 + 8 * g)
        OBVIOUS
      <4> HIDE DEF x, y, f, g
      <4>6. CASE k = 0
        BY <3>1, <4>1, <4>2, <4>4, <4>5, <4>6
      <4>7. CASE k # 0
        <5>1. x \in Nat
          BY <3>1, <4>1, <4>2, <4>4
        <5>2. y = o3.left - (4 + 8 * g) /\ g \in 1 .. q /\ (g = f \/ g = f - 1)
          BY <4>3, <4>5, <4>7
        <5>3. y \in Nat
          BY <3>1, <4>1, <5>2
        <5> QED BY <4>1, <4>2, <4>4, <5>1, <5>2, <5>3
      <4> QED BY <4>6, <4>7
    <3> HIDE DEF x, y
    <3>5. BpfLeft(y, b) + Beyond(BpfTaken(y, b)) >= BpfLeft(x, b)
      <4> DEFINE z == BpfTaken(y, b)
                 v == Beyond(z)
      <4>1. BpfLeft(y, b) = y - z /\ z \in Nat
        BY <3>2, <3>4 DEF BpfLeft, BpfTaken
      <4>2. BpfLeft(x, b) \in Int /\ BpfLeft(x, b) <= x
        BY <3>2, <3>4 DEF BpfLeft
      <4> HIDE DEF z
      <4>3. v \in Nat /\ v >= z - 8
        BY <4>1 DEF Beyond, MaxOf
      <4>4. CASE y = x
        <5>1. BpfLeft(y, b) = BpfLeft(x, b)
          BY <4>4
        <5> HIDE DEF v
        <5>2. BpfLeft(y, b) + v >= BpfLeft(x, b)
          BY <4>2, <4>3, <5>1
        <5> QED BY <5>2 DEF v, z
      <4>5. CASE y >= x + 8
        <5> HIDE DEF v
        <5>1. BpfLeft(y, b) + v >= BpfLeft(x, b)
          BY <3>4, <4>1, <4>2, <4>3, <4>5
        <5> QED BY <5>1 DEF v, z
      <4> QED BY <3>4, <4>4, <4>5
    <3> QED BY <3>3, <3>5
  <2>5. /\ E(k).left = F(k) /\ E(n).left = F(n) /\ E(k).left \in Int /\ E(n).left \in Int
        /\ E(k).bpf = G(k) /\ G(k) \in Nat
    BY <1>5, <1>6, <2>2
  <2> HIDE DEF E, F, G
  <2>6. Beyond(E(k).bpf) \in Nat /\ Beyond(E(k).bpf) = Beyond(G(k))
    BY <2>5 DEF Beyond, MaxOf
  <2>7. 40 - E(k).left <= 40 - E(n).left + Beyond(E(k).bpf)
    BY <2>4, <2>5, <2>6
  <2> QED BY <1>1, <2>7 DEF Size, MaxOptionSpace
<1> QED BY <1>7, <1>8

\* The segments of a transmission, and what is left of it, stay within the
\* size that it started with: the next one too, exactly as long as the
\* duplicate SACK it was computed with is still to be sent.
CutOK(t, s) ==
    /\ t.mssNow = 0 => s.kind # "data"
    /\ t.mssNow > 0 =>
         LET o == EstablishedOptions(t, t.mptcp, t.bpf)
         IN /\ t.mssNow + Size(o) <= t.mss + t.hlen - 20 + Beyond(o.bpf)
            /\ t.dsack = 1 => t.mssNow + Size(o) <= t.mss + t.hlen - 20
    /\ s.kind = "data" =>
         s.packet \in Int /\ s.packet - 40 - ExtHdr <= t.mss + t.hlen - 20 + Beyond(s.opts.bpf)

CutInv == IInv /\ CutOK(tp, seg)

\* The options depend on the fields that a transmission does not change.
LEMMA SameOptions ==
  ASSUME NEW t, NEW u, u.key = t.key, u.ts = t.ts, u.sacks = t.sacks, u.dsack = t.dsack,
         NEW m, NEW b
  PROVE  EstablishedOptions(u, m, b) = EstablishedOptions(t, m, b)
BY DEF EstablishedOptions

\* No step breaks the bound on a full segment.
LEMMA CutNext ==
  ASSUME CutInv, [HeaderNext]_vars
  PROVE  CutInv'
<1>0. TpOK(tp) /\ CutOK(tp, seg) /\ IInv
  BY DEF CutInv, IInv
<1>a. IInv'
  BY <1>0, NextIInv
<1> SUFFICES CutOK(tp', seg')
  BY <1>a DEF CutInv
<1>b. \A t, s : t.mssNow = 0 /\ s.kind # "data" => CutOK(t, s)
  BY DEF CutOK
<1>c. NoHeader.kind # "data"
  BY DEF NoHeader
<1>d. tp.mssNow = 0 => seg.kind # "data"
  BY <1>0 DEF CutOK
<1>1. ASSUME NEW key \in Keys, NEW mtu \in Mtus, NEW ts \in BOOLEAN, NEW recent \in BOOLEAN,
             NEW probing \in BOOLEAN, NEW ws \in BOOLEAN, NEW signed \in BOOLEAN, NEW space \in Spaces,
             NEW clamp \in Clamps, NEW init \in InitRwnds, NEW user \in {0, MinMss},
             Connect(key, mtu, user, ts, recent, probing, space, clamp, ws, signed, init)
      PROVE  CutOK(tp', seg')
  <2>1. tp.phase = "closed"
    BY <1>1 DEF Connect
  <2>2. tp.mssNow = 0
    BY <1>0, <2>1 DEF TpOK
  <2>3. tp'.mssNow = 0 /\ seg' = seg
    BY <1>1, ConnectStep
  <2> QED BY <1>b, <1>d, <2>2, <2>3
<1>2. ASSUME NEW w \in Wants, SendSyn(w)
      PROVE  CutOK(tp', seg')
  <2>1. tp.phase = "synSent"
    BY <1>2 DEF SendSyn
  <2>2. tp.mssNow = 0
    BY <1>0, <2>1 DEF TpOK
  <2>3. tp' = tp /\ seg'.kind # "data"
    BY <1>0, <1>2, SendSynStep
  <2> QED BY <1>b, <2>2, <2>3
<1>3. ASSUME NEW ts \in BOOLEAN, NEW mss \in PeerMss, NEW win \in Windows,
             RecvSynAck(ts, mss, win)
      PROVE  CutOK(tp', seg')
  BY <1>0, <1>3, <1>b, <1>c, RecvSynAckStep
<1>4. ASSUME NEW key \in Keys, NEW w \in Wants, MakeSynack(key, w)
      PROVE  CutOK(tp', seg')
  BY <1>0, <1>4, <1>b, MakeSynackStep
<1>5. ASSUME NEW mtu \in Mtus, NEW mss \in PeerMss, NEW win \in Windows,
             NEW probing \in BOOLEAN, CreateChild(mtu, mss, win, probing)
      PROVE  CutOK(tp', seg')
  BY <1>0, <1>5, <1>b, <1>c, CreateChildStep
<1>6. ASSUME NEW m \in MptcpSizes \cup {0}, NEW b \in BpfSizes \cup {0}, StartXmit(m, b)
      PROVE  CutOK(tp', seg')
  <2> DEFINE e == EstablishedOptions(tp, m, b)
  <2>1. /\ TpOK(tp') /\ seg' = seg
        /\ tp'.mssNow > 0 /\ tp'.mptcp = m /\ tp'.bpf = b
        /\ tp'.key = tp.key /\ tp'.ts = tp.ts /\ tp'.sacks = tp.sacks /\ tp'.dsack = tp.dsack
        /\ tp'.mssNow = tp'.mss + tp'.hlen - 20 - Size(e)
    BY <1>0, <1>6, StartXmitStep
  <2>2. EstablishedOptions(tp', m, b) = e
    BY <2>1, SameOptions
  <2>3. tp.mssNow = 0
    BY <1>6 DEF StartXmit
  <2>4. b \in Nat
    BY HeaderAssumption
  <2>5. tp.phase = "established" /\ tp \in Tps /\ MssOK(tp) /\ m \in Words
    BY <1>0, <1>6, MptcpWords DEF StartXmit, TpOK
  <2>6. Size(e) \in Int /\ Beyond(e.bpf) \in Nat
    <3>1. Size(e) \in Int
      BY <2>4, <2>5, CurrentMssFloor
    <3>2. tp.key \in Keys /\ tp.sacks \in 0 .. 4 /\ tp.dsack \in 0 .. 1 /\ m \in Nat /\ m % 4 = 0
      BY <2>5 DEF Tps, Sacks, Dsacks, Words
    <3>3. Exact(e)
      BY <2>4, <3>2, EstablishedExact
    <3> HIDE DEF e
    <3>4. e.bpf \in Nat
      BY <3>3 DEF Exact, Opts
    <3> QED BY <3>1, <3>4 DEF Beyond, MaxOf
  <2>7. tp'.mss \in Int /\ tp'.hlen \in Int /\ tp'.mssNow \in Int
    BY <2>1 DEF TpOK, Tps, Hlens
  <2> HIDE DEF e
  <2>8. /\ tp'.mssNow + Size(e) <= tp'.mss + tp'.hlen - 20
        /\ tp'.mssNow + Size(e) <= tp'.mss + tp'.hlen - 20 + Beyond(e.bpf)
    BY <2>1, <2>6, <2>7
  <2>9. tp'.mssNow # 0 /\ seg'.kind # "data"
    BY <1>d, <2>1, <2>3, <2>7
  <2> QED BY <2>1, <2>2, <2>8, <2>9 DEF CutOK
<1>7. CASE SendSegment
  <2> DEFINE e == EstablishedOptions(tp, tp.mptcp, tp.bpf)
             f == EstablishedOptions(tp', tp.mptcp, tp.bpf)
  <2>1. /\ TpOK(tp') /\ e.left \in 0 .. 40 /\ Exact(e) /\ seg'.opts = e
        /\ seg'.kind = "data" /\ seg'.packet = 40 + ExtHdr + Size(e) + tp.mssNow
        /\ tp'.dsack = IF e.sacks > 0 THEN 0 ELSE tp.dsack
        /\ tp'.mssNow = tp.mssNow /\ tp'.mss = tp.mss /\ tp'.hlen = tp.hlen
        /\ tp'.mptcp = tp.mptcp /\ tp'.bpf = tp.bpf /\ tp'.key = tp.key /\ tp'.ts = tp.ts
        /\ tp'.sacks = tp.sacks
    BY <1>0, <1>7, SendSegmentStep
  <2>2. tp.mssNow > 0
    BY <1>7 DEF SendSegment
  <2>3. /\ tp.mssNow + Size(e) <= tp.mss + tp.hlen - 20 + Beyond(e.bpf)
        /\ tp.dsack = 1 => tp.mssNow + Size(e) <= tp.mss + tp.hlen - 20
    BY <1>0, <2>2 DEF CutOK
  <2>4. /\ tp.key \in Keys /\ tp.sacks \in 0 .. 4 /\ tp.dsack \in 0 .. 1 /\ tp.mptcp \in Words
        /\ tp.mss \in Int /\ tp.hlen \in Int /\ tp.mssNow \in Int /\ tp.bpf \in Nat
    BY <1>0 DEF TpOK, Tps, Sacks, Dsacks, Hlens
  <2>5. Size(f) <= Size(e) + Beyond(f.bpf)
    BY <2>1, <2>4, DsackShrinks
  <2>6. Size(e) \in Int /\ Beyond(e.bpf) \in Nat
    <3>1. Size(e) \in Int
      BY <2>1 DEF Size, MaxOptionSpace
    <3> HIDE DEF e
    <3>2. e.bpf \in Nat
      BY <2>1 DEF Exact, Opts
    <3> QED BY <3>1, <3>2 DEF Beyond, MaxOf
  <2>7. Size(f) \in Int /\ Beyond(f.bpf) \in Nat
    <3>1. tp'.key \in Keys /\ tp'.sacks \in 0 .. 4 /\ tp'.dsack \in 0 .. 1
      BY <2>1 DEF TpOK, Tps, Sacks, Dsacks
    <3>2. tp.mptcp \in Nat /\ tp.mptcp % 4 = 0 /\ tp.bpf \in Nat
      BY <2>4 DEF Words
    <3>3. f.left \in 0 .. 40 /\ Exact(f)
      BY <3>1, <3>2, EstablishedExact
    <3>4. Size(f) \in Int
      BY <3>3 DEF Size, MaxOptionSpace
    <3> HIDE DEF f
    <3>5. f.bpf \in Nat
      BY <3>3 DEF Exact, Opts
    <3> QED BY <3>4, <3>5 DEF Beyond, MaxOf
  <2>8. /\ tp.mssNow + Size(f) <= tp.mss + tp.hlen - 20 + Beyond(f.bpf)
        /\ tp'.dsack = 1 => tp.mssNow + Size(f) <= tp.mss + tp.hlen - 20
    <3>1. CASE tp'.dsack = tp.dsack
      <4>1. f = e
        BY <2>1, <3>1, SameOptions
      <4> HIDE DEF e, f
      <4> QED BY <2>3, <3>1, <4>1
    <3>2. CASE tp'.dsack # tp.dsack
      <4>1. tp'.dsack = 0 /\ tp.dsack = 1
        BY <2>1, <2>4, <3>2
      <4> HIDE DEF e, f
      <4> QED BY <2>3, <2>4, <2>5, <2>6, <2>7, <4>1
    <3> QED BY <3>1, <3>2
  <2> HIDE DEF e, f
  <2>9. seg'.packet \in Int /\ seg'.packet - 40 - ExtHdr <= tp.mss + tp.hlen - 20 + Beyond(seg'.opts.bpf)
    <3>1. Beyond(seg'.opts.bpf) = Beyond(e.bpf)
      BY <2>1
    <3> QED BY <2>1, <2>3, <2>4, <2>6, <3>1, Numbers
  <2>10. tp.mssNow # 0
    BY <2>2, <2>4
  <2> QED BY <2>1, <2>8, <2>9, <2>10 DEF CutOK, f
<1>8. CASE EndXmit
  BY <1>0, <1>8, <1>b, <1>c, EndXmitStep
<1>9. CASE Quiet
  BY <1>0, <1>9, <1>b, <1>d, QuietStep
<1>10. CASE UNCHANGED vars
  BY <1>0, <1>10 DEF vars
<1> QED BY <1>1, <1>2, <1>3, <1>4, <1>5, <1>6, <1>7, <1>8, <1>9, <1>10 DEF HeaderNext, Quiet

\* A full segment fits its path and the peer's MSS until the transmission that
\* cut it ends, whatever BPF programs ask for.  The segment after a duplicate
\* SACK can be too long by what a BPF option takes beyond the 8 bytes of the
\* block that is gone, and by no more: the block that it no longer carries lets
\* an option in that the size did not account for.
THEOREM FullSegmentFits == HeaderSpec => []SegmentFits
<1>1. HeaderInit => CutInv
  <2> SUFFICES ASSUME HeaderInit PROVE CutInv
    OBVIOUS
  <2>1. tp.mssNow = 0 /\ seg.kind = "none"
    BY DEF HeaderInit, Closed, NoHeader
  <2> QED BY <2>1, InitIInv DEF CutInv, CutOK
<1>2. CutInv /\ [HeaderNext]_vars => CutInv'
  BY CutNext
<1>3. CutInv => SegmentFits
  <2> SUFFICES ASSUME CutInv, seg.kind = "data", tp.mssNow > 0
               PROVE  /\ seg.packet <= MaxOf(tp.mtu, NetHdr + ExtHdr + TcpHdr + MinSndMss)
                                          + MaxOf(seg.opts.bpf - 8, 0)
                      /\ seg.packet - NetHdr - ExtHdr - TcpHdr
                           <= MaxOf(tp.clamp - ExtHdr, MinSndMss) + MaxOf(seg.opts.bpf - 8, 0)
    BY DEF SegmentFits
  <2> DEFINE late == MaxOf(seg.opts.bpf - 8, 0)
  <2>1. /\ tp \in Tps /\ tp.phase = "established" /\ MssOK(tp) /\ tp.pmtu = tp.mtu
    <3>1. TpOK(tp) /\ tp.mssNow # 0
      BY DEF CutInv, IInv
    <3> QED BY <3>1 DEF TpOK
  <2>2. seg.packet \in Int /\ seg.packet - 40 - ExtHdr <= tp.mss + tp.hlen - 20 + late
    BY DEF CutInv, CutOK, Beyond
  <2>2a. late \in Nat
    <3>1. seg.opts.bpf \in Nat
      BY DEF CutInv, IInv, SegOK, Exact, Opts
    <3> QED BY <3>1 DEF MaxOf
  <2>3. tp.mss \in Int /\ tp.hlen \in Int /\ tp.mtu \in Nat /\ tp.clamp \in Nat
    BY <2>1 DEF Tps, Hlens
  <2>4. tp.mss <= MaxOf(MinOf(tp.mtu - 20 - 20, tp.clamp) - ExtHdr, MinSndMss) - (tp.hlen - 20)
    BY <2>1 DEF MssOK, MtuToMss, NetHdr, TcpHdr
  <2> HIDE DEF late
  <2>5. seg.packet <= MaxOf(tp.mtu, NetHdr + ExtHdr + TcpHdr + MinSndMss) + late
    BY <2>2, <2>2a, <2>3, <2>4, Numbers DEF MaxOf, MinOf, NetHdr, TcpHdr
  <2>6. seg.packet - NetHdr - ExtHdr - TcpHdr <= MaxOf(tp.clamp - ExtHdr, MinSndMss) + late
    BY <2>2, <2>2a, <2>3, <2>4, Numbers DEF MaxOf, MinOf, NetHdr, TcpHdr
  <2> QED BY <2>5, <2>6 DEF late
<1> QED BY <1>1, <1>2, <1>3, PTL DEF HeaderSpec
=============================================================================
