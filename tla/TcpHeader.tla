------------------------------ MODULE TcpHeader ------------------------------
(***************************************************************************)
(* The room in a TCP header and in a packet: which options a SYN, a        *)
(* SYN-ACK or any other segment carries, how many bytes were reserved for  *)
(* them and how many are written, the segment size left by the path MTU,   *)
(* and the receive window that a connection starts with.                   *)
(*                                                                         *)
(* Sizes are the real ones, in bytes.  An option is its name; what another *)
(* subsystem asks for (SMC, MPTCP, a BPF program) is only a size.          *)
(***************************************************************************)
EXTENDS Integers, FiniteSets

CONSTANTS
    Macs,        \* Lengths of the TCP-AO authentication codes in use
    Cookies,     \* Lengths of Fast Open cookies, with the base of the option
    MptcpSizes,  \* Bytes that MPTCP asks for
    BpfSizes,    \* Bytes that a BPF program asks for
    Mtus,        \* MTUs that the path may have
    PeerMss,     \* MSS options of the peer
    Windows,     \* Largest windows the peer has offered
    SackCounts,  \* Numbers of SACK blocks there are to send
    ExtHdr,      \* icsk_ext_hdr_len: bytes of IP options
    MinSndMss, BaseMss, ProbeFloor,      \* sysctls
    Spaces, Clamps, MaxRmem, InitRwnds   \* of the receive buffer

TcpHdr == 20
NetHdr == 20
MaxOptionSpace == 40
MinMss == 88
U16Max == 65535
MaxWscale == 14

Align4(n) == ((n + 3) \div 4) * 4

\* tcp_ao refuses a longer code, MIN_SND_MSS is the sysctl's lower bound, and
\* an MPTCP option is a multiple of 4 bytes.
ASSUME HeaderAssumption ==
    /\ Macs \subseteq 1 .. 16
    /\ Cookies \subseteq Nat /\ BpfSizes \subseteq Nat
    /\ \A n \in MptcpSizes : n \in Nat /\ n % 4 = 0
    /\ Mtus \subseteq Nat /\ PeerMss \subseteq Nat \ {0} /\ Windows \subseteq Nat
    /\ SackCounts \subseteq 0 .. 4
    /\ {ExtHdr, BaseMss, ProbeFloor, MaxRmem} \subseteq Nat
    /\ MinSndMss \in Nat /\ MinSndMss >= 48
    /\ Spaces \subseteq Int /\ Clamps \subseteq Nat /\ InitRwnds \subseteq Nat

VARIABLES
    tp,    \* The connection: what struct tcp_sock keeps of all this
    seg,   \* The header under way: its options, the room, the bytes written
    wnd    \* The receive window while connecting (then it is TcpWindow's)

vars == <<tp, seg, wnd>>

NoKey == [type |-> "none", mac |-> 0]
Keys == {NoKey, [type |-> "md5", mac |-> 16]} \cup [type : {"ao"}, mac : Macs]

MinOf(a, b) == IF a < b THEN a ELSE b
MaxOf(a, b) == IF a > b THEN a ELSE b

-----------------------------------------------------------------------------
(* Reserving room *)

Room == [set |-> {}, key |-> NoKey, sacks |-> 0, cookie |-> 0, mptcp |-> 0, bpf |-> 0,
         left |-> MaxOptionSpace]

\* An option that is always there, whatever room it leaves
Must(o, option, need) == [o EXCEPT !.set = @ \cup {option}, !.left = @ - need]

\* An option that goes in when there is room for it
May(o, option, need) == IF o.left >= need THEN Must(o, option, need) ELSE o

KeyRoom(o, key) ==
    IF key.type = "none" THEN o
    ELSE [Must(o, key.type, IF key.type = "md5" THEN 20 ELSE Align4(key.mac + 4))
            EXCEPT !.key = key]

\* bpf_skops_hdr_opt_len: the program may take what is left
BpfRoom(o, size) ==
    IF size = 0 \/ size > o.left THEN o
    ELSE [o EXCEPT !.bpf = Align4(size), !.left = @ - Align4(size)]

MptcpRoom(o, size) ==
    IF size = 0 \/ o.left < size THEN o
    ELSE [Must(o, "mptcp", size) EXCEPT !.mptcp = size]

\* Slip: the room is not checked
CookieRoomSlip(o, cookie) ==
    IF cookie = 0 THEN o
    ELSE [Must(o, "cookie", Align4(cookie)) EXCEPT !.cookie = cookie]

CookieRoom(o, cookie) ==
    IF cookie = 0 \/ o.left < Align4(cookie) THEN o
    ELSE [Must(o, "cookie", Align4(cookie)) EXCEPT !.cookie = cookie]

SmcRoom(o, smc) == IF smc THEN May(o, "smc", 8) ELSE o

\* SACK-permitted shares the word of the timestamps when both are there
SackPermRoom(o) == Must(o, "sackPerm", IF "ts" \in o.set THEN 0 ELSE 4)

When(b, yes, no) == IF b THEN yes ELSE no

\* tcp_syn_options; w is what the sysctls, the socket and others want
SynOptions(key, w) ==
    LET o1 == Must(KeyRoom(Room, key), "mss", 4)
        o2 == When(w.ts /\ key.type # "md5", Must(o1, "ts", 12), o1)
        o3 == When(w.ws, Must(o2, "ws", 4), o2)
        o4 == When(w.sack, SackPermRoom(o3), o3)
        o5 == SmcRoom(CookieRoom(o4, w.cookie), w.smc)
    IN BpfRoom(MptcpRoom(o5, w.mptcp), w.bpf)

\* A signed SYN-ACK has no room for SACK blocks and timestamps in what follows
SynackTs(key, w) == w.ts /\ (w.sack => key.type = "none" \/ (key.type = "md5" /\ w.syncookie))

\* tcp_synack_options
SynackOptions(key, w) ==
    LET o1 == Must(KeyRoom(Room, key), "mss", 4)
        o2 == When(w.ws, Must(o1, "ws", 4), o1)
        o3 == When(SynackTs(key, w), Must(o2, "ts", 12), o2)
        o4 == When(w.sack, SackPermRoom(o3), o3)
        o5 == MptcpRoom(CookieRoom(o4, w.cookie), w.mptcp)
    IN BpfRoom(SmcRoom(o5, w.smc), w.bpf)

\* tcp_established_options, which gives up when no SACK block fits
SackRoom(o, n) ==
    LET fit == MinOf(n, (o.left - 4) \div 8)
    IN [Must(o, "sack", 4 + 8 * fit) EXCEPT !.sacks = fit]

EstablishedOptions(t, mptcp, bpf) ==
    LET o1 == KeyRoom(Room, t.key)
        o2 == When(t.ts, Must(o1, "ts", 12), o1)
        o3 == MptcpRoom(o2, mptcp)
        n  == t.sacks + t.dsack
    IN IF n = 0 THEN BpfRoom(o3, bpf)
       ELSE IF o3.left < 4 + 8 THEN o3
       ELSE BpfRoom(SackRoom(o3, n), bpf)

\* tcp_options_write and what it calls: the bytes that each option takes
AoBytes(mac) == 4 + 4 * (mac \div 4) + (IF mac % 4 = 0 THEN 0 ELSE 4)

Bytes(o, option) ==
    CASE option = "md5" -> 4 + 16
      [] option = "ao" -> AoBytes(o.key.mac)
      [] option = "mss" -> 4
      [] option = "ts" -> 4 + 8
      [] option = "sackPerm" -> IF "ts" \in o.set THEN 0 ELSE 4
      [] option = "ws" -> 4
      [] option = "sack" -> 4 + 8 * o.sacks
      [] option = "cookie" -> 4 * ((o.cookie + 3) \div 4)
      [] option = "smc" -> 8
      [] option = "mptcp" -> o.mptcp

Names == {"md5", "ao", "mss", "ts", "sackPerm", "ws", "sack", "cookie", "smc", "mptcp"}

BytesIf(o, option) == IF option \in o.set THEN Bytes(o, option) ELSE 0

OptionsWrite(o) ==
    BytesIf(o, "md5") + BytesIf(o, "ao") + BytesIf(o, "mss") + BytesIf(o, "ts")
    + BytesIf(o, "sackPerm") + BytesIf(o, "ws") + BytesIf(o, "sack")
    + BytesIf(o, "cookie") + BytesIf(o, "smc") + BytesIf(o, "mptcp") + o.bpf

Size(o) == MaxOptionSpace - o.left

NoHeader ==
    [kind |-> "none", opts |-> Room, reserved |-> 0, written |-> 0, packet |-> 0]
NoWindow == [rcv |-> 0, scale |-> 0, clamp |-> 0]

\* A header with options o in front of len bytes of data
Header(kind, o, len) ==
    [kind |-> kind, opts |-> o, reserved |-> Size(o), written |-> OptionsWrite(o),
     packet |-> NetHdr + ExtHdr + TcpHdr + Size(o) + len]

-----------------------------------------------------------------------------
(* Segment sizes *)

\* Slip: no lower bound
MtuToMssSlip(t, pmtu) ==
    MinOf(pmtu - NetHdr - TcpHdr, t.clamp) - ExtHdr - (t.hlen - TcpHdr)

\* __tcp_mtu_to_mss and tcp_mtu_to_mss
MtuToMss(t, pmtu) ==
    MaxOf(MinOf(pmtu - NetHdr - TcpHdr, t.clamp) - ExtHdr, MinSndMss) - (t.hlen - TcpHdr)

MssToMtu(t, mss) == mss + t.hlen + ExtHdr + NetHdr

\* tcp_bound_to_half_wnd
BoundToHalfWnd(t, mss) ==
    LET cutoff == IF t.maxWnd > 536 THEN t.maxWnd \div 2 ELSE t.maxWnd
    IN IF cutoff > 0 /\ mss > cutoff THEN MaxOf(cutoff, 68 - t.hlen) ELSE mss

\* tcp_mtup_init
MtupInit(t, enabled) ==
    [t EXCEPT !.probing = enabled, !.high = t.clamp + TcpHdr + NetHdr,
              !.low = MssToMtu(t, BaseMss)]

\* tcp_sync_mss
SyncMss(t, pmtu) ==
    LET mss == BoundToHalfWnd(t, MtuToMss(t, pmtu))
    IN [t EXCEPT !.high = MinOf(@, pmtu), !.pmtu = pmtu,
                 !.mss = IF t.probing THEN MinOf(mss, MtuToMss(t, t.low)) ELSE mss]

\* Slip: a changed path is not noticed
CurrentTpSlip(t) == t

\* tcp_current_mss: the connection after it, and its value
CurrentTp(t) == IF t.mtu = t.pmtu THEN t ELSE SyncMss(t, t.mtu)

CurrentMss(t, mptcp, bpf) ==
    CurrentTp(t).mss - (Size(EstablishedOptions(t, mptcp, bpf)) + TcpHdr - t.hlen)

-----------------------------------------------------------------------------
(* The first window *)

Wscale(space) ==
    LET ks == {k \in 1 .. MaxWscale : 2 ^ (k + 15) <= space}
    IN Cardinality(ks)

\* What the field can express with the scale
AdvertisableClamp(most, scale) == MinOf(U16Max * 2 ^ scale, most)

\* tcp_select_initial_window
SelectInitialWindow(space, mss, clamp, wscaleOk, signed, init) ==
    LET most   == IF clamp = 0 THEN U16Max * 2 ^ MaxWscale ELSE clamp
        avail  == MinOf(most, MaxOf(space, 0))
        whole  == IF avail > mss THEN avail - (avail % mss) ELSE avail
        offer  == MinOf(whole, IF signed THEN 32767 ELSE U16Max)
        scale  == IF wscaleOk THEN Wscale(MinOf(MaxOf(whole, MaxRmem), most)) ELSE 0
    IN [rcv |-> IF init > 0 THEN MinOf(offer, init * mss) ELSE offer,
        scale |-> scale,
        clamp |-> AdvertisableClamp(most, scale)]

-----------------------------------------------------------------------------
(* Connecting *)

Wants == [ts : BOOLEAN, ws : BOOLEAN, sack : BOOLEAN, cookie : Cookies \cup {0},
          smc : BOOLEAN, mptcp : MptcpSizes \cup {0}, bpf : BpfSizes \cup {0},
          syncookie : BOOLEAN]

Closed ==
    [phase |-> "closed", key |-> NoKey, user |-> 0, ts |-> FALSE, hlen |-> TcpHdr, clamp |-> 536,
     maxWnd |-> 0, mtu |-> 1500, pmtu |-> 0, mss |-> 536, probing |-> FALSE,
     low |-> 0, high |-> 0, sacks |-> 0, dsack |-> 0, mssNow |-> 0,
     mptcp |-> 0, bpf |-> 0]

\* The lower of what the user set, if anything, and mss (tcp_mss_clamp)
MssClamp(user, mss) == IF user > 0 THEN MinOf(user, mss) ELSE mss

\* The header length that the first segment size is computed with
ConnectHlen(t, ts) ==
    TcpHdr + (IF ts THEN 12 ELSE 0)
      + (IF t.key.type = "ao" THEN Align4(t.key.mac + 4) ELSE 0)

\* tcp_connect_init
ConnectInit(t, ts, probing) ==
    LET t1 == [t EXCEPT !.hlen = ConnectHlen(t, ts), !.maxWnd = 0,
                        !.clamp = IF t.user > 0 THEN t.user ELSE @]
    IN SyncMss(MtupInit(t1, probing), t.mtu)

\* A route advertises an MSS of at least 256
AdvMss(t) == MssClamp(t.user, MaxOf(t.mtu - NetHdr - TcpHdr, 256))

\* The segment size of the first window: when the peer has sent timestamps
\* before (ts_recent_stamp), the options that are known of are left out of it
FirstMss(t, ts, recent) ==
    AdvMss(t) - (IF recent THEN ConnectHlen(t, ts) - TcpHdr ELSE 0)

Connect(key, mtu, user, ts, recent, probing, space, clamp, ws, signed, init) ==
    LET t == [Closed EXCEPT !.phase = "synSent", !.key = key, !.mtu = mtu, !.user = user]
    IN /\ tp.phase = "closed"
       /\ tp' = ConnectInit(t, ts, probing)
       /\ wnd' = SelectInitialWindow(space, FirstMss(t, ts, recent), clamp, ws, signed, init)
       /\ UNCHANGED seg

\* tcp_transmit_skb of a SYN; a retransmitted one is built in the same way
SendSyn(w) ==
    /\ tp.phase = "synSent" /\ seg.kind = "none"
    /\ seg' = Header("syn", SynOptions(tp.key, w), 0)
    /\ UNCHANGED <<tp, wnd>>

\* tcp_rcv_synsent_state_process, then tcp_init_transfer
RecvSynAck(ts, mss, win) ==
    /\ tp.phase = "synSent" /\ seg.kind = "syn"
    /\ ts => "ts" \in seg.opts.set
    /\ LET t == [tp EXCEPT !.phase = "established", !.ts = ts, !.maxWnd = win,
                           !.hlen = TcpHdr + (IF ts THEN 12 ELSE 0),
                           !.clamp = MssClamp(tp.user, mss)]
       IN tp' = MtupInit(SyncMss(t, tp.pmtu), tp.probing)
    /\ seg' = NoHeader /\ wnd' = NoWindow

\* tcp_make_synack for a request
MakeSynack(key, w) ==
    /\ tp.phase \in {"closed", "synRecv"}
    /\ tp.phase = "synRecv" => key = tp.key
    /\ tp' = [tp EXCEPT !.phase = "synRecv", !.key = key, !.ts = SynackTs(key, w)]
    /\ seg' = Header("synack", SynackOptions(key, w), 0)
    /\ UNCHANGED wnd

\* tcp_create_openreq_child and tcp_v4_syn_recv_sock, then tcp_init_transfer
CreateChild(mtu, mss, win, probing) ==
    LET t == [tp EXCEPT !.phase = "established", !.mtu = mtu, !.clamp = mss, !.maxWnd = win,
                        !.hlen = TcpHdr + (IF tp.ts THEN 12 ELSE 0)
                                 + (IF tp.key.type = "md5" THEN 20 ELSE 0)]
    IN /\ tp.phase = "synRecv"
       /\ tp' = MtupInit(SyncMss(t, mtu), probing)
       /\ seg' = NoHeader
       /\ UNCHANGED wnd

-----------------------------------------------------------------------------
(* Sending *)

\* tcp_write_xmit and the others: the segment size is computed once,
StartXmit(mptcp, bpf) ==
    /\ tp.phase = "established" /\ tp.mssNow = 0
    /\ tp' = [CurrentTp(tp) EXCEPT !.mssNow = CurrentMss(tp, mptcp, bpf),
                                   !.mptcp = mptcp, !.bpf = bpf]
    /\ UNCHANGED <<seg, wnd>>

\* then every segment has its own options; the first one that carries a
\* duplicate SACK is the last to do so
SendSegment ==
    LET o == EstablishedOptions(tp, tp.mptcp, tp.bpf)
    IN /\ tp.mssNow > 0
       /\ seg' = Header("data", o, tp.mssNow)
       /\ tp' = [tp EXCEPT !.dsack = IF o.sacks > 0 THEN 0 ELSE @]
       /\ UNCHANGED wnd

EndXmit ==
    /\ tp.mssNow > 0
    /\ tp' = [tp EXCEPT !.mssNow = 0, !.mptcp = 0, !.bpf = 0]
    /\ seg' = NoHeader
    /\ UNCHANGED wnd

\* What may change between two transmissions: holes in the receive queue,
\* the route's MTU, the peer's window, and a key that is deleted
Idle == tp.phase = "established" /\ tp.mssNow = 0

SackChange(n, d) ==
    /\ Idle
    /\ tp' = [tp EXCEPT !.sacks = n, !.dsack = d]
    /\ UNCHANGED <<seg, wnd>>

PathChange(mtu) ==
    /\ Idle
    /\ tp' = [tp EXCEPT !.mtu = mtu]
    /\ UNCHANGED <<seg, wnd>>

\* tcp_ack_update_window
WindowGrows(win) ==
    /\ Idle /\ win > tp.maxWnd
    /\ tp' = SyncMss([tp EXCEPT !.maxWnd = win], tp.pmtu)
    /\ UNCHANGED <<seg, wnd>>

DeleteKey ==
    /\ Idle /\ tp.key.type = "md5"
    /\ tp' = [tp EXCEPT !.key = NoKey]
    /\ UNCHANGED <<seg, wnd>>

\* tcp_mtu_check_reprobe: the probe interval is over
CheckReprobe(mptcp, bpf) ==
    LET t == CurrentTp(tp)
    IN /\ Idle
       /\ tp' = [t EXCEPT !.high = t.clamp + TcpHdr + NetHdr,
                          !.low = MssToMtu(t, CurrentMss(tp, mptcp, bpf))]
       /\ UNCHANGED <<seg, wnd>>

\* A probe that was acknowledged, and tcp_mtu_probing after several timeouts
ProbeSuccess(size) ==
    /\ Idle /\ tp.probing /\ size > tp.low /\ size <= tp.high
    /\ tp' = SyncMss([tp EXCEPT !.low = size], tp.pmtu)
    /\ UNCHANGED <<seg, wnd>>

BlackHole ==
    LET half == MinOf(BaseMss, MtuToMss(tp, tp.low) \div 2)
        mss  == MaxOf(MaxOf(half, ProbeFloor), MinSndMss)
    IN /\ Idle
       /\ tp' = IF tp.probing THEN SyncMss([tp EXCEPT !.low = MssToMtu(tp, mss)], tp.pmtu)
                ELSE SyncMss([tp EXCEPT !.probing = TRUE], tp.pmtu)
       /\ UNCHANGED <<seg, wnd>>

-----------------------------------------------------------------------------

HeaderInit ==
    /\ tp = Closed
    /\ seg = NoHeader
    /\ wnd = NoWindow

HeaderNext ==
    \/ \E key \in Keys, mtu \in Mtus, ts, recent, probing, ws, signed \in BOOLEAN,
          space \in Spaces, clamp \in Clamps, init \in InitRwnds, user \in {0, MinMss} :
         Connect(key, mtu, user, ts, recent, probing, space, clamp, ws, signed, init)
    \/ \E w \in Wants : ~w.syncookie /\ SendSyn(w)
    \/ \E ts \in BOOLEAN, mss \in PeerMss, win \in Windows : RecvSynAck(ts, mss, win)
    \/ \E key \in Keys, w \in Wants : MakeSynack(key, w)
    \/ \E mtu \in Mtus, mss \in PeerMss, win \in Windows, probing \in BOOLEAN :
         CreateChild(mtu, mss, win, probing)
    \/ \E mptcp \in MptcpSizes \cup {0}, bpf \in BpfSizes \cup {0} :
         StartXmit(mptcp, bpf) \/ CheckReprobe(mptcp, bpf)
    \/ SendSegment
    \/ EndXmit
    \/ \E n \in SackCounts, d \in 0 .. 1 : SackChange(n, d)
    \/ \E mtu \in Mtus : PathChange(mtu) \/ ProbeSuccess(mtu)
    \/ \E win \in Windows : WindowGrows(win)
    \/ DeleteKey
    \/ BlackHole

HeaderSpec == HeaderInit /\ [][HeaderNext]_vars

-----------------------------------------------------------------------------
(* Properties *)

\* Sizes are integers and lengths natural numbers; an option is a known one.
HeaderTypeOK ==
    /\ tp.key \in Keys
    /\ tp.hlen \in 20 .. 60 /\ tp.hlen % 4 = 0
    /\ tp.sacks \in 0 .. 4 /\ tp.dsack \in 0 .. 1
    /\ seg.opts.set \subseteq Names
    /\ {tp.clamp, tp.maxWnd, tp.mtu, tp.pmtu, tp.mssNow, wnd.rcv, wnd.clamp} \subseteq Nat

\* Whatever is combined with what, no header reserves more than the 40 bytes
\* there are, so that the unsigned count of what is left never wraps.
OptionsFit == seg.opts.left \in 0 .. MaxOptionSpace /\ seg.opts.left % 4 = 0

\* The bytes that tcp_options_write writes are those that were reserved: it
\* neither runs into the data nor leaves old memory in the header.
WrittenAsReserved == seg.written = seg.reserved

\* A segment that is sent carries at least 8 bytes of data, however small the
\* path, the peer's MSS and window are and however many options there are.
MssFloor ==
    /\ tp.phase = "established" => tp.mss + tp.hlen >= 68
    /\ tp.mssNow > 0 => tp.mssNow >= 8

\* A full segment fits the path it was cut for, and with its options the MSS
\* that the peer announced, or it is as small as tcp_min_snd_mss lets it be.
\* It is too long only where the size was cut beside a duplicate SACK and a BPF
\* option comes in that needs more than the 8 bytes of the block that is gone,
\* and then by no more than that.
SegmentFits ==
    LET late == MaxOf(seg.opts.bpf - 8, 0)
    IN seg.kind = "data" /\ tp.mssNow > 0 =>
        /\ seg.packet <= MaxOf(tp.mtu, NetHdr + ExtHdr + TcpHdr + MinSndMss) + late
        /\ seg.packet - NetHdr - ExtHdr - TcpHdr
             <= MaxOf(tp.clamp - ExtHdr, MinSndMss) + late

\* The first window fits the field of a SYN and the clamp, and the clamp can
\* be advertised with the scale that was chosen.
InitialWindow ==
    /\ wnd.rcv <= U16Max /\ wnd.rcv <= wnd.clamp
    /\ wnd.scale \in 0 .. MaxWscale /\ wnd.clamp <= U16Max * 2 ^ wnd.scale

\* What goes into a header fits its fields: the options their 40 bytes and the
\* room reserved for them, the first window its 16 bits and its scale.
HeaderFits == HeaderTypeOK /\ OptionsFit /\ WrittenAsReserved /\ InitialWindow
=============================================================================
