------------------------------ MODULE TcpWindow ------------------------------
(***************************************************************************)
(* tcp_select_window and __tcp_select_window (redhat_kernel/tcp_output.c): *)
(* how the window of ordinary TCP, the dynamic controller and the older    *)
(* fixed controller combine into the window a socket advertises.           *)
(*                                                                         *)
(* The module composes with RedhatController: a segment that is sent calls *)
(* the controller exactly when the code does, with the window ordinary TCP *)
(* computes from the receive buffer.  rcv_wup is kept as a byte count, as  *)
(* bytes is, so that right edges can be compared.                          *)
(***************************************************************************)
EXTENDS RedhatController

CONSTANTS
    Buffer,         \* tcp_full_space(sk)
    WindowClamp,    \* tp->window_clamp
    InitialWindow,  \* the window offered in the handshake
    SsThreshes,     \* values of tp->rcv_ssthresh
    ReadSizes,      \* bytes the application may read at once
    MaxScaled       \* 65535, the largest value of the 16-bit window field
                    \* (32767 unscaled under tcp_workaround_signed_windows)

ASSUME BufferAssumption ==
    /\ {Buffer, WindowClamp, InitialWindow, MaxScaled} \subseteq Nat \ {0}
    /\ SsThreshes \subseteq Nat /\ ReadSizes \subseteq Nat \ {0}
\* 2^32 is a multiple of 1 << rcv_wscale; tcp_initialize_rcv_mss has run before
\* the first segment of an established connection is sent
ASSUME ScaleAssumption == U32Range % ScaleUnit = 0 /\ 0 \notin RcvMsses

VARIABLES
    rcv_wnd,        \* tp->rcv_wnd: the window last advertised
    rcv_wup,        \* tp->rcv_wup: bytes received when it was advertised
    unread,         \* bytes in the receive queue
    nomem,          \* ICSK_ACK_NOMEM is pending
    sent            \* the last segment sent: who chose its window (by), the
                    \* window of ordinary TCP, the field on the wire, and the
                    \* right edge offered before it

socket == <<rcv_wnd, rcv_wup, unread, nomem, sent>>
twvars == <<vars, socket>>

RoundDown(x, u) == (x \div u) * u
Scaling == ScaleUnit > 1        \* rcv_wscale # 0

\* The offered right edge, in bytes from the start of the stream
RightEdge == rcv_wup + rcv_wnd

\* tcp_receive_window: what is left of the offer
CurWin == MaxOf(rcv_wup + rcv_wnd - bytes, 0)

-----------------------------------------------------------------------------
(* __tcp_select_window                                                     *)

FullSpace == MinOf(WindowClamp, Buffer)
FreeSpace == Buffer - unread

\* The rounding that keeps an offer within one mss of the free space
MssWindow(free, mss) ==
    IF rcv_wnd <= free - mss \/ rcv_wnd > free THEN RoundDown(free, mss)
    ELSE IF mss = FullSpace /\ free > rcv_wnd + (FullSpace \div 2) THEN free
    ELSE rcv_wnd

NoShrinkWindow(mss, ssthresh) ==
    LET tight == FreeSpace < FullSpace \div 2
        free  == IF tight THEN RoundDown(FreeSpace, ScaleUnit) ELSE FreeSpace
        used  == MinOf(free, ssthresh)
    IN  IF tight /\ (free < Buffer \div 16 \/ free < mss) THEN 0
        ELSE IF Scaling THEN AlignUp(used) ELSE MssWindow(used, mss)

ShrinkableWindow(mss, ssthresh) ==
    LET free == RoundDown(FreeSpace, ScaleUnit)
    IN  IF free < FullSpace \div 2
           /\ (free < Buffer \div 16 \/ free < mss \/ free < ScaleUnit) THEN 0
        ELSE IF free > ssthresh THEN AlignUp(ssthresh) ELSE free

ShrinkAllowed == sysctl.shrink_window # 0 /\ Scaling

StockWindow(rcv_mss, ssthresh) ==
    LET mss == MinOf(rcv_mss, FullSpace)
    IN  IF ShrinkAllowed THEN ShrinkableWindow(mss, ssthresh)
        ELSE NoShrinkWindow(mss, ssthresh)

-----------------------------------------------------------------------------
(* The fixed controller, used while dynamic_enable is 0.                   *)

FixedMin(rcv_mss) ==
    LET mss == OrElse(rcv_mss, OrElse(AdvMss, DefaultMss))
    IN  U32(OrElse(sysctl.rwnd_min_segs, 1) * mss)

\* tcp_leo_rwnd_phase_ms; the clock is read in milliseconds
FixedPhase ==
    LET period == sysctl.rwnd_period_ms
        rem    == (real \div UsecPerMsec) % period
        offset == sysctl.rwnd_offset_ms % period
    IN  IF rem >= offset THEN rem - offset ELSE rem + period - offset

FixedTarget(normal, rcv_mss) ==
    LET period    == sysctl.rwnd_period_ms
        pre       == MinOf(sysctl.rwnd_pre_ms, period - 1)
        outage    == sysctl.rwnd_outage_ms
        recovery  == sysctl.rwnd_recovery_ms
        min_win   == FixedMin(rcv_mss)
        pre_start == period - pre
        delta     == normal - min_win
    IN  IF sysctl.rwnd_enable = 0 \/ period = 0 \/ normal <= min_win THEN normal
        ELSE IF pre # 0 /\ FixedPhase >= pre_start
        THEN normal - (delta * (FixedPhase - pre_start)) \div pre
        ELSE IF FixedPhase < outage THEN min_win
        ELSE IF recovery # 0 /\ FixedPhase < U32(outage + recovery)
                /\ sysctl.rwnd_fast_recovery = 0
        THEN min_win + (delta * (FixedPhase - outage)) \div recovery
        ELSE normal

FixedClamp(normal, rcv_mss) ==
    LET target  == FixedTarget(normal, rcv_mss)
        drained == bytes - rcv_wup
        safe    == IF drained >= CurWin - target THEN target ELSE CurWin - drained
    IN  IF target >= normal THEN normal
        ELSE IF target < CurWin THEN MinOf(normal, safe)
        ELSE MinOf(normal, target)

-----------------------------------------------------------------------------
(* tcp_select_window                                                       *)

LeoDynamicOn == sysctl.rwnd_enable # 0 /\ sysctl.dynamic_enable # 0

\* Slip: the last offer is rounded down to the scaling unit
KeepOfferRoundedDown(new) ==
    IF new < CurWin /\ ~LeoDynamicOn /\ ~ShrinkAllowed
    THEN RoundDown(CurWin, ScaleUnit) ELSE new

\* The window is never moved left of the last offer unless shrinking is
\* allowed or the dynamic controller is switched on
KeepOffer(new) ==
    IF new < CurWin /\ ~LeoDynamicOn /\ ~ShrinkAllowed THEN AlignUp(CurWin) ELSE new

WireField(new) == MinOf(new, MaxScaled * ScaleUnit) \div ScaleUnit

Offer(by, normal, new) ==
    /\ rcv_wnd' = new /\ rcv_wup' = bytes
    /\ sent' = [by |-> by, normal |-> normal, wire |-> WireField(new),
                before |-> RightEdge]

\* Out of memory: the window is closed and no controller is asked.  Sending
\* the acknowledgement clears icsk_ack.pending (tcp_event_ack_sent).
SendZeroWindow ==
    /\ nomem
    /\ nomem' = FALSE
    /\ Offer("nomem", 0, 0)
    /\ UNCHANGED <<vars, unread>>

SendControlled(rtt, mss, ssthresh) ==
    LET normal == StockWindow(mss, ssthresh)
    IN  /\ ~nomem /\ LeoDynamicOn
        /\ Control(normal, rtt, mss) \/ PassThrough(normal)
        /\ Offer("dynamic", normal, KeepOffer(call'.target))
        /\ UNCHANGED <<unread, nomem>>

SendFixed(mss, ssthresh) ==
    LET normal == StockWindow(mss, ssthresh)
    IN  /\ ~nomem /\ sysctl.rwnd_enable # 0 /\ sysctl.dynamic_enable = 0
        /\ Offer("fixed", normal, KeepOffer(FixedClamp(normal, mss)))
        /\ UNCHANGED <<vars, unread, nomem>>

SendOrdinary(mss, ssthresh) ==
    LET normal == StockWindow(mss, ssthresh)
    IN  /\ ~nomem /\ sysctl.rwnd_enable = 0
        /\ Offer("ordinary", normal, KeepOffer(normal))
        /\ UNCHANGED <<vars, unread, nomem>>

-----------------------------------------------------------------------------
(* The peer, the application and the clock.                                *)

TWInit ==
    /\ Init
    /\ rcv_wnd = InitialWindow /\ rcv_wup = 0
    /\ unread = 0 /\ nomem = FALSE
    /\ sent = [by |-> "handshake", normal |-> InitialWindow,
               wire |-> WireField(InitialWindow), before |-> 0]

\* Data within the offered window is queued if the buffer has room ...
Arrive(n) ==
    /\ n <= CurWin /\ unread + n <= Buffer
    /\ Receive(n)
    /\ unread' = unread + n
    /\ UNCHANGED <<rcv_wnd, rcv_wup, nomem, sent>>

\* ... and is dropped, and the drop reported to the peer, if it has not
Drop(n) ==
    /\ n <= CurWin /\ unread + n > Buffer
    /\ nomem' = TRUE
    /\ UNCHANGED <<vars, rcv_wnd, rcv_wup, unread, sent>>

Read(k) ==
    /\ k <= unread
    /\ unread' = unread - k
    /\ UNCHANGED <<vars, rcv_wnd, rcv_wup, nomem, sent>>

TWNext ==
    \/ (\E d \in TickSizes : Tick(d)) /\ UNCHANGED socket
    \/ (\E w \in SysctlWrites : WriteSysctl(w[1], w[2])) /\ UNCHANGED socket
    \/ \E n \in SegmentSizes : Arrive(n) \/ Drop(n)
    \/ \E k \in ReadSizes : Read(k)
    \/ SendZeroWindow
    \/ \E mss \in RcvMsses, ssthresh \in SsThreshes :
          \/ \E rtt \in RcvRtts : SendControlled(rtt, mss, ssthresh)
          \/ SendFixed(mss, ssthresh)
          \/ SendOrdinary(mss, ssthresh)

TWSpec == TWInit /\ [][TWNext]_twvars

-----------------------------------------------------------------------------
(* Properties.                                                             *)

Senders == {"handshake", "nomem", "dynamic", "fixed", "ordinary"}

\* The types of the socket's window state: no window, and no byte count of
\* the receive queue, is ever negative.
SocketTypeOK ==
    /\ TypeOK
    /\ rcv_wnd \in Nat /\ rcv_wup \in 0..bytes /\ unread \in 0..Buffer
    /\ nomem \in BOOLEAN
    /\ sent \in [by : Senders, normal : Nat, wire : 0..MaxScaled, before : Nat]

\* tcp_select_window, "Never shrink the offered window": while shrinking is
\* not allowed, neither ordinary TCP nor the fixed controller ever takes back
\* a right edge that was offered; only running out of memory does.
OfferKept ==
    [][ sent'.by \in {"fixed", "ordinary"} /\ ~ShrinkAllowed
            => RightEdge' >= RightEdge ]_twvars

\* The comment of tcp_leo_rwnd_clamp: "Do not reduce advertised rwnd faster
\* than bytes newly received since the previous receive-window update point",
\* beyond what ordinary TCP itself would take back.
ReducedByReceived ==
    sent.by = "fixed" => RightEdge >= MinOf(sent.before, rcv_wup + sent.normal)

\* The comment of __tcp_select_window: "Only allow window shrink if the sysctl
\* is enabled and we have a non-zero scaling factor in effect", for a socket
\* that the controller leaves alone.
ShrinkOnlyIfEnabled ==
    sent.by = "dynamic" /\ ~call.ran /\ ~ShrinkAllowed => RightEdge >= sent.before

\* leo_min_rwnd aligns the floor to the scaling unit, so that what is left of
\* a controlled window after scaling is still the floor: while the controller
\* lowers or ramps the window, the peer never sees less than the floor if
\* ordinary TCP offers that much, and so never a zero window.  FloorKept says
\* the same of the target before it is scaled.
WireFloor ==
    /\ SocketTypeOK
    /\ FloorKept
    /\ sent.by = "dynamic" /\ call.ran /\ st.current_phase # NORMAL
       /\ sent.normal >= st.frozen_min_rwnd
        => sent.wire * ScaleUnit >= MinOf(st.frozen_min_rwnd, MaxScaled * ScaleUnit)
=============================================================================
