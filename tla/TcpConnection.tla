---------------------------- MODULE TcpConnection ----------------------------
(***************************************************************************)
(* TcpSender on a network that loses, repeats and reorders, and a peer     *)
(* whose window closes and opens.  Segments and acknowledgements in flight *)
(* are sets, so any of them may arrive next.  The peer is an ordinary TCP  *)
(* receiver: it keeps what falls into its window, and answers every        *)
(* segment with the next byte it expects and its window.  A lost, repeated *)
(* or unsent segment, a lost acknowledgement, a closed window and a timer  *)
(* that fires while something is still under way cost one of MaxTrouble    *)
(* units each.                                                             *)
(***************************************************************************)
EXTENDS TcpSender

CONSTANTS MaxTrouble, Calm

ASSUME ConnAssumption == Windows # {} /\ IsFiniteSet(Windows)

VARIABLES
    net,      \* Segments on their way to the peer
    acks,     \* Acknowledgements on their way back
    got,      \* Sequence numbers the peer has received
    rwnd,     \* The window of the peer
    trouble,  \* What may still go wrong
    fired     \* Changes whenever a timer of the sender fires

conn == <<sk, untrimmed, net, acks, got, rwnd, trouble, fired>>

RcvNxt(bytes) == CHOOSE n \in 0 .. MaxData + 2 : n \notin bytes /\ 0 .. n - 1 \subseteq bytes

Cost(n) == trouble >= n /\ trouble' = trouble - n

ConnInit ==
    /\ SenderInit
    /\ net = {} /\ acks = {} /\ got = {}
    /\ rwnd = Max(Windows)
    /\ trouble = MaxTrouble
    /\ fired = FALSE

Bad(env) == Bit(env # Calm)

\* The sender has put its segments on the network
Sent ==
    /\ net' = net \cup sk'.tx
    /\ UNCHANGED <<got, rwnd>>

Open ==
    /\ Connect(-1, TRUE)
    /\ Sent
    /\ UNCHANGED <<acks, trouble, fired>>

AppCall(env) ==
    /\ trouble >= Bad(env)
    /\ Application(env)
    /\ Sent /\ Cost(Bad(env))
    /\ UNCHANGED <<acks, fired>>

Premature == Bit(net # {} \/ acks # {})

TimerRuns(cost) == sk.pending # "none" /\ trouble >= cost

Timer(env) ==
    /\ TimerRuns(Bad(env) + Premature)
    /\ \/ \E all \in BOOLEAN : RtoFires(all, env)
       \/ LossProbeFires(env)
       \/ Probe0Fires(env)
    /\ Sent /\ Cost(Bad(env) + Premature)
    /\ fired' = ~fired
    /\ UNCHANGED acks

\* An acknowledgement below snd_una is old and ignored
TakeAck(a, env) ==
    /\ trouble >= Bad(env)
    /\ acks' = acks \ {a}
    /\ \/ a.ack < sk.una /\ UNCHANGED sk
       \/ \E cwnd \in Cwnds : \/ RecvAck(a.ack, a.wnd, cwnd, TRUE, env)
                               \/ RecvSynAck(a.ack, a.wnd, cwnd, env)
    /\ Sent /\ Cost(Bad(env))
    /\ UNCHANGED fired

Arrive(seg, again) ==
    LET new == {b \in seg.seq .. seg.end - 1 : b < RcvNxt(got) + rwnd \/ b = 0}
    IN /\ got' = got \cup new
       /\ acks' = acks \cup {[ack |-> RcvNxt(got'), wnd |-> rwnd]}
       /\ net' = IF again THEN net ELSE net \ {seg}
       /\ Cost(Bit(again))
       /\ UNCHANGED <<sk, rwnd, fired>>

Lose ==
    /\ \/ \E seg \in net : net' = net \ {seg} /\ UNCHANGED acks
       \/ \E a \in acks : acks' = acks \ {a} /\ UNCHANGED net
    /\ Cost(1)
    /\ UNCHANGED <<sk, got, rwnd, fired>>

CloseWindow ==
    /\ rwnd > 0 /\ 0 \in got
    /\ rwnd' = 0
    /\ Cost(1)
    /\ UNCHANGED <<sk, net, acks, got, fired>>

\* The application of the peer has read: a window update
OpenWindow ==
    /\ rwnd = 0
    /\ rwnd' = Max(Windows)
    /\ acks' = acks \cup {[ack |-> RcvNxt(got), wnd |-> rwnd']}
    /\ UNCHANGED <<sk, net, got, trouble, fired>>

ConnNext ==
    /\ \/ Open
       \/ \E env \in Env : AppCall(env) \/ Timer(env)
                           \/ \E a \in acks : TakeAck(a, env)
       \/ \E seg \in net, again \in BOOLEAN : Arrive(seg, again)
       \/ Lose
       \/ CloseWindow
       \/ OpenWindow
    /\ UNCHANGED untrimmed

\* An armed timer fires, the peer reads, and what the network does not lose
\* arrives.  Only Timer changes fired, and only the arrival or one of the few
\* losses of an acknowledgement takes one away.
Fairness ==
    /\ WF_fired(TimerRuns(Premature) /\ fired' = ~fired)
    /\ WF_acks(\E a \in acks : acks' = acks \ {a})
    /\ WF_net(\E seg \in net : Arrive(seg, FALSE))
    /\ WF_rwnd(OpenWindow)

ConnSpec == ConnInit /\ [][ConnNext]_conn /\ Fairness

-----------------------------------------------------------------------------
(* Properties *)

Stream == INSTANCE SendStream WITH
    accepted <- sk.wseq, delivered <- RcvNxt(got), acked <- sk.una

\* The connection implements the byte stream: what the peer has in order and
\* what is acknowledged only grow, one behind the other, within what was
\* accepted, through every retransmission, cut, probe and FIN.
ImplementsStream == Stream!StreamSafe

\* Everything written, the FIN included, is acknowledged in the end, whatever
\* was lost, repeated or reordered, and although the update that reopened the
\* window may be what was lost.
AllAcknowledged ==
    \A n \in 1 .. MaxData + 2 : Stream!StreamLive(n)
=============================================================================
