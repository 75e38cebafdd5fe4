------------------------------- MODULE MCSender -------------------------------
(***************************************************************************)
(* TcpSender with a bound on how often things go wrong: a call in a bad    *)
(* environment, a loss, a timeout or a smaller window costs one of the     *)
(* MaxTrouble units.                                                       *)
(***************************************************************************)
EXTENDS TcpSender

CONSTANTS Rooms, Failures, MaxTrouble

VARIABLE trouble

FastOpen == {-1, 0, 2}
Nagle == {{}, {"cork"}}

Calm == [room |-> 9, how |-> "late", wait |-> FALSE, join |-> 9]

Envs == {Calm, [Calm EXCEPT !.wait = TRUE], [Calm EXCEPT !.join = 0]}
          \cup [room : Rooms, how : Failures, wait : {FALSE}, join : {9}]

Cost(n) == trouble >= n /\ trouble' = trouble - n

MCInit == SenderInit /\ trouble = MaxTrouble - Cardinality(sk.nonagle)

MCNext ==
    \/ \E space \in FastOpenSizes, ok \in BOOLEAN :
         Connect(space, ok) /\ Cost(Bit(space >= 0)) /\ UNCHANGED untrimmed
    \/ \E env \in Env :
         LET bad == Bit(env # Calm)
         IN /\ trouble >= bad
            /\ \/ Application(env) /\ Cost(bad) /\ UNCHANGED untrimmed
               \/ Acknowledgements(env) /\ Cost(bad + Bit(\/ WndEnd(sk') < WndEnd(sk)
                                                           \/ sk'.cwnd < sk.cwnd))
               \/ trouble > bad /\ Losses(env) /\ Cost(bad + 1) /\ UNCHANGED untrimmed
               \/ Probes(env) /\ Cost(bad) /\ UNCHANGED untrimmed

MCSpec == MCInit /\ [][MCNext]_<<senderVars, trouble>>
=============================================================================
