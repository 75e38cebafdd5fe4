------------------------------- MODULE MCPing -------------------------------
(***************************************************************************)
(* The ping programs, one of them in each behaviour.                       *)
(***************************************************************************)
EXTENDS PingReceiver, RttMonitor

VARIABLE program

vars == <<tcp, udp, mon, program>>

PingInit == TcpInit /\ UdpInit /\ MonInit /\ program \in {"tcp", "udp", "monitor"}

PingNext ==
    /\ UNCHANGED program
    /\ \/ program = "tcp" /\ TcpNext /\ UNCHANGED <<udp, mon>>
       \/ program = "udp" /\ UdpNext /\ UNCHANGED <<tcp, mon>>
       \/ program = "monitor" /\ MonNext /\ UNCHANGED <<tcp, udp>>

PingSpec == PingInit /\ [][PingNext]_vars /\ (program = "tcp" => TcpFairness)
=============================================================================
