------------------------------ MODULE SendStream ------------------------------
(***************************************************************************)
(* What a TCP sender promises its application: the bytes it accepts reach  *)
(* the peer in order, each once, an acknowledgement covers only bytes that *)
(* have arrived, and every accepted byte is acknowledged in the end.       *)
(***************************************************************************)
EXTENDS Naturals

VARIABLES accepted, delivered, acked

stream == <<accepted, delivered, acked>>

StreamInit == accepted = 0 /\ delivered = 0 /\ acked = 0

Accept ==
    /\ accepted' > accepted
    /\ UNCHANGED <<delivered, acked>>

Deliver ==
    /\ delivered < accepted
    /\ delivered' > delivered /\ delivered' <= accepted
    /\ UNCHANGED <<accepted, acked>>

Acknowledge ==
    /\ acked < delivered
    /\ acked' > acked /\ acked' <= delivered
    /\ UNCHANGED <<accepted, delivered>>

StreamNext == Accept \/ Deliver \/ Acknowledge

StreamSafe == StreamInit /\ [][StreamNext]_stream

StreamLive(n) == accepted >= n ~> acked >= n
=============================================================================
