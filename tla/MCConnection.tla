----------------------------- MODULE MCConnection -----------------------------
(***************************************************************************)
(* TcpConnection without Fast Open and corking, on a path whose queue has  *)
(* room or has none: what varies is the network and the receiver.          *)
(***************************************************************************)
EXTENDS TcpConnection

NoFastOpen == {-1}
Nagle == {{}}
CalmEnv == [room |-> 9, how |-> "late", wait |-> FALSE, join |-> 9]
Envs == {CalmEnv, [CalmEnv EXCEPT !.room = 0]}
=============================================================================
