---------------------------- MODULE MCSessionTurn ----------------------------
(* Instances of SessionTurn: one chat of u1 that two requests reach, while   *)
(* u1 and u2 may have requests in flight to other chats.                     *)
EXTENDS SessionTurn

CONSTANTS s1, u1, u2

ToTheChat == [t \in Turns |-> s1]
ItsOwner == [s \in Sessions |-> u1]
=============================================================================
