--------------------------- MODULE MCEventServer ---------------------------
(* Two clients: the first sends two requests, of which the second closes   *)
(* the connection, the second one.                                         *)
EXTENDS EventServer, TLC

CONSTANTS c1, c2

MCNumRequests == c1 :> 2 @@ c2 :> 1

MCCloseRequests == {<<c1, 2>>}
=============================================================================
