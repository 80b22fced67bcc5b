--------------------------- MODULE MCSessionGuard ---------------------------
(***************************************************************************)
(* Model checking SessionGuard: four clients of one account with a cap of  *)
(* two, so that two requests can be over the cap at once, and two losses,  *)
(* so that lost slots alone can fill the cap.                              *)
(***************************************************************************)
EXTENDS SessionGuard, TLC

CONSTANTS r1, r2, r3, r4

MCRequests == {r1, r2, r3, r4}
=============================================================================
