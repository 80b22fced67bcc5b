----------------------------- MODULE MCGateway -----------------------------
(***************************************************************************)
(* Model checking Gateway: three requests of one account with two slots,   *)
(* a breaker that opens at the second failure, and credits for two of the  *)
(* three.                                                                  *)
(***************************************************************************)
EXTENDS Gateway, TLC

CONSTANTS r1, r2, r3

MCRequests == {r1, r2, r3}
MCPlainEscapes == {"body"}
=============================================================================
