--------------------------- MODULE MCCreditLedger ---------------------------
(***************************************************************************)
(* Model checking CreditLedger with three requests.  The limits are chosen *)
(* so that two small requests fit, a small and a large one do not fit the  *)
(* window, and three do not fit the period; an actual cost may be below or *)
(* above the reservation.                                                  *)
(***************************************************************************)
EXTENDS CreditLedger, TLC

CONSTANTS r1, r2, r3

MCRequests == {r1, r2, r3}

\* Requests are interchangeable, and no liveness is checked.
Symmetry == Permutations(MCRequests)
=============================================================================
