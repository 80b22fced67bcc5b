-------------------------- MODULE MCSubscriptions --------------------------
(***************************************************************************)
(* Model checking Subscriptions: two calls at a time, two purchases and    *)
(* two renewals, periods of three ticks in days of two.                    *)
(***************************************************************************)
EXTENDS Subscriptions, TLC

CONSTANTS c1, c2, s1, s2, n1, n2

MCCalls == {c1, c2}
MCStarts == {s1, s2}
MCRenewals == {n1, n2}

\* Calls are interchangeable, and so are events of one kind; no liveness is
\* checked.
Symmetry == Permutations(MCCalls) \cup Permutations(MCStarts) \cup Permutations(MCRenewals)
=============================================================================
