----------------------------- MODULE MCAccounts -----------------------------
(***************************************************************************)
(* Model checking Sessions, Identities, AccountDeletion (with Images) and  *)
(* Gateway.  They share no variable, so that their product would show no   *)
(* more than each alone: a behaviour picks one of them and runs it; the    *)
(* first three with two calls at a time, Gateway with three requests of    *)
(* one account, two slots, a breaker that opens at the second failure, and *)
(* credits for two of the three.                                           *)
(***************************************************************************)
EXTENDS Sessions, Identities, AccountDeletion, Gateway, TLC

CONSTANTS c1, c2, google, apple, home, work, r1, r2, r3

VARIABLE focus  \* the component this behaviour runs

accounts == <<focus, sessionVars, identityVars, deletionVars, vars>>

MCVisitors == {c1, c2}
MCCallers == {c1, c2}
MCWorkers == {c1, c2}
MCSubjects == {google, apple}
MCEmails == {home, work}
MCWeights == {1}
MCRequests == {r1, r2, r3}

AccountsInit ==
  /\ SessionsInit /\ IdentitiesInit /\ DeletionInit /\ Init
  /\ focus \in {"sessions", "identities", "deletion", "gateway"}

AccountsNext ==
  /\ UNCHANGED focus
  /\ \/ focus = "sessions" /\ SessionsNext /\ UNCHANGED <<identityVars, deletionVars, vars>>
     \/ focus = "identities" /\ IdentitiesNext /\ UNCHANGED <<sessionVars, deletionVars, vars>>
     \/ focus = "deletion" /\ DeletionNext /\ UNCHANGED <<sessionVars, identityVars, vars>>
     \/ focus = "gateway" /\ Next /\ UNCHANGED <<sessionVars, identityVars, deletionVars>>

AccountsSpec == AccountsInit /\ [][AccountsNext]_accounts

\* Calls, identities and addresses are interchangeable; no liveness is checked.
Symmetry ==
  Permutations(MCVisitors) \cup Permutations(MCSubjects) \cup Permutations(MCEmails)

\* Every variable of the three account components keeps its type; TypeOK is
\* Gateway's.
AccountsTypeOK == SessionsTypeOK /\ IdentitiesTypeOK /\ DeletionTypeOK
=============================================================================
