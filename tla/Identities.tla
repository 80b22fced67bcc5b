----------------------------- MODULE Identities -----------------------------
(***************************************************************************)
(* The users table and its three ways in: registration with a password,    *)
(* verification of an address by email, and sign-in with Google or Apple   *)
(* (services/oauth_service.py, register_user).  Accounts are named by      *)
(* their email address, which is unique and never changes; identities are  *)
(* the (provider, subject) pairs, which may show a different address       *)
(* tomorrow.                                                               *)
(*                                                                         *)
(* A SELECT and what is decided from it is one step, a transaction's write *)
(* and COMMIT the next.  The default subscription that follows a creation  *)
(* belongs to Subscriptions, the refresh token to Sessions.                *)
(***************************************************************************)
EXTENDS FiniteSets

CONSTANTS
  Callers,     \* concurrent sign-ins
  Subjects,    \* the (provider, subject) pairs
  Emails,      \* the normalized addresses
  NoSubject    \* the NULL of auth_provider and provider_subject

ASSUME SubjectsAssumption == NoSubject \notin Subjects

VARIABLES
  users,      \* the row of each address
  published,  \* the keys a provider's JWKS document lists
  vouched,    \* history: <<subject, address>> pairs a provider stood for
  entry,      \* the progress of each sign-in
  late,       \* history: sign-ins that another write overtook
  entered,    \* history: <<subject, address>> pairs that signed in
  contested   \* history: addresses an overtaken sign-in wrote

identityVars == <<users, published, vouched, entry, late, entered, contested>>

-----------------------------------------------------------------------------
Kids == {"old", "new"}
Steps == {"out", "fetch", "refetch", "bySubject", "byEmail", "link", "create"}

Outside == [step |-> "out", subject |-> NoSubject, email |-> NoSubject, kid |-> "old",
            proof |-> FALSE, binds |-> FALSE]

User(subject, verified) == [state |-> "active", subject |-> subject, verified |-> verified]
NoUser == [state |-> "absent", subject |-> NoSubject, verified |-> FALSE]

IdentitiesTypeOK ==
  /\ users \in [Emails -> [state : {"absent", "active", "disabled"},
                           subject : Subjects \cup {NoSubject}, verified : BOOLEAN]]
  /\ published \subseteq Kids
  /\ vouched \subseteq Subjects \X Emails
  /\ entry \in [Callers -> [step : Steps, subject : Subjects \cup {NoSubject},
                            email : Emails \cup {NoSubject}, kid : Kids,
                            proof : BOOLEAN, binds : BOOLEAN]]
  /\ late \subseteq Callers
  /\ entered \subseteq Subjects \X Emails
  /\ contested \subseteq Emails

Entering == {c \in Callers : entry[c].step # "out"}
Go(c, step) == entry' = [entry EXCEPT ![c].step = step]
Leave(c) == entry' = [entry EXCEPT ![c] = Outside] /\ late' = late \ {c}
Wrote(c) == entry' = [entry EXCEPT ![c] = Outside] /\ late' = (late \cup Entering) \ {c}

IdentitiesInit ==
  /\ users = [e \in Emails |-> NoUser]
  /\ published = {"old"}
  /\ vouched = {}
  /\ entry = [c \in Callers |-> Outside]
  /\ late = {}
  /\ entered = {}
  /\ contested = {}

-----------------------------------------------------------------------------
\* register_user: the unique index turns a second account away with a 400.
Register(c) ==
  /\ entry[c].step = "out"
  /\ \E e \in Emails :
       /\ users[e].state = "absent"
       /\ users' = [users EXCEPT ![e] = User(NoSubject, FALSE)]
  /\ Wrote(c)
  /\ UNCHANGED <<published, vouched, entered, contested>>

\* verify_email: the token sent to the address was spent.
VerifyAddress(c) ==
  /\ entry[c].step = "out"
  /\ \E e \in Emails :
       /\ users[e].state # "absent" /\ ~users[e].verified
       /\ users' = [users EXCEPT ![e].verified = TRUE]
  /\ Wrote(c)
  /\ UNCHANGED <<published, vouched, entered, contested>>

\* An operator disables an account in the database.
DisableUser(e) ==
  /\ users[e].state = "active"
  /\ users' = [users EXCEPT ![e].state = "disabled"]
  /\ UNCHANGED <<published, vouched, entry, late, entered, contested>>

\* The provider's JWKS document catches up with its newest signing key.
PublishKey ==
  /\ published # Kids
  /\ published' = Kids
  /\ UNCHANGED <<users, vouched, entry, late, entered, contested>>

\* resolve_identity: the provider exchanges the code for an id token.  proof:
\* email_verified; the provider has then vouched for the pair.
ExchangeCode(c) ==
  /\ entry[c].step = "out"
  /\ \E s \in Subjects, e \in Emails, kid \in Kids, proof \in BOOLEAN :
       /\ entry' = [entry EXCEPT ![c] = [step |-> "fetch", subject |-> s, email |-> e,
                                         kid |-> kid, proof |-> proof, binds |-> FALSE]]
       /\ vouched' = IF proof THEN vouched \cup {<<s, e>>} ELSE vouched
  /\ UNCHANGED <<users, published, late, entered, contested>>

\* The claims are kept, the id token is not.
Trust(c) ==
  entry' = [entry EXCEPT ![c] = [Outside EXCEPT !.step = "bySubject",
                                   !.subject = entry[c].subject, !.email = entry[c].email]]

\* A variant that trusts any address in a signed token.
CheckClaimsLoosely(c) == Trust(c) /\ UNCHANGED late

\* _verify_id_token: the address must be there and be verified.
CheckClaims(c) ==
  \/ /\ entry[c].proof
     /\ Trust(c) /\ UNCHANGED late
  \/ /\ ~entry[c].proof
     /\ Leave(c)

\* _verify_id_token: the signing key is looked up, and once more.
FetchKeys(c) ==
  /\ \/ /\ entry[c].step \in {"fetch", "refetch"}
        /\ entry[c].kid \in published
        /\ CheckClaims(c)
     \/ /\ entry[c].step = "fetch"
        /\ entry[c].kid \notin published
        /\ Go(c, "refetch") /\ UNCHANGED late
     \/ /\ entry[c].step = "refetch"
        /\ entry[c].kid \notin published
        /\ Leave(c)
  /\ UNCHANGED <<users, published, vouched, entered, contested>>

\* A variant that lets an address move to another identity.
AdmitAnyone(c, e) ==
  /\ users[e].state = "active"
  /\ entry' = [entry EXCEPT ![c] = [@ EXCEPT !.step = "link", !.email = e, !.binds = TRUE]]
  /\ UNCHANGED <<late, entered>>

\* find_or_create_user, for the row found: disabled or bound to another
\* identity answers 401; an unbound or unverified one will be written.
AdmitUser(c, e) ==
  LET s == entry[c].subject IN
  \/ /\ users[e].state = "active"
     /\ \/ users[e].subject = NoSubject
        \/ users[e].subject = s /\ ~users[e].verified
     /\ entry' = [entry EXCEPT ![c] = [@ EXCEPT !.step = "link", !.email = e,
                                              !.binds = (users[e].subject = NoSubject)]]
     /\ UNCHANGED <<late, entered>>
  \/ /\ users[e].state = "active" /\ users[e].subject = s /\ users[e].verified
     /\ entered' = entered \cup {<<s, e>>}
     /\ Leave(c)
  \/ /\ users[e].state = "disabled" \/ users[e].subject \notin {NoSubject, s}
     /\ Leave(c)
     /\ UNCHANGED entered

\* find_or_create_user: the first SELECT, by provider and subject.
FindBySubject(c) ==
  /\ entry[c].step = "bySubject"
  /\ \/ \E e \in Emails : users[e].subject = entry[c].subject /\ AdmitUser(c, e)
     \/ /\ \A e \in Emails : users[e].subject # entry[c].subject
        /\ Go(c, "byEmail")
        /\ UNCHANGED <<late, entered>>
  /\ UNCHANGED <<users, published, vouched, contested>>

\* find_or_create_user: the second SELECT, by address.
FindByEmail(c) ==
  LET e == entry[c].email IN
  /\ entry[c].step = "byEmail"
  /\ \/ users[e].state # "absent" /\ AdmitUser(c, e)
     \/ users[e].state = "absent" /\ Go(c, "create") /\ UNCHANGED <<late, entered>>
  /\ UNCHANGED <<users, published, vouched, contested>>

Enter(c, e) ==
  /\ entered' = entered \cup {<<entry[c].subject, e>>}
  /\ contested' = IF c \in late THEN contested \cup {e} ELSE contested
  /\ Wrote(c)

\* The unique index on (auth_provider, provider_subject).
BoundElsewhere(s, e) == \E f \in Emails \ {e} : users[f].subject = s

\* find_or_create_user: the UPDATE, by the row's id, of the columns changed.
Link(c) ==
  LET e == entry[c].email
      s == entry[c].subject
  IN
  /\ entry[c].step = "link"
  /\ \/ /\ ~(entry[c].binds /\ BoundElsewhere(s, e))
        /\ users' = [users EXCEPT ![e].verified = TRUE,
                                  ![e].subject = IF entry[c].binds THEN s ELSE @]
        /\ Enter(c, e)
     \/ /\ entry[c].binds /\ BoundElsewhere(s, e)
        /\ Leave(c)
        /\ UNCHANGED <<users, entered, contested>>
  /\ UNCHANGED <<published, vouched>>

\* find_or_create_user: the INSERT; either unique index may refuse it.
Create(c) ==
  LET e == entry[c].email
      s == entry[c].subject
      free == users[e].state = "absent" /\ ~BoundElsewhere(s, e)
  IN
  /\ entry[c].step = "create"
  /\ \/ /\ free
        /\ users' = [users EXCEPT ![e] = User(s, TRUE)]
        /\ Enter(c, e)
     \/ /\ ~free
        /\ Leave(c)
        /\ UNCHANGED <<users, entered, contested>>
  /\ UNCHANGED <<published, vouched>>

\* A provider or the worker fails; nothing was written.
GiveUp(c) ==
  /\ entry[c].step # "out"
  /\ Leave(c)
  /\ UNCHANGED <<users, published, vouched, entered, contested>>

IdentitiesNext ==
  \/ \E c \in Callers :
       \/ Register(c) \/ VerifyAddress(c) \/ ExchangeCode(c) \/ FetchKeys(c)
       \/ FindBySubject(c) \/ FindByEmail(c) \/ Link(c) \/ Create(c) \/ GiveUp(c)
  \/ \E e \in Emails : DisableUser(e)
  \/ PublishKey

IdentitiesSpec == IdentitiesInit /\ [][IdentitiesNext]_identityVars

-----------------------------------------------------------------------------
(* Properties *)

\* "The provider already proved ownership of the address" (find_or_create_user)
\* and "a provider identity can never be claimed twice" (models/user.py): an
\* account is bound only to an identity whose provider vouched for the
\* account's address, and no identity is bound to two accounts, however its
\* address changes and sign-ins interleave.
BindingsAreSound ==
  \A e \in Emails : users[e].subject # NoSubject =>
    /\ <<users[e].subject, e>> \in vouched
    /\ \A f \in Emails \ {e} : users[f].subject # users[e].subject

\* Once an identity has signed in to an account, the account stays bound to it,
\* so that nobody signs in to it with another; only a sign-in overtaken between
\* its SELECT and its UPDATE takes an account over.
SignInBinds ==
  \A p \in entered : users[p[2]].subject = p[1] \/ p[2] \in contested
=============================================================================
