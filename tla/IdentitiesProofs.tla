--------------------------- MODULE IdentitiesProofs ---------------------------
(***************************************************************************)
(* Proofs about Identities, for every number of sign-ins, identities and   *)
(* addresses.  Claimed says what stands behind the pair a sign-in carries, *)
(* Unmoved that a sign-in nobody wrote under still sees the row it read.   *)
(***************************************************************************)
EXTENDS Identities, TLAPS

Rows == [state : {"absent", "active", "disabled"}, subject : Subjects \cup {NoSubject},
         verified : BOOLEAN]
Entries == [step : Steps, subject : Subjects \cup {NoSubject},
            email : Emails \cup {NoSubject}, kid : Kids, proof : BOOLEAN, binds : BOOLEAN]

\* The entry v carries a pair its provider stands for, wherever it may bind it.
Vouched(v, pairs) ==
  /\ v.step # "out" => v.subject \in Subjects /\ v.email \in Emails
  /\ \/ v.step = "out"
     \/ v.step \in {"fetch", "refetch"} /\ ~v.proof
     \/ v.step = "link" /\ ~v.binds
     \/ <<v.subject, v.email>> \in pairs
Claimed == \A c \in Callers : Vouched(entry[c], vouched)

\* The row v is about to link is as it was read.
Unmoved ==
  \A c \in Callers \ late : entry[c].step = "link" =>
    users[entry[c].email].subject = IF entry[c].binds THEN NoSubject ELSE entry[c].subject

AbsentUnbound == \A e \in Emails : users[e].state = "absent" => users[e].subject = NoSubject

\* No row goes away under a sign-in.
LinkedExists ==
  \A c \in Callers : entry[c].step = "link" => users[entry[c].email].state # "absent"

IdentitiesIInv ==
  /\ IdentitiesTypeOK
  /\ Claimed
  /\ Unmoved
  /\ AbsentUnbound
  /\ LinkedExists
  /\ BindingsAreSound
  /\ SignInBinds

-----------------------------------------------------------------------------
LEMMA OutsideFact == Outside \in Entries /\ Outside.step = "out" /\ \A S : Vouched(Outside, S)
BY DEF Outside, Entries, Steps, Kids, Vouched

\* A sign-in that writes no row, and goes on from what it just read.
LEMMA EntryReadKeeps ==
  ASSUME IdentitiesIInv, NEW c \in Callers, NEW v \in Entries,
         entry' = [entry EXCEPT ![c] = v],
         UNCHANGED <<users, published, contested>>,
         vouched \subseteq vouched', vouched' \subseteq Subjects \X Emails,
         late' \in {late, late \ {c}},
         Vouched(v, vouched'),
         v.step = "link" =>
           /\ users[v.email].state # "absent"
           /\ users[v.email].subject = IF v.binds THEN NoSubject ELSE v.subject,
         entered \subseteq entered', entered' \subseteq Subjects \X Emails,
         \A p \in entered' \ entered : users[p[2]].subject = p[1]
  PROVE  IdentitiesIInv'
<1>1. entry \in [Callers -> Entries] /\ late \subseteq Callers
  BY DEF IdentitiesIInv, IdentitiesTypeOK, Entries
<1>2. /\ entry' \in [Callers -> Entries] /\ late' \subseteq Callers
      /\ entry'[c] = v /\ \A d \in Callers \ {c} : entry'[d] = entry[d]
  BY <1>1
<1>3. IdentitiesTypeOK'
  BY <1>2 DEF IdentitiesIInv, IdentitiesTypeOK, Entries
<1>4. Claimed'
  BY <1>2 DEF IdentitiesIInv, Claimed, Vouched
<1>5. Unmoved'
  <2>1. ASSUME NEW d \in Callers \ late', entry'[d].step = "link"
        PROVE  users[entry'[d].email].subject
                 = IF entry'[d].binds THEN NoSubject ELSE entry'[d].subject
    <3>1. CASE d = c
      BY <1>2, <2>1, <3>1
    <3>2. CASE d # c
      BY <1>2, <2>1, <3>2 DEF IdentitiesIInv, Unmoved
    <3>3. QED
      BY <3>1, <3>2
  <2>2. QED
    BY <2>1 DEF Unmoved
<1>6. AbsentUnbound' /\ SignInBinds' /\ LinkedExists'
  BY <1>2 DEF IdentitiesIInv, AbsentUnbound, SignInBinds, LinkedExists
<1>7. BindingsAreSound'
  BY DEF IdentitiesIInv, BindingsAreSound
<1>8. QED
  BY <1>3, <1>4, <1>5, <1>6, <1>7 DEF IdentitiesIInv

\* A sign-in that leaves without a trace.
LEMMA LeavingKeeps ==
  ASSUME IdentitiesIInv, NEW c \in Callers, Leave(c),
         UNCHANGED <<users, published, vouched, entered, contested>>
  PROVE  IdentitiesIInv'
<1>1. vouched \subseteq Subjects \X Emails /\ entered \subseteq Subjects \X Emails
  BY DEF IdentitiesIInv, IdentitiesTypeOK
<1>2. QED
  BY <1>1, OutsideFact, EntryReadKeeps DEF Leave

-----------------------------------------------------------------------------
LEMMA ExchangeCodeKeeps ==
  ASSUME IdentitiesIInv, NEW c \in Callers, ExchangeCode(c)
  PROVE  IdentitiesIInv'
<1>1. PICK s \in Subjects, e \in Emails, kid \in Kids, proof \in BOOLEAN :
        /\ entry' = [entry EXCEPT ![c] = [step |-> "fetch", subject |-> s, email |-> e,
                                          kid |-> kid, proof |-> proof, binds |-> FALSE]]
        /\ vouched' = IF proof THEN vouched \cup {<<s, e>>} ELSE vouched
  BY DEF ExchangeCode
<1> DEFINE v == [step |-> "fetch", subject |-> s, email |-> e,
                 kid |-> kid, proof |-> proof, binds |-> FALSE]
<1>2. v \in Entries /\ v.step = "fetch"
  BY DEF Entries, Steps
<1>3. Vouched(v, vouched')
  BY <1>1 DEF Vouched
<1>4. vouched \subseteq vouched' /\ vouched' \subseteq Subjects \X Emails
      /\ entered \subseteq Subjects \X Emails
  BY <1>1 DEF IdentitiesIInv, IdentitiesTypeOK
<1> HIDE DEF v
<1>5. entry' = [entry EXCEPT ![c] = v]
  BY <1>1 DEF v
<1>6. QED
  BY <1>2, <1>3, <1>4, <1>5, EntryReadKeeps DEF ExchangeCode

LEMMA FetchKeysKeeps ==
  ASSUME IdentitiesIInv, NEW c \in Callers, FetchKeys(c)
  PROVE  IdentitiesIInv'
<1>0. /\ entry[c] \in Entries /\ Vouched(entry[c], vouched)
      /\ vouched \subseteq Subjects \X Emails /\ entered \subseteq Subjects \X Emails
  BY DEF IdentitiesIInv, IdentitiesTypeOK, Entries, Claimed
<1>1. CASE entry[c].step \in {"fetch", "refetch"} /\ entry[c].proof /\ Trust(c) /\ UNCHANGED late
  <2> DEFINE v == [Outside EXCEPT !.step = "bySubject", !.subject = entry[c].subject,
                                  !.email = entry[c].email]
  <2>1. v \in Entries /\ v.step = "bySubject" /\ v.subject = entry[c].subject
        /\ v.email = entry[c].email
    BY <1>0 DEF Outside, Entries, Steps, Kids
  <2>2. entry' = [entry EXCEPT ![c] = v]
    BY <1>1 DEF Trust
  <2> HIDE DEF v
  <2>3. Vouched(v, vouched)
    BY <1>0, <1>1, <2>1 DEF Vouched
  <2>4. QED
    BY <1>0, <1>1, <2>1, <2>2, <2>3, EntryReadKeeps DEF FetchKeys
<1>2. CASE entry[c].step = "fetch" /\ Go(c, "refetch") /\ UNCHANGED late
  <2> DEFINE v == [entry[c] EXCEPT !.step = "refetch"]
  <2>1. v \in Entries /\ v.step = "refetch" /\ v.subject = entry[c].subject
        /\ v.email = entry[c].email /\ v.proof = entry[c].proof
    BY <1>0 DEF Entries, Steps
  <2>2. entry' = [entry EXCEPT ![c] = v]
    BY <1>2 DEF Go
  <2> HIDE DEF v
  <2>3. Vouched(v, vouched)
    BY <1>0, <1>2, <2>1 DEF Vouched
  <2>4. QED
    BY <1>0, <1>2, <2>1, <2>2, <2>3, EntryReadKeeps DEF FetchKeys
<1>3. CASE Leave(c)
  BY <1>3, LeavingKeeps DEF FetchKeys
<1>4. QED
  BY <1>1, <1>2, <1>3 DEF FetchKeys, CheckClaims

\* Whatever row was found.
LEMMA AdmitKeeps ==
  ASSUME IdentitiesIInv, NEW c \in Callers, NEW e \in Emails, AdmitUser(c, e),
         entry[c].step \in {"bySubject", "byEmail"},
         entry[c].email = e \/ users[e].subject = entry[c].subject,
         UNCHANGED <<users, published, vouched, contested>>
  PROVE  IdentitiesIInv'
<1> DEFINE s == entry[c].subject
           v == [entry[c] EXCEPT !.step = "link", !.email = e,
                                 !.binds = (users[e].subject = NoSubject)]
<1>0. /\ entry[c] \in Entries /\ Vouched(entry[c], vouched)
      /\ s \in Subjects /\ s # NoSubject
      /\ vouched \subseteq Subjects \X Emails /\ entered \subseteq Subjects \X Emails
  BY SubjectsAssumption DEF IdentitiesIInv, IdentitiesTypeOK, Entries, Claimed, Vouched
<1>1. CASE /\ users[e].state = "active"
           /\ users[e].subject = NoSubject \/ users[e].subject = s
           /\ entry' = [entry EXCEPT ![c] = v] /\ UNCHANGED <<late, entered>>
  <2>1. /\ v \in Entries /\ v.step = "link" /\ v.subject = s /\ v.email = e
        /\ v.binds = (users[e].subject = NoSubject)
    BY <1>0 DEF Entries, Steps
  <2> HIDE DEF v
  <2>2. v.binds => entry[c].email = e
    BY <1>0, <2>1
  <2>3. Vouched(v, vouched)
    BY <1>0, <2>1, <2>2 DEF Vouched
  <2>4. /\ users[v.email].state # "absent"
        /\ users[v.email].subject = IF v.binds THEN NoSubject ELSE v.subject
    BY <1>1, <2>1
  <2>5. QED
    BY <1>0, <1>1, <2>1, <2>3, <2>4, EntryReadKeeps
<1>2. CASE users[e].subject = s /\ entered' = entered \cup {<<s, e>>} /\ Leave(c)
  <2>1. entered' \subseteq Subjects \X Emails
    BY <1>0, <1>2
  <2>2. \A p \in entered' \ entered : users[p[2]].subject = p[1]
    BY <1>2
  <2>3. QED
    BY <1>0, <1>2, <2>1, <2>2, OutsideFact, EntryReadKeeps DEF Leave
<1>3. CASE Leave(c) /\ UNCHANGED entered
  BY <1>3, LeavingKeeps
<1>4. QED
  BY <1>1, <1>2, <1>3 DEF AdmitUser

\* A sign-in that found no row goes on to the next statement.
LEMMA GoingKeeps ==
  ASSUME IdentitiesIInv, NEW c \in Callers, NEW step \in {"byEmail", "create"}, Go(c, step),
         entry[c].step \in {"bySubject", "byEmail"},
         UNCHANGED <<users, published, vouched, contested, late, entered>>
  PROVE  IdentitiesIInv'
<1> DEFINE v == [entry[c] EXCEPT !.step = step]
<1>0. /\ entry[c] \in Entries /\ Vouched(entry[c], vouched)
      /\ vouched \subseteq Subjects \X Emails /\ entered \subseteq Subjects \X Emails
  BY DEF IdentitiesIInv, IdentitiesTypeOK, Entries, Claimed
<1>1. v \in Entries /\ v.step = step /\ v.subject = entry[c].subject /\ v.email = entry[c].email
  BY <1>0 DEF Entries, Steps
<1>2. entry' = [entry EXCEPT ![c] = v]
  BY DEF Go
<1> HIDE DEF v
<1>3. Vouched(v, vouched)
  BY <1>0, <1>1 DEF Vouched
<1>4. QED
  BY <1>0, <1>1, <1>2, <1>3, EntryReadKeeps

LEMMA FindKeeps ==
  ASSUME IdentitiesIInv, NEW c \in Callers, FindBySubject(c) \/ FindByEmail(c)
  PROVE  IdentitiesIInv'
<1>1. CASE FindBySubject(c)
  BY <1>1, AdmitKeeps, GoingKeeps DEF FindBySubject
<1>2. CASE FindByEmail(c)
  <2>1. entry[c].email \in Emails
    BY <1>2 DEF FindByEmail, IdentitiesIInv, Claimed, Vouched
  <2>2. QED
    BY <1>2, <2>1, AdmitKeeps, GoingKeeps DEF FindByEmail
<1>3. QED
  BY <1>1, <1>2

-----------------------------------------------------------------------------
(* The steps that write a row *)

\* Whoever else is on the way in is late from now on.
LEMMA WroteFact ==
  ASSUME IdentitiesIInv, NEW c \in Callers, Wrote(c), UNCHANGED vouched
  PROVE  /\ entry' \in [Callers -> Entries] /\ late' \subseteq Callers
         /\ Claimed' /\ Unmoved'
         /\ \A d \in Callers : entry'[d].step = "link" => entry[d] = entry'[d]
<1>1. entry \in [Callers -> Entries] /\ late \subseteq Callers
  BY DEF IdentitiesIInv, IdentitiesTypeOK, Entries
<1>2. /\ entry' \in [Callers -> Entries] /\ entry'[c] = Outside
      /\ \A d \in Callers \ {c} : entry'[d] = entry[d]
  BY <1>1, OutsideFact DEF Wrote
<1>3. late' \subseteq Callers
  BY <1>1 DEF Wrote, Entering
<1>4. Claimed'
  BY <1>2, OutsideFact DEF IdentitiesIInv, Claimed
<1>5. \A d \in Callers \ late' : entry'[d].step = "out"
  BY <1>2, OutsideFact DEF Wrote, Entering
<1>6. \A d \in Callers : entry'[d].step = "link" => entry[d] = entry'[d]
  BY <1>2, OutsideFact
<1>7. QED
  BY <1>2, <1>3, <1>4, <1>5, <1>6 DEF Unmoved

\* A row e whose binding may change only to a vouched identity of no other row.
LEMMA EntryWriteKeeps ==
  ASSUME IdentitiesIInv, NEW c \in Callers, NEW e \in Emails, NEW row \in Rows,
         users' = [users EXCEPT ![e] = row], row.state # "absent",
         Wrote(c), UNCHANGED <<published, vouched>>,
         row.subject # NoSubject => <<row.subject, e>> \in vouched
           /\ \A f \in Emails \ {e} : users[f].subject # row.subject,
         entered \subseteq entered', entered' \subseteq Subjects \X Emails,
         contested \subseteq contested', contested' \subseteq Emails,
         \A p \in entered' : p[2] = e => row.subject = p[1] \/ e \in contested',
         \A p \in entered' \ entered : p[2] = e
  PROVE  IdentitiesIInv'
<1>1. /\ entry' \in [Callers -> Entries] /\ late' \subseteq Callers /\ Claimed' /\ Unmoved'
      /\ \A d \in Callers : entry'[d].step = "link" => entry[d] = entry'[d]
  BY WroteFact
<1>2. users \in [Emails -> Rows]
  BY DEF IdentitiesIInv, IdentitiesTypeOK, Rows
<1>3. /\ users' \in [Emails -> Rows] /\ users'[e] = row
      /\ \A f \in Emails \ {e} : users'[f] = users[f]
  BY <1>2
<1>4. IdentitiesTypeOK'
  BY <1>1, <1>3 DEF IdentitiesIInv, IdentitiesTypeOK, Rows, Entries
<1>5. AbsentUnbound' /\ LinkedExists'
  <2>1. LinkedExists'
    <3>1. ASSUME NEW d \in Callers, entry'[d].step = "link"
          PROVE  users'[entry'[d].email].state # "absent"
      <4>1. entry'[d].email \in Emails /\ users[entry'[d].email].state # "absent"
        BY <1>1, <3>1 DEF IdentitiesIInv, LinkedExists, Claimed, Vouched
      <4>2. QED
        BY <1>3, <4>1
    <3>2. QED
      BY <3>1 DEF LinkedExists
  <2>2. QED
    BY <1>3, <2>1 DEF IdentitiesIInv, AbsentUnbound
<1>6. BindingsAreSound'
  <2>1. ASSUME NEW f \in Emails, users'[f].subject # NoSubject
        PROVE  <<users'[f].subject, f>> \in vouched
    BY <1>3, <2>1 DEF IdentitiesIInv, BindingsAreSound
  <2>2. ASSUME NEW f \in Emails, NEW g \in Emails, f # g, users'[f].subject # NoSubject
        PROVE  users'[g].subject # users'[f].subject
    BY <1>3, <2>2 DEF IdentitiesIInv, BindingsAreSound
  <2>3. QED
    BY <2>1, <2>2 DEF BindingsAreSound
<1>7. SignInBinds'
  <2>1. ASSUME NEW p \in entered'
        PROVE  users'[p[2]].subject = p[1] \/ p[2] \in contested'
    <3>1. CASE p[2] = e
      BY <1>3, <2>1, <3>1
    <3>2. CASE p[2] # e
      <4>1. p \in entered /\ p[2] \in Emails
        BY <2>1, <3>2
      <4>2. QED
        BY <1>3, <3>2, <4>1 DEF IdentitiesIInv, SignInBinds
    <3>3. QED
      BY <3>1, <3>2
  <2>2. QED
    BY <2>1 DEF SignInBinds
<1>8. QED
  BY <1>1, <1>4, <1>5, <1>6, <1>7 DEF IdentitiesIInv

LEMMA UserFact ==
  ASSUME NEW s \in Subjects \cup {NoSubject}, NEW verified \in BOOLEAN
  PROVE  /\ User(s, verified) \in Rows /\ User(s, verified).state = "active"
         /\ User(s, verified).subject = s
BY DEF User, Rows

\* A row that nothing is bound to has been signed in to only by an overtaken call.
LEMMA UnboundFact ==
  ASSUME IdentitiesIInv, NEW e \in Emails, users[e].subject = NoSubject
  PROVE  \A p \in entered : p[2] = e => e \in contested
BY SubjectsAssumption DEF IdentitiesIInv, SignInBinds, IdentitiesTypeOK

LEMMA RegisterKeeps ==
  ASSUME IdentitiesIInv, NEW c \in Callers, Register(c)
  PROVE  IdentitiesIInv'
<1>1. PICK e \in Emails :
        users[e].state = "absent" /\ users' = [users EXCEPT ![e] = User(NoSubject, FALSE)]
  BY DEF Register
<1>2. \A p \in entered : p[2] = e => e \in contested
  BY <1>1, UnboundFact DEF IdentitiesIInv, AbsentUnbound
<1>3. entered \subseteq Subjects \X Emails /\ contested \subseteq Emails
  BY DEF IdentitiesIInv, IdentitiesTypeOK
<1> DEFINE row == User(NoSubject, FALSE)
<1>4. row \in Rows /\ row.state # "absent" /\ row.subject = NoSubject
  BY UserFact
<1>5. users' = [users EXCEPT ![e] = row] /\ Wrote(c)
      /\ UNCHANGED <<published, vouched, entered, contested>>
  BY <1>1 DEF Register
<1> HIDE DEF row
<1>6. QED
  BY <1>2, <1>3, <1>4, <1>5, EntryWriteKeeps

LEMMA VerifyAddressKeeps ==
  ASSUME IdentitiesIInv, NEW c \in Callers, VerifyAddress(c)
  PROVE  IdentitiesIInv'
<1>1. PICK e \in Emails :
        users[e].state # "absent" /\ users' = [users EXCEPT ![e].verified = TRUE]
  BY DEF VerifyAddress
<1> DEFINE row == [users[e] EXCEPT !.verified = TRUE]
<1>2. users[e] \in Rows /\ entered \subseteq Subjects \X Emails /\ contested \subseteq Emails
  BY DEF IdentitiesIInv, IdentitiesTypeOK, Rows
<1>3. row \in Rows /\ row.state # "absent" /\ row.subject = users[e].subject
  BY <1>1, <1>2 DEF Rows
<1>4. users' = [users EXCEPT ![e] = row]
  BY <1>1
<1> HIDE DEF row
<1>5. row.subject # NoSubject => <<row.subject, e>> \in vouched
        /\ \A f \in Emails \ {e} : users[f].subject # row.subject
  BY <1>3 DEF IdentitiesIInv, BindingsAreSound
<1>6. \A p \in entered : p[2] = e => row.subject = p[1] \/ e \in contested
  BY <1>3 DEF IdentitiesIInv, SignInBinds
<1>7. Wrote(c) /\ UNCHANGED <<published, vouched, entered, contested>>
  BY DEF VerifyAddress
<1>8. /\ \A p \in entered' : p[2] = e => row.subject = p[1] \/ e \in contested'
      /\ \A p \in entered' \ entered : p[2] = e
      /\ entered \subseteq entered' /\ entered' \subseteq Subjects \X Emails
      /\ contested \subseteq contested' /\ contested' \subseteq Emails
  BY <1>2, <1>6, <1>7
<1>9. QED
  BY <1>3, <1>4, <1>5, <1>7, <1>8, EntryWriteKeeps

LEMMA DisableUserKeeps ==
  ASSUME IdentitiesIInv, NEW e \in Emails, DisableUser(e)
  PROVE  IdentitiesIInv'
<1>1. users \in [Emails -> Rows]
  BY DEF IdentitiesIInv, IdentitiesTypeOK, Rows
<1>2. /\ users' \in [Emails -> Rows]
      /\ \A f \in Emails :
           /\ users'[f].subject = users[f].subject
           /\ users'[f].state = "absent" => users[f].state = "absent"
  BY <1>1 DEF DisableUser, Rows
<1>3. UNCHANGED <<published, vouched, entry, late, entered, contested>>
  BY DEF DisableUser
<1>4. IdentitiesTypeOK'
  BY <1>2, <1>3 DEF IdentitiesIInv, IdentitiesTypeOK, Rows
<1>5. Claimed'
  BY <1>3 DEF IdentitiesIInv, Claimed
<1>6. Unmoved'
  <2>1. ASSUME NEW c \in Callers, entry[c].step = "link" PROVE entry[c].email \in Emails
    BY <2>1 DEF IdentitiesIInv, Claimed, Vouched
  <2>2. QED
    BY <1>2, <1>3, <2>1 DEF IdentitiesIInv, Unmoved
<1>7. AbsentUnbound' /\ LinkedExists' /\ BindingsAreSound'
  <2>1. ASSUME NEW c \in Callers, entry[c].step = "link"
        PROVE  entry[c].email \in Emails /\ users[entry[c].email].state # "absent"
    BY <2>1 DEF IdentitiesIInv, LinkedExists, Claimed, Vouched
  <2>2. \A f \in Emails : users[f].state # "absent" => users'[f].state # "absent"
    BY <1>2
  <2>3. LinkedExists'
    BY <1>3, <2>1, <2>2 DEF LinkedExists
  <2>4. QED
    BY <1>2, <1>3, <2>3 DEF IdentitiesIInv, AbsentUnbound, BindingsAreSound
<1>8. SignInBinds'
  <2>1. \A p \in entered : p[2] \in Emails
    BY DEF IdentitiesIInv, IdentitiesTypeOK
  <2>2. QED
    BY <1>2, <1>3, <2>1 DEF IdentitiesIInv, SignInBinds
<1>9. QED
  BY <1>4, <1>5, <1>6, <1>7, <1>8 DEF IdentitiesIInv

\* The pair that enters a row e.
LEMMA EnterFact ==
  ASSUME IdentitiesIInv, NEW c \in Callers, NEW e \in Emails, Enter(c, e),
         entry[c].subject \in Subjects
  PROVE  /\ Wrote(c)
         /\ entered \subseteq entered' /\ entered' \subseteq Subjects \X Emails
         /\ contested \subseteq contested' /\ contested' \subseteq Emails
         /\ \A p \in entered' \ entered : p = <<entry[c].subject, e>>
         /\ c \in late => e \in contested'
<1>1. entered \subseteq Subjects \X Emails /\ contested \subseteq Emails
  BY DEF IdentitiesIInv, IdentitiesTypeOK
<1>2. <<entry[c].subject, e>> \in Subjects \X Emails
  OBVIOUS
<1>3. QED
  BY <1>1, <1>2 DEF Enter

LEMMA LinkKeeps ==
  ASSUME IdentitiesIInv, NEW c \in Callers, Link(c)
  PROVE  IdentitiesIInv'
<1> DEFINE e == entry[c].email
           s == entry[c].subject
<1>0. /\ e \in Emails /\ s \in Subjects /\ s # NoSubject
      /\ entry[c].step = "link" /\ (entry[c].binds => <<s, e>> \in vouched)
      /\ users[e] \in Rows /\ entry[c].binds \in BOOLEAN /\ users[e].state # "absent"
  BY SubjectsAssumption DEF Link, IdentitiesIInv, Claimed, Vouched, LinkedExists, IdentitiesTypeOK,
     Rows
<1>1. CASE ~(entry[c].binds /\ BoundElsewhere(s, e))
  <2> DEFINE row == [users[e] EXCEPT !.verified = TRUE,
                       !.subject = IF entry[c].binds THEN s ELSE users[e].subject]
  <2>1. /\ users' = [users EXCEPT ![e].verified = TRUE,
                                  ![e].subject = IF entry[c].binds THEN s ELSE @]
        /\ Enter(c, e) /\ UNCHANGED <<published, vouched>>
    BY <1>1 DEF Link
  <2>2. /\ row \in Rows /\ row.state = users[e].state
        /\ row.subject = IF entry[c].binds THEN s ELSE users[e].subject
    BY <1>0 DEF Rows
  <2>3. users' = [users EXCEPT ![e] = row]
    BY <2>1 DEF IdentitiesIInv, IdentitiesTypeOK
  <2>4. /\ Wrote(c) /\ entered \subseteq entered' /\ entered' \subseteq Subjects \X Emails
        /\ contested \subseteq contested' /\ contested' \subseteq Emails
        /\ \A p \in entered' \ entered : p = <<s, e>>
        /\ c \in late => e \in contested'
    BY <1>0, <2>1, EnterFact
  <2>5. c \notin late => users[e].subject = IF entry[c].binds THEN NoSubject ELSE s
    BY <1>0 DEF IdentitiesIInv, Unmoved
  <2> HIDE DEF row, e, s
  <2>6. row.subject # NoSubject => <<row.subject, e>> \in vouched
          /\ \A f \in Emails \ {e} : users[f].subject # row.subject
    <3>1. CASE entry[c].binds
      BY <1>0, <1>1, <2>2, <3>1 DEF BoundElsewhere
    <3>2. CASE ~entry[c].binds
      BY <1>0, <2>2, <3>2 DEF IdentitiesIInv, BindingsAreSound
    <3>3. QED
      BY <3>1, <3>2
  <2>7. ASSUME NEW p \in entered', p[2] = e PROVE row.subject = p[1] \/ e \in contested'
    <3>1. CASE c \in late
      BY <2>4, <3>1
    <3>2. CASE c \notin late /\ p \in entered
      <4>1. users[e].subject = p[1] \/ e \in contested
        BY <2>7, <3>2 DEF IdentitiesIInv, SignInBinds
      <4>2. p[1] # NoSubject
        BY <3>2, SubjectsAssumption DEF IdentitiesIInv, IdentitiesTypeOK
      <4>3. QED
        BY <2>2, <2>4, <2>5, <3>2, <4>1, <4>2
    <3>3. CASE c \notin late /\ p \notin entered
      <4>1. p[1] = s
        BY <2>4, <2>7, <3>3
      <4>2. QED
        BY <2>2, <2>5, <3>3, <4>1
    <3>4. QED
      BY <3>1, <3>2, <3>3
  <2>8. row.state # "absent"
    BY <1>0, <2>2
  <2>9. \A p \in entered' \ entered : p[2] = e
    BY <2>4
  <2>10. QED
    BY <1>0, <2>1, <2>2, <2>3, <2>4, <2>6, <2>7, <2>8, <2>9, EntryWriteKeeps
<1>2. CASE entry[c].binds /\ BoundElsewhere(s, e)
  BY <1>2, LeavingKeeps DEF Link
<1>3. QED
  BY <1>1, <1>2

LEMMA CreateKeeps ==
  ASSUME IdentitiesIInv, NEW c \in Callers, Create(c)
  PROVE  IdentitiesIInv'
<1> DEFINE e == entry[c].email
           s == entry[c].subject
           free == users[e].state = "absent" /\ ~BoundElsewhere(s, e)
<1>0. /\ e \in Emails /\ s \in Subjects /\ <<s, e>> \in vouched
  BY DEF Create, IdentitiesIInv, Claimed, Vouched
<1>1. CASE free
  <2>1. users' = [users EXCEPT ![e] = User(s, TRUE)] /\ Enter(c, e)
        /\ UNCHANGED <<published, vouched>>
    BY <1>1 DEF Create
  <2>2. User(s, TRUE) \in Rows /\ User(s, TRUE).state = "active" /\ User(s, TRUE).subject = s
    BY <1>0, UserFact
  <2>3. /\ Wrote(c) /\ entered \subseteq entered' /\ entered' \subseteq Subjects \X Emails
        /\ contested \subseteq contested' /\ contested' \subseteq Emails
        /\ \A p \in entered' \ entered : p = <<s, e>>
    BY <1>0, <2>1, EnterFact
  <2>4. \A p \in entered : p[2] = e => e \in contested
    BY <1>0, <1>1, UnboundFact DEF IdentitiesIInv, AbsentUnbound
  <2>5. \A f \in Emails \ {e} : users[f].subject # s
    BY <1>1 DEF BoundElsewhere
  <2> HIDE DEF e, s
  <2>6. \A p \in entered' : p[2] = e => User(s, TRUE).subject = p[1] \/ e \in contested'
    <3>1. ASSUME NEW p \in entered', p[2] = e
          PROVE  User(s, TRUE).subject = p[1] \/ e \in contested'
      <4>1. CASE p \in entered
        BY <2>3, <2>4, <3>1, <4>1
      <4>2. CASE p \notin entered
        <5>1. p = <<s, e>>
          BY <2>3, <3>1, <4>2
        <5>2. QED
          BY <2>2, <5>1
      <4>3. QED
        BY <4>1, <4>2
    <3>2. QED
      BY <3>1
  <2>7. \A p \in entered' \ entered : p[2] = e
    BY <2>3
  <2> DEFINE row == User(s, TRUE)
  <2>8. row \in Rows /\ row.state # "absent" /\ row.subject = s
        /\ users' = [users EXCEPT ![e] = row]
        /\ \A p \in entered' : p[2] = e => row.subject = p[1] \/ e \in contested'
    BY <2>1, <2>2, <2>6
  <2> HIDE DEF row
  <2>9. QED
    BY <1>0, <2>1, <2>3, <2>5, <2>7, <2>8, EntryWriteKeeps
<1>2. CASE ~free
  BY <1>2, LeavingKeeps DEF Create
<1>3. QED
  BY <1>1, <1>2

-----------------------------------------------------------------------------
LEMMA IdentitiesInitIInv == IdentitiesInit => IdentitiesIInv
BY OutsideFact DEF IdentitiesInit, IdentitiesIInv, IdentitiesTypeOK, Claimed, Unmoved,
   AbsentUnbound,
   LinkedExists, BindingsAreSound, SignInBinds, NoUser, Outside, Steps, Kids, Vouched

LEMMA IdentitiesNextIInv == IdentitiesIInv /\ [IdentitiesNext]_identityVars => IdentitiesIInv'
<1> SUFFICES ASSUME IdentitiesIInv, [IdentitiesNext]_identityVars PROVE IdentitiesIInv'
  OBVIOUS
<1>1. ASSUME NEW c \in Callers, GiveUp(c) PROVE IdentitiesIInv'
  BY <1>1, LeavingKeeps DEF GiveUp
<1>2. CASE PublishKey
  BY <1>2 DEF PublishKey, IdentitiesIInv, IdentitiesTypeOK, Claimed, Unmoved, AbsentUnbound,
     LinkedExists, BindingsAreSound, SignInBinds
<1>3. CASE UNCHANGED identityVars
  BY <1>3 DEF identityVars, IdentitiesIInv, IdentitiesTypeOK, Claimed, Unmoved, AbsentUnbound,
     LinkedExists, BindingsAreSound, SignInBinds
<1>4. QED
  BY <1>1, <1>2, <1>3, RegisterKeeps, VerifyAddressKeeps, ExchangeCodeKeeps, FetchKeysKeeps,
     FindKeeps, LinkKeeps, CreateKeeps, DisableUserKeeps DEF IdentitiesNext

\* The invariant holds of every users table.
THEOREM IdentitiesInvariance == IdentitiesSpec => []IdentitiesIInv
BY IdentitiesInitIInv, IdentitiesNextIInv, PTL DEF IdentitiesSpec

-----------------------------------------------------------------------------
\* The rows and the sign-ins keep their types.
THEOREM IdentitiesTypeCorrect == IdentitiesSpec => []IdentitiesTypeOK
<1>1. IdentitiesIInv => IdentitiesTypeOK
  BY DEF IdentitiesIInv
<1>2. QED
  BY <1>1, IdentitiesInvariance, PTL

\* However addresses move between identities: a row is bound only to an identity
\* whose provider stood for its address, and no identity to two rows.
THEOREM BindingsBacked == IdentitiesSpec => []BindingsAreSound
<1>1. IdentitiesIInv => BindingsAreSound
  BY DEF IdentitiesIInv
<1>2. QED
  BY <1>1, IdentitiesInvariance, PTL

\* However sign-ins interleave, a row somebody signed in to changes hands only
\* through a sign-in that was overtaken between its SELECT and its write.
THEOREM AccountsKeepTheirOwner == IdentitiesSpec => []SignInBinds
<1>1. IdentitiesIInv => SignInBinds
  BY DEF IdentitiesIInv
<1>2. QED
  BY <1>1, IdentitiesInvariance, PTL
=============================================================================
