---------------------------- MODULE SessionsProofs ----------------------------
(***************************************************************************)
(* Proofs about Sessions, for every number of concurrent calls and every   *)
(* bound.  Fresh is the heart of the invariant: a call that nobody wrote   *)
(* under still sees, when it comes to write, what it read.                 *)
(***************************************************************************)
EXTENDS Sessions, SequenceTheorems, TLAPS

TokenRows == [live : BOOLEAN, family : Nat, pw : Nat, raced : BOOLEAN]
MailRows == [purpose : Purposes, used : BOOLEAN, spends : Nat, raced : BOOLEAN]

\* What a call read is still so, if it was not overtaken.
Fresh ==
  \A c \in Visitors \ overtaken :
    /\ AtStage(c, "issue") => visit[c].pw = password
    /\ AtStage(c, "replace") =>
         visit[c].token \in DOMAIN tokens /\ tokens[visit[c].token].live
    /\ AtStage(c, "consume") =>
         visit[c].mail \in DOMAIN mails /\ ~mails[visit[c].mail].used

\* A family is named after one of the tokens there are.
FamiliesKnown == \A t \in DOMAIN tokens : tokens[t].family <= Len(tokens)

SpendsCounted == \A e \in DOMAIN mails : ~mails[e].used => mails[e].spends = 0

SessionsIInv ==
  /\ SessionsTypeOK
  /\ Fresh
  /\ FamiliesKnown
  /\ SpendsCounted
  /\ SessionsFollowPassword
  /\ OneLineage
  /\ MailSpentOnce
  /\ DeletedHoldsNothing

-----------------------------------------------------------------------------
(* The writes *)

\* A token added at the end.
LEMMA PushFact ==
  ASSUME NEW S, NEW rows \in Seq(S), NEW row \in S
  PROVE  /\ Append(rows, row) \in Seq(S)
         /\ DOMAIN Append(rows, row) = DOMAIN rows \cup {Len(rows) + 1}
         /\ Len(Append(rows, row)) = Len(rows) + 1
         /\ DOMAIN rows = 1 .. Len(rows)
         /\ Len(rows) \in Nat
         /\ Append(rows, row)[Len(rows) + 1] = row
         /\ \A i \in DOMAIN rows : Append(rows, row)[i] = rows[i]
OBVIOUS

\* The rows once token t is revoked.
Killing(rows, t) == [rows EXCEPT ![t].live = FALSE]

\* A token revoked.
LEMMA KillFact ==
  ASSUME NEW rows \in Seq(TokenRows), NEW t \in DOMAIN rows
  PROVE  /\ Killing(rows, t) \in Seq(TokenRows)
         /\ DOMAIN Killing(rows, t) = DOMAIN rows
         /\ Len(Killing(rows, t)) = Len(rows)
         /\ \A s \in DOMAIN rows :
              /\ Killing(rows, t)[s].family = rows[s].family
              /\ Killing(rows, t)[s].pw = rows[s].pw
              /\ Killing(rows, t)[s].raced = rows[s].raced
              /\ Killing(rows, t)[s].live = (rows[s].live /\ s # t)
<1>1. DOMAIN rows = 1 .. Len(rows) /\ rows[t] \in TokenRows
  OBVIOUS
<1>2. [rows[t] EXCEPT !.live = FALSE] \in TokenRows
  BY <1>1 DEF TokenRows
<1>3. Killing(rows, t) = [rows EXCEPT ![t] = [rows[t] EXCEPT !.live = FALSE]]
  BY DEF Killing
<1>4. /\ Killing(rows, t) \in Seq(TokenRows)
      /\ Len(Killing(rows, t)) = Len(rows)
  BY <1>1, <1>2, <1>3, ExceptSeq
<1>5. ASSUME NEW s \in DOMAIN rows
      PROVE  /\ Killing(rows, t)[s].family = rows[s].family
             /\ Killing(rows, t)[s].pw = rows[s].pw
             /\ Killing(rows, t)[s].raced = rows[s].raced
             /\ Killing(rows, t)[s].live = (rows[s].live /\ s # t)
  <2>1. rows[s] \in TokenRows
    OBVIOUS
  <2>2. QED
    BY <1>1, <2>1 DEF TokenRows, Killing
<1>6. QED
  BY <1>4, <1>5

\* All tokens revoked.
LEMMA RevokedFact ==
  ASSUME tokens \in Seq(TokenRows)
  PROVE  /\ RevokedTokens \in Seq(TokenRows)
         /\ DOMAIN RevokedTokens = DOMAIN tokens
         /\ Len(RevokedTokens) = Len(tokens)
         /\ \A t \in DOMAIN tokens :
              /\ ~RevokedTokens[t].live
              /\ RevokedTokens[t].family = tokens[t].family
<1>1. DOMAIN tokens = 1 .. Len(tokens) /\ Len(tokens) \in Nat
  OBVIOUS
<1>2. \A t \in DOMAIN tokens :
        /\ RevokedTokens[t] = [tokens[t] EXCEPT !.live = FALSE]
        /\ tokens[t] \in TokenRows
  BY DEF RevokedTokens
<1>3. \A t \in DOMAIN tokens :
        RevokedTokens[t] \in TokenRows /\ ~RevokedTokens[t].live
          /\ RevokedTokens[t].family = tokens[t].family
  BY <1>2 DEF TokenRows
<1>4. RevokedTokens \in [1 .. Len(tokens) -> TokenRows]
  BY <1>1, <1>3 DEF RevokedTokens
<1>5. RevokedTokens \in Seq(TokenRows) /\ Len(RevokedTokens) = Len(tokens)
  BY <1>1, <1>4, SeqDef, LenProperties
<1>6. QED
  BY <1>3, <1>5 DEF RevokedTokens

LEMMA FamilyFact ==
  ASSUME tokens \in Seq(TokenRows), FamiliesKnown
  PROVE  \A t \in DOMAIN tokens : tokens[t].family \in Nat /\ tokens[t].family <= Len(tokens)
<1>1. \A t \in DOMAIN tokens : tokens[t] \in TokenRows
  BY LenProperties
<1>2. QED
  BY <1>1 DEF FamiliesKnown, TokenRows

-----------------------------------------------------------------------------
(* The steps that write no row *)

\* The progress of a call.
Calls == [stage : Stages, token : Nat, mail : Nat, pw : Nat, purpose : Purposes]

LEMMA HomeFact == Home \in Calls /\ Home.stage = "idle"
BY DEF Home, Calls, Stages, Purposes

\* A call that decides on what it just read.
LEMMA ReadingKeeps ==
  ASSUME SessionsIInv, NEW c \in Visitors, NEW v \in Calls,
         visit' = [visit EXCEPT ![c] = v],
         UNCHANGED <<account, password, tokens, mails>>,
         overtaken' \in {overtaken, overtaken \ {c}},
         interrupted' \in BOOLEAN,
         interrupted => interrupted',
         AtStage(c, "revoke") => interrupted',
         v.stage = "issue" => v.pw = password,
         v.stage = "replace" => v.token \in DOMAIN tokens /\ tokens[v.token].live,
         v.stage = "consume" => v.mail \in DOMAIN mails /\ ~mails[v.mail].used
  PROVE  SessionsIInv'
<1>1. SessionsTypeOK'
  BY DEF SessionsIInv, SessionsTypeOK, Calls
<1>2. Fresh'
  <2>1. ASSUME NEW d \in Visitors \ overtaken', d # c
        PROVE  visit'[d] = visit[d] /\ d \notin overtaken
    BY <2>1 DEF SessionsIInv, SessionsTypeOK
  <2>2. visit'[c] = v
    BY DEF SessionsIInv, SessionsTypeOK
  <2>3. QED
    BY <2>1, <2>2 DEF SessionsIInv, Fresh, AtStage
<1>3. FamiliesKnown' /\ SpendsCounted' /\ OneLineage' /\ MailSpentOnce' /\ DeletedHoldsNothing'
  BY DEF SessionsIInv, FamiliesKnown, SpendsCounted, OneLineage, MailSpentOnce, DeletedHoldsNothing
<1>4. SessionsFollowPassword'
  <2>1. ASSUME NEW d \in Visitors, AtStage(d, "revoke"), ~interrupted'
        PROVE  AtStage(d, "revoke")'
    BY <2>1 DEF AtStage, SessionsIInv, SessionsTypeOK
  <2>2. QED
    BY <2>1 DEF SessionsIInv, SessionsFollowPassword
<1>5. QED
  BY <1>1, <1>2, <1>3, <1>4 DEF SessionsIInv

\* A read that leaves the history alone.
LEMMA ReadsKeep ==
  ASSUME SessionsIInv, NEW c \in Visitors,
         Login(c) \/ Present(c) \/ BeginChange(c) \/ RequestMail(c) \/ ReadMail(c)
  PROVE  SessionsIInv'
<1>0. interrupted \in BOOLEAN /\ password \in Nat /\ tokens \in Seq(TokenRows)
      /\ mails \in Seq(MailRows)
  BY SessionBoundsAssumption DEF SessionsIInv, SessionsTypeOK, TokenRows, MailRows
<1>1. CASE Login(c)
  <2>1. [Home EXCEPT !.stage = "issue", !.pw = password] \in Calls
    BY <1>0 DEF Home, Calls, Stages, Purposes
  <2>2. QED
    BY <1>0, <1>1, <2>1, ReadingKeeps DEF Login, AtStage, Home
<1>2. CASE Present(c)
  <2>1. PICK t \in DOMAIN tokens, stage \in {"burn", "replace"} :
          /\ stage = "replace" => tokens[t].live
          /\ visit' = [visit EXCEPT ![c] = [Home EXCEPT !.stage = stage, !.token = t]]
    BY <1>2 DEF Present
  <2> t \in Nat
    BY <1>0, LenProperties
  <2>2. [Home EXCEPT !.stage = stage, !.token = t] \in Calls
    BY <1>0, <2>1 DEF Home, Calls, Stages, Purposes
  <2>3. QED
    BY <1>0, <1>2, <2>1, <2>2, ReadingKeeps DEF Present, AtStage, Home
<1>3. CASE BeginChange(c)
  <2>1. [Home EXCEPT !.stage = "setpw"] \in Calls
    BY DEF Home, Calls, Stages, Purposes
  <2>2. QED
    BY <1>0, <1>3, <2>1, ReadingKeeps DEF BeginChange, Advance, AtStage, Home
<1>4. CASE RequestMail(c)
  <2>1. PICK purpose \in Purposes :
          visit' = [visit EXCEPT ![c] = [Home EXCEPT !.stage = "mail", !.purpose = purpose]]
    BY <1>4 DEF RequestMail
  <2>2. [Home EXCEPT !.stage = "mail", !.purpose = purpose] \in Calls
    BY <2>1 DEF Home, Calls, Stages, Purposes
  <2>3. QED
    BY <1>0, <1>4, <2>1, <2>2, ReadingKeeps DEF RequestMail, AtStage, Home
<1>5. CASE ReadMail(c)
  <2>1. PICK e \in DOMAIN mails :
          /\ ~mails[e].used
          /\ visit' = [visit EXCEPT ![c] = [Home EXCEPT !.stage = "consume", !.mail = e]]
    BY <1>5 DEF ReadMail
  <2> e \in Nat
    BY <1>0, LenProperties
  <2>2. [Home EXCEPT !.stage = "consume", !.mail = e] \in Calls
    BY <1>0, <2>1 DEF Home, Calls, Stages, Purposes
  <2>3. QED
    BY <1>0, <1>5, <2>1, <2>2, ReadingKeeps DEF ReadMail, AtStage, Home
<1>6. QED
  BY <1>1, <1>2, <1>3, <1>4, <1>5

LEMMA AbandonKeeps ==
  ASSUME SessionsIInv, NEW c \in Visitors, Abandon(c)
  PROVE  SessionsIInv'
<1>1. interrupted' \in BOOLEAN /\ (interrupted => interrupted')
      /\ (AtStage(c, "revoke") => interrupted')
  BY DEF Abandon, AtStage, SessionsIInv, SessionsTypeOK
<1>2. QED
  BY <1>1, HomeFact, ReadingKeeps DEF Abandon, Unseen, Answer

-----------------------------------------------------------------------------
(* The steps that write *)

\* A call that wrote goes on with nothing read, and no other call is fresh.
LEMMA WritingKeeps ==
  ASSUME SessionsIInv, NEW c \in Visitors, NEW v \in Calls,
         visit' = [visit EXCEPT ![c] = v],
         v.stage \in {"idle", "setpw", "revoke"},
         Overtake(c)
  PROVE  /\ visit' \in [Visitors -> Calls]
         /\ overtaken' \subseteq Visitors
         /\ Fresh'
         /\ \A d \in Visitors \ {c} : visit'[d] = visit[d]
<1>1. visit \in [Visitors -> Calls] /\ overtaken \subseteq Visitors
  BY DEF SessionsIInv, SessionsTypeOK, Calls
<1>2. /\ visit' \in [Visitors -> Calls] /\ visit'[c] = v
      /\ \A d \in Visitors \ {c} : visit'[d] = visit[d]
  BY <1>1
<1>3. overtaken' \subseteq Visitors
  BY <1>1 DEF Overtake, Visiting
<1>4. \A d \in Visitors \ overtaken' : visit'[d].stage \in {"idle", "setpw", "revoke"}
  BY <1>2 DEF Overtake, Visiting
<1>5. QED
  BY <1>2, <1>3, <1>4 DEF Fresh, AtStage

\* A call that finds its user gone writes nothing.
LEMMA NoWriteKeeps ==
  ASSUME SessionsIInv, NEW c \in Visitors, ~AtStage(c, "revoke"), Unseen(c), Answer(c),
         UNCHANGED <<account, password, tokens, mails, interrupted>>
  PROVE  SessionsIInv'
<1>1. interrupted \in BOOLEAN
  BY DEF SessionsIInv, SessionsTypeOK
<1>2. QED
  BY <1>1, HomeFact, ReadingKeeps DEF Unseen, Answer

LEMMA RevokingKeeps ==
  ASSUME SessionsIInv, NEW c \in Visitors, tokens' = RevokedTokens, Overtake(c), Answer(c),
         UNCHANGED <<account, password, mails, interrupted>>
  PROVE  SessionsIInv'
<1>1. /\ visit' \in [Visitors -> Calls] /\ overtaken' \subseteq Visitors /\ Fresh'
  BY HomeFact, WritingKeeps DEF Answer
<1>2. /\ tokens' \in Seq(TokenRows) /\ DOMAIN tokens' = DOMAIN tokens
      /\ Len(tokens') = Len(tokens)
      /\ \A t \in DOMAIN tokens : ~tokens'[t].live /\ tokens'[t].family = tokens[t].family
  BY RevokedFact DEF SessionsIInv, SessionsTypeOK, TokenRows
<1>3. SessionsTypeOK'
  BY <1>1, <1>2 DEF SessionsIInv, SessionsTypeOK, TokenRows, Calls
<1>4. FamiliesKnown' /\ SpendsCounted' /\ MailSpentOnce'
  BY <1>2 DEF SessionsIInv, FamiliesKnown, SpendsCounted, MailSpentOnce
<1>5. OneLineage' /\ SessionsFollowPassword'
  BY <1>2 DEF OneLineage, SessionsFollowPassword
<1>6. DeletedHoldsNothing'
  BY DEF SessionsIInv, DeletedHoldsNothing, RevokedTokens
<1>7. QED
  BY <1>1, <1>3, <1>4, <1>5, <1>6 DEF SessionsIInv

\* A call about to revoke still is, unless it is the one that moved on.
LEMMA StillRevoking ==
  ASSUME NEW c \in Visitors, ~AtStage(c, "revoke"),
         \A d \in Visitors \ {c} : visit'[d] = visit[d],
         \E d \in Visitors : AtStage(d, "revoke")
  PROVE  \E d \in Visitors : AtStage(d, "revoke")'
BY DEF AtStage

LEMMA IssueKeeps ==
  ASSUME SessionsIInv, NEW c \in Visitors, Issue(c)
  PROVE  SessionsIInv'
<1>1. CASE account = "deleted"
  BY <1>1, NoWriteKeeps DEF Issue, AtStage
<1>2. CASE account # "deleted"
  <2> DEFINE n == Len(tokens) + 1
             new == Token(n, visit[c].pw, c \in overtaken)
  <2>1. tokens' = Append(tokens, new) /\ Overtake(c) /\ Answer(c)
        /\ UNCHANGED <<account, password, mails, interrupted>> /\ AtStage(c, "issue")
    BY <1>2 DEF Issue
  <2>2. /\ visit' \in [Visitors -> Calls] /\ overtaken' \subseteq Visitors /\ Fresh'
        /\ \A d \in Visitors \ {c} : visit'[d] = visit[d]
    BY <2>1, HomeFact, WritingKeeps DEF Answer
  <2>3. tokens \in Seq(TokenRows) /\ n \in Nat
    BY LenProperties DEF SessionsIInv, SessionsTypeOK, TokenRows
  <2>4. new \in TokenRows
    BY <2>3 DEF Token, TokenRows, SessionsIInv, SessionsTypeOK
  <2> HIDE DEF new
  <2>5. /\ tokens' \in Seq(TokenRows) /\ DOMAIN tokens' = DOMAIN tokens \cup {n}
        /\ Len(tokens') = n /\ DOMAIN tokens = 1 .. Len(tokens) /\ Len(tokens) \in Nat
        /\ tokens'[n] = new /\ \A t \in DOMAIN tokens : tokens'[t] = tokens[t]
    BY <2>1, <2>3, <2>4, PushFact
  <2>6. new.family = n /\ new.pw = visit[c].pw /\ new.raced = (c \in overtaken)
    BY DEF new, Token
  <2>7. SessionsTypeOK'
    BY <2>1, <2>2, <2>5 DEF SessionsIInv, SessionsTypeOK, TokenRows, Calls
  <2>8. FamiliesKnown'
    <3>1. \A t \in DOMAIN tokens : tokens[t].family \in Nat /\ tokens[t].family <= Len(tokens)
      BY <2>3, FamilyFact DEF SessionsIInv
    <3>2. QED
      BY <2>3, <2>5, <2>6, <3>1 DEF FamiliesKnown
  <2>9. SpendsCounted' /\ MailSpentOnce' /\ DeletedHoldsNothing'
    BY <1>2, <2>1 DEF SessionsIInv, SpendsCounted, MailSpentOnce, DeletedHoldsNothing
  <2>10. OneLineage'
    <3>1. \A t \in DOMAIN tokens : tokens[t].family # n
      BY <2>3, <2>5 DEF SessionsIInv, FamiliesKnown, TokenRows
    <3>2. QED
      BY <2>5, <2>6, <3>1 DEF SessionsIInv, OneLineage
  <2>11. SessionsFollowPassword'
    <3>1. new.raced \/ new.pw = password
      BY <2>1, <2>6 DEF SessionsIInv, Fresh
    <3>2. ~AtStage(c, "revoke")
      BY <2>1 DEF AtStage
    <3>3. (\E d \in Visitors : AtStage(d, "revoke"))
            => \E d \in Visitors : AtStage(d, "revoke")'
      BY <2>2, <3>2, StillRevoking
    <3>4. QED
      BY <2>1, <2>5, <3>1, <3>3 DEF SessionsIInv, SessionsFollowPassword
  <2>12. QED
    BY <2>2, <2>7, <2>8, <2>9, <2>10, <2>11 DEF SessionsIInv
<1>3. QED
  BY <1>1, <1>2

LEMMA LogoutKeeps ==
  ASSUME SessionsIInv, NEW c \in Visitors, Logout(c)
  PROVE  SessionsIInv'
<1>1. PICK t \in DOMAIN tokens : tokens' = Killing(tokens, t)
  BY DEF Logout, Killing
<1>2. Overtake(c) /\ UNCHANGED <<account, password, mails, visit, interrupted>>
      /\ AtStage(c, "idle")
  BY DEF Logout
<1>3. tokens \in Seq(TokenRows)
  BY DEF SessionsIInv, SessionsTypeOK, TokenRows
<1>4. /\ tokens' \in Seq(TokenRows) /\ DOMAIN tokens' = DOMAIN tokens
      /\ Len(tokens') = Len(tokens)
      /\ \A s \in DOMAIN tokens :
           /\ tokens'[s].family = tokens[s].family /\ tokens'[s].pw = tokens[s].pw
           /\ tokens'[s].raced = tokens[s].raced
           /\ tokens'[s].live => tokens[s].live
  <2>1. /\ tokens' \in Seq(TokenRows) /\ DOMAIN tokens' = DOMAIN tokens
        /\ Len(tokens') = Len(tokens)
        /\ \A s \in DOMAIN tokens :
             /\ tokens'[s].family = tokens[s].family /\ tokens'[s].pw = tokens[s].pw
             /\ tokens'[s].raced = tokens[s].raced
             /\ tokens'[s].live = (tokens[s].live /\ s # t)
    BY <1>1, <1>3, KillFact
  <2>2. QED
    BY <2>1
<1>5. overtaken' \subseteq Visitors /\ \A d \in Visitors \ overtaken' : visit[d].stage = "idle"
  BY <1>2 DEF Overtake, Visiting, AtStage, SessionsIInv, SessionsTypeOK
<1>6. SessionsTypeOK'
  BY <1>2, <1>4, <1>5 DEF SessionsIInv, SessionsTypeOK, TokenRows
<1>7. Fresh'
  BY <1>2, <1>5 DEF Fresh, AtStage
<1>8. FamiliesKnown' /\ SpendsCounted' /\ MailSpentOnce' /\ OneLineage'
  BY <1>2, <1>4 DEF SessionsIInv, FamiliesKnown, SpendsCounted, MailSpentOnce, OneLineage
<1>9. SessionsFollowPassword'
  BY <1>2, <1>4 DEF SessionsIInv, SessionsFollowPassword, AtStage
<1>10. DeletedHoldsNothing'
  BY <1>1, <1>2 DEF SessionsIInv, DeletedHoldsNothing
<1>11. QED
  BY <1>6, <1>7, <1>8, <1>9, <1>10 DEF SessionsIInv

LEMMA ReplaceKeeps ==
  ASSUME SessionsIInv, NEW c \in Visitors, Replace(c)
  PROVE  SessionsIInv'
<1> DEFINE t == visit[c].token
<1>1. CASE t \notin DOMAIN tokens
  BY <1>1, NoWriteKeeps DEF Replace, AtStage
<1>2. CASE t \in DOMAIN tokens
  <2> DEFINE n == Len(tokens) + 1
             killed == Killing(tokens, t)
             new == Token(tokens[t].family, tokens[t].pw, tokens[t].raced \/ c \in overtaken)
  <2>1. tokens' = Append(killed, new) /\ Overtake(c) /\ Answer(c)
        /\ UNCHANGED <<account, password, mails, interrupted>> /\ AtStage(c, "replace")
    BY <1>2 DEF Replace, Killing
  <2>2. /\ visit' \in [Visitors -> Calls] /\ overtaken' \subseteq Visitors /\ Fresh'
        /\ \A d \in Visitors \ {c} : visit'[d] = visit[d]
    BY <2>1, HomeFact, WritingKeeps DEF Answer
  <2>3. tokens \in Seq(TokenRows) /\ n \in Nat /\ DOMAIN tokens = 1 .. Len(tokens)
    BY LenProperties DEF SessionsIInv, SessionsTypeOK, TokenRows
  <2>4. tokens[t] \in TokenRows
    BY <1>2, <2>3
  <2>5. /\ killed \in Seq(TokenRows) /\ DOMAIN killed = DOMAIN tokens
        /\ Len(killed) = Len(tokens)
        /\ \A s \in DOMAIN tokens :
             /\ killed[s].family = tokens[s].family
             /\ killed[s].pw = tokens[s].pw
             /\ killed[s].raced = tokens[s].raced
             /\ killed[s].live = (tokens[s].live /\ s # t)
    BY <1>2, <2>3, KillFact
  <2>6. new \in TokenRows
    BY <2>4 DEF Token, TokenRows, SessionsIInv, SessionsTypeOK
  <2>7. /\ new.family = tokens[t].family /\ new.pw = tokens[t].pw
        /\ new.raced = (tokens[t].raced \/ c \in overtaken)
    BY DEF Token
  <2>8. c \notin overtaken => tokens[t].live
    BY <2>1 DEF SessionsIInv, Fresh
  <2> HIDE DEF new, killed, t
  <2>9. /\ tokens' \in Seq(TokenRows) /\ DOMAIN tokens' = DOMAIN tokens \cup {n}
        /\ Len(tokens') = n /\ tokens'[n] = new /\ n \notin DOMAIN tokens
        /\ \A s \in DOMAIN tokens : tokens'[s] = killed[s]
    BY <2>1, <2>3, <2>5, <2>6, PushFact
  <2>10. SessionsTypeOK'
    BY <2>1, <2>2, <2>9 DEF SessionsIInv, SessionsTypeOK, TokenRows, Calls
  <2>11. FamiliesKnown'
    <3>1. \A s \in DOMAIN tokens : tokens[s].family \in Nat /\ tokens[s].family <= Len(tokens)
      BY <2>3, FamilyFact DEF SessionsIInv
    <3>2. QED
      BY <1>2, <2>3, <2>5, <2>7, <2>9, <3>1 DEF FamiliesKnown
  <2>12. SpendsCounted' /\ MailSpentOnce'
    BY <2>1 DEF SessionsIInv, SpendsCounted, MailSpentOnce
  <2>13. DeletedHoldsNothing'
    BY <1>2, <2>1, <2>3 DEF SessionsIInv, DeletedHoldsNothing
  <2>14. OneLineage'
    <3>1. ASSUME NEW s \in DOMAIN tokens, tokens'[s].live, tokens'[s].family = new.family
          PROVE  tokens'[s].raced \/ new.raced
      <4>1. tokens[s].live /\ s # t /\ tokens[s].family = tokens[t].family
            /\ tokens'[s].raced = tokens[s].raced
        BY <2>5, <2>7, <2>9, <3>1
      <4>2. QED
        BY <1>2, <2>7, <2>8, <4>1 DEF SessionsIInv, OneLineage
    <3>2. ASSUME NEW r \in DOMAIN tokens, NEW s \in DOMAIN tokens, tokens'[r].live,
                 tokens'[s].live, tokens'[r].family = tokens'[s].family, r # s
          PROVE  tokens'[r].raced \/ tokens'[s].raced
      <4>1. \A i \in {r, s} :
              /\ tokens'[i].family = tokens[i].family /\ tokens'[i].raced = tokens[i].raced
              /\ tokens'[i].live => tokens[i].live
        BY <2>5, <2>9
      <4>2. tokens[r].live /\ tokens[s].live /\ tokens[r].family = tokens[s].family
        BY <3>2, <4>1
      <4>3. tokens[r].raced \/ tokens[s].raced
        BY <3>2, <4>2 DEF SessionsIInv, OneLineage
      <4>4. QED
        BY <4>1, <4>3
    <3>3. QED
      BY <2>9, <3>1, <3>2 DEF OneLineage
  <2>15. SessionsFollowPassword'
    <3>1. ~AtStage(c, "revoke")
      BY <2>1 DEF AtStage
    <3>2. (\E d \in Visitors : AtStage(d, "revoke"))
            => \E d \in Visitors : AtStage(d, "revoke")'
      BY <2>2, <3>1, StillRevoking
    <3>3. ASSUME NEW s \in DOMAIN tokens, tokens'[s].live, tokens'[s].pw # password
          PROVE  \/ tokens'[s].raced \/ interrupted
                 \/ \E d \in Visitors : AtStage(d, "revoke")
      BY <2>5, <2>9, <3>3 DEF SessionsIInv, SessionsFollowPassword
    <3>4. new.pw # password => \/ new.raced \/ interrupted
                               \/ \E d \in Visitors : AtStage(d, "revoke")
      BY <1>2, <2>7, <2>8 DEF SessionsIInv, SessionsFollowPassword
    <3>5. QED
      BY <2>1, <2>9, <3>2, <3>3, <3>4 DEF SessionsFollowPassword
  <2>16. QED
    BY <2>2, <2>10, <2>11, <2>12, <2>13, <2>14, <2>15 DEF SessionsIInv
<1>3. QED
  BY <1>1, <1>2

LEMMA SetPasswordKeeps ==
  ASSUME SessionsIInv, NEW c \in Visitors, SetPassword(c)
  PROVE  SessionsIInv'
<1>1. [Home EXCEPT !.stage = "revoke"] \in Calls /\ [Home EXCEPT !.stage = "revoke"].stage = "revoke"
  BY DEF Home, Calls, Stages, Purposes
<1>2. visit' = [visit EXCEPT ![c] = [Home EXCEPT !.stage = "revoke"]] /\ Overtake(c)
      /\ UNCHANGED <<account, tokens, mails, interrupted>>
  BY DEF SetPassword, Advance
<1>3. /\ visit' \in [Visitors -> Calls] /\ overtaken' \subseteq Visitors /\ Fresh'
  BY <1>1, <1>2, WritingKeeps
<1>4. password' \in 0 .. MaxPasswords
  BY SessionBoundsAssumption DEF SetPassword, SessionsIInv, SessionsTypeOK
<1>5. SessionsTypeOK'
  BY <1>2, <1>3, <1>4 DEF SessionsIInv, SessionsTypeOK, Calls
<1>6. FamiliesKnown' /\ SpendsCounted' /\ OneLineage' /\ MailSpentOnce' /\ DeletedHoldsNothing'
  BY <1>2 DEF SessionsIInv, FamiliesKnown, SpendsCounted, OneLineage, MailSpentOnce,
     DeletedHoldsNothing
<1>7. AtStage(c, "revoke")'
  BY <1>1, <1>2 DEF AtStage, SessionsIInv, SessionsTypeOK
<1>8. QED
  BY <1>3, <1>5, <1>6, <1>7 DEF SessionsIInv, SessionsFollowPassword

\* A write to the email tokens alone.
LEMMA MailingKeeps ==
  ASSUME SessionsIInv, NEW c \in Visitors, NEW v \in Calls,
         visit' = [visit EXCEPT ![c] = v], v.stage \in {"idle", "setpw"}, Overtake(c),
         ~AtStage(c, "revoke"), UNCHANGED <<account, password, tokens, interrupted>>,
         mails' \in Seq(MailRows), SpendsCounted', MailSpentOnce', account # "deleted"
  PROVE  SessionsIInv'
<1>1. /\ visit' \in [Visitors -> Calls] /\ overtaken' \subseteq Visitors /\ Fresh'
      /\ \A d \in Visitors \ {c} : visit'[d] = visit[d]
  BY WritingKeeps
<1>2. SessionsTypeOK'
  BY <1>1 DEF SessionsIInv, SessionsTypeOK, MailRows, Calls
<1>3. FamiliesKnown' /\ OneLineage' /\ DeletedHoldsNothing'
  BY DEF SessionsIInv, FamiliesKnown, OneLineage, DeletedHoldsNothing
<1>4. SessionsFollowPassword'
  <2>1. (\E d \in Visitors : AtStage(d, "revoke"))
          => \E d \in Visitors : AtStage(d, "revoke")'
    BY <1>1, StillRevoking
  <2>2. QED
    BY <2>1 DEF SessionsIInv, SessionsFollowPassword
<1>5. QED
  BY <1>1, <1>2, <1>3, <1>4 DEF SessionsIInv

LEMMA CreateMailKeeps ==
  ASSUME SessionsIInv, NEW c \in Visitors, CreateMail(c)
  PROVE  SessionsIInv'
<1>1. CASE account = "deleted"
  BY <1>1, NoWriteKeeps DEF CreateMail, AtStage
<1>2. CASE account # "deleted"
  <2> DEFINE new == Mail(visit[c].purpose)
  <2>1. mails' = Append(mails, new) /\ Overtake(c) /\ Answer(c) /\ ~AtStage(c, "revoke")
        /\ UNCHANGED <<account, password, tokens, interrupted>>
    BY <1>2 DEF CreateMail, AtStage
  <2>2. mails \in Seq(MailRows)
    BY DEF SessionsIInv, SessionsTypeOK, MailRows
  <2>3. new \in MailRows /\ new.spends = 0
    BY DEF Mail, MailRows, SessionsIInv, SessionsTypeOK
  <2> HIDE DEF new
  <2>4. /\ mails' \in Seq(MailRows) /\ DOMAIN mails' = DOMAIN mails \cup {Len(mails) + 1}
        /\ mails'[Len(mails) + 1] = new /\ \A e \in DOMAIN mails : mails'[e] = mails[e]
    BY <2>1, <2>2, <2>3, PushFact
  <2>5. SpendsCounted' /\ MailSpentOnce'
    BY <2>3, <2>4 DEF SessionsIInv, SpendsCounted, MailSpentOnce
  <2>6. QED
    BY <1>2, <2>1, <2>4, <2>5, HomeFact, MailingKeeps DEF Answer
<1>3. QED
  BY <1>1, <1>2

LEMMA ConsumeKeeps ==
  ASSUME SessionsIInv, NEW c \in Visitors, Consume(c)
  PROVE  SessionsIInv'
<1> DEFINE e == visit[c].mail
<1>1. CASE e \notin DOMAIN mails
  BY <1>1, NoWriteKeeps DEF Consume, AtStage
<1>2. CASE e \in DOMAIN mails
  <2> DEFINE row == [mails[e] EXCEPT !.used = TRUE, !.spends = mails[e].spends + 1,
                                     !.raced = mails[e].raced \/ c \in overtaken]
  <2>1. mails' = [mails EXCEPT ![e].used = TRUE, ![e].spends = @ + 1,
                               ![e].raced = @ \/ c \in overtaken]
        /\ Overtake(c) /\ ~AtStage(c, "revoke") /\ AtStage(c, "consume")
        /\ UNCHANGED <<account, password, tokens, interrupted>>
    BY <1>2 DEF Consume, AtStage
  <2>2. mails \in Seq(MailRows) /\ DOMAIN mails = 1 .. Len(mails)
    BY LenProperties DEF SessionsIInv, SessionsTypeOK, MailRows
  <2>3. mails[e] \in MailRows
    BY <1>2, <2>2
  <2>4. row \in MailRows /\ row.used /\ row.spends = mails[e].spends + 1
        /\ row.raced = (mails[e].raced \/ c \in overtaken)
    <3>1. mails[e].spends + 1 \in Nat /\ (mails[e].raced \/ c \in overtaken) \in BOOLEAN
      BY <2>3 DEF MailRows
    <3>2. QED
      BY <2>3, <3>1 DEF MailRows
  <2>5. mails' = [mails EXCEPT ![e] = row]
    BY <1>2, <2>1, <2>2, <2>3 DEF MailRows
  <2>6. c \notin overtaken => mails[e].spends = 0
    BY <1>2, <2>1 DEF SessionsIInv, Fresh, SpendsCounted
  <2>7. PICK v \in Calls : visit' = [visit EXCEPT ![c] = v] /\ v.stage \in {"idle", "setpw"}
    <3>1. [Home EXCEPT !.stage = "setpw"] \in Calls /\ [Home EXCEPT !.stage = "setpw"].stage = "setpw"
      BY DEF Home, Calls, Stages, Purposes
    <3>2. QED
      BY <1>2, <3>1, HomeFact DEF Consume, Advance, Answer
  <2> HIDE DEF row, e
  <2>8. /\ mails' \in Seq(MailRows) /\ DOMAIN mails' = DOMAIN mails
        /\ \A f \in DOMAIN mails : mails'[f] = IF f = e THEN row ELSE mails[f]
    BY <1>2, <2>2, <2>4, <2>5, ExceptSeq, LenProperties
  <2>9. mails[e].spends \in Nat
    BY <2>3 DEF MailRows
  <2>10. SpendsCounted' /\ MailSpentOnce'
    <3>1. \A f \in DOMAIN mails \ {e} : mails'[f] = mails[f]
      BY <2>8
    <3>2. mails'[e].used /\ mails'[e].spends = mails[e].spends + 1
          /\ mails'[e].raced = (mails[e].raced \/ c \in overtaken)
      BY <1>2, <2>4, <2>8
    <3>3. mails'[e].spends > 1 => mails'[e].raced
      <4>1. CASE c \in overtaken
        BY <3>2, <4>1, Zenon
      <4>2. CASE c \notin overtaken
        BY <2>6, <3>2, <4>2
      <4>3. QED
        BY <4>1, <4>2
    <3>4. QED
      BY <2>8, <3>1, <3>2, <3>3 DEF SessionsIInv, SpendsCounted, MailSpentOnce
  <2>11. account # "deleted"
    BY <1>2, <2>2 DEF SessionsIInv, DeletedHoldsNothing
  <2>12. QED
    BY <2>1, <2>7, <2>8, <2>10, <2>11, MailingKeeps
<1>3. QED
  BY <1>1, <1>2

LEMMA DeleteUserKeeps ==
  ASSUME SessionsIInv, NEW c \in Visitors, DeleteUser(c)
  PROVE  SessionsIInv'
<1>1. overtaken' \subseteq Visitors /\ \A d \in Visitors \ overtaken' : visit[d].stage = "idle"
  BY DEF DeleteUser, Overtake, Visiting, AtStage, SessionsIInv, SessionsTypeOK
<1>2. tokens' = <<>> /\ mails' = <<>> /\ DOMAIN tokens' = {} /\ DOMAIN mails' = {}
  BY DEF DeleteUser
<1>3. SessionsTypeOK'
  BY <1>1, <1>2 DEF DeleteUser, SessionsIInv, SessionsTypeOK
<1>4. Fresh'
  BY <1>1 DEF DeleteUser, Fresh, AtStage
<1>5. /\ FamiliesKnown' /\ SpendsCounted' /\ OneLineage' /\ MailSpentOnce'
      /\ SessionsFollowPassword' /\ DeletedHoldsNothing'
  BY <1>2 DEF FamiliesKnown, SpendsCounted, OneLineage, MailSpentOnce,
              SessionsFollowPassword, DeletedHoldsNothing
<1>6. QED
  BY <1>3, <1>4, <1>5 DEF SessionsIInv

-----------------------------------------------------------------------------
LEMMA SessionsInitIInv == SessionsInit => SessionsIInv
<1> SUFFICES ASSUME SessionsInit PROVE SessionsIInv
  OBVIOUS
<1>1. visit \in [Visitors -> Calls] /\ \A c \in Visitors : visit[c].stage = "idle"
  BY HomeFact DEF SessionsInit
<1>2. SessionsTypeOK
  <2>1. password \in 0 .. MaxPasswords
    BY SessionBoundsAssumption DEF SessionsInit
  <2>2. tokens \in Seq(TokenRows) /\ mails \in Seq(MailRows)
    BY DEF SessionsInit
  <2>3. QED
    BY <1>1, <2>1, <2>2 DEF SessionsInit, SessionsTypeOK, Calls, TokenRows, MailRows
<1>3. Fresh
  BY <1>1 DEF Fresh, AtStage
<1>4. DOMAIN tokens = {} /\ DOMAIN mails = {}
  BY DEF SessionsInit
<1>5. QED
  BY <1>2, <1>3, <1>4 DEF SessionsInit, SessionsIInv, FamiliesKnown, SpendsCounted, OneLineage,
     MailSpentOnce, SessionsFollowPassword, DeletedHoldsNothing

LEMMA SessionsNextIInv == SessionsIInv /\ [SessionsNext]_sessionVars => SessionsIInv'
<1> SUFFICES ASSUME SessionsIInv, [SessionsNext]_sessionVars PROVE SessionsIInv'
  OBVIOUS
<1>1. ASSUME NEW c \in Visitors, Burn(c) \/ RevokeAll(c) PROVE SessionsIInv'
  BY <1>1, RevokingKeeps DEF Burn, RevokeAll
<1>2. CASE UNCHANGED sessionVars
  BY <1>2 DEF sessionVars, SessionsIInv, SessionsTypeOK, Fresh, FamiliesKnown, SpendsCounted,
     SessionsFollowPassword, OneLineage, MailSpentOnce, DeletedHoldsNothing, AtStage
<1>3. QED
  BY <1>1, <1>2, ReadsKeep, AbandonKeeps, IssueKeeps, LogoutKeeps, ReplaceKeeps,
     SetPasswordKeeps, CreateMailKeeps, ConsumeKeeps, DeleteUserKeeps DEF SessionsNext

\* The invariant holds of every account.
THEOREM SessionsInvariance == SessionsSpec => []SessionsIInv
BY SessionsInitIInv, SessionsNextIInv, PTL DEF SessionsSpec

-----------------------------------------------------------------------------
\* The rows and the calls keep their types, and their bounds.
THEOREM SessionsTypeCorrect == SessionsSpec => []SessionsTypeOK
<1>1. SessionsIInv => SessionsTypeOK
  BY DEF SessionsIInv
<1>2. QED
  BY <1>1, SessionsInvariance, PTL

\* However many calls interleave: a session outlives its password only if it is
\* about to be revoked, its revocation died with a worker, or a call of its
\* chain was overtaken between its SELECT and its INSERT.
THEOREM NewPasswordEndsSessions == SessionsSpec => []SessionsFollowPassword
<1>1. SessionsIInv => SessionsFollowPassword
  BY DEF SessionsIInv
<1>2. QED
  BY <1>1, SessionsInvariance, PTL

\* Of one login two tokens are alive only if a rotation was overtaken.
THEOREM RotationKeepsOneToken == SessionsSpec => []OneLineage
<1>1. SessionsIInv => OneLineage
  BY DEF SessionsIInv
<1>2. QED
  BY <1>1, SessionsInvariance, PTL

\* An email token is spent twice only by a call that was overtaken.
THEOREM MailTokensWorkOnce == SessionsSpec => []MailSpentOnce
<1>1. SessionsIInv => MailSpentOnce
  BY DEF SessionsIInv
<1>2. QED
  BY <1>1, SessionsInvariance, PTL

\* Whatever was under way, a deleted account is left without a credential.
THEOREM DeletionEndsCredentials == SessionsSpec => []DeletedHoldsNothing
<1>1. SessionsIInv => DeletedHoldsNothing
  BY DEF SessionsIInv
<1>2. QED
  BY <1>1, SessionsInvariance, PTL
=============================================================================
