------------------------------ MODULE Sessions ------------------------------
(***************************************************************************)
(* One user's credentials (services/auth_service.py, routers/auth.py): the *)
(* password, the refresh tokens and their rotation, and the one-time       *)
(* tokens sent by email.                                                   *)
(*                                                                         *)
(* No handler locks a row.  A SELECT and what is decided from it is one    *)
(* step; the writes of a transaction and its COMMIT are the next, whatever *)
(* was written in between.  A worker may die between any two steps.        *)
(*                                                                         *)
(* Lifetimes need no clock: a token past its expiry answers an error and   *)
(* changes nothing, as if it had not been presented; nor does a disabled   *)
(* account, which no code here disables, let anyone in.                    *)
(***************************************************************************)
EXTENDS Integers, Sequences, FiniteSets

CONSTANTS
  Visitors,      \* concurrent calls about this user
  MaxTokens,     \* bound on the refresh tokens
  MaxMails,      \* bound on the email tokens
  MaxPasswords   \* bound on the password changes

ASSUME VisitorsAssumption == IsFiniteSet(Visitors)
ASSUME SessionBoundsAssumption ==
  MaxTokens \in Nat /\ MaxMails \in Nat /\ MaxPasswords \in Nat

VARIABLES
  account,      \* the state of the user's row
  password,     \* how often the password was changed
  tokens,       \* the refresh_tokens rows, oldest first
  mails,        \* the email_tokens rows, oldest first
  visit,        \* the progress of each call
  overtaken,    \* history: calls that another call wrote under
  interrupted   \* history: a worker died before it revoked the sessions

sessionVars ==
  <<account, password, tokens, mails, visit, overtaken, interrupted>>

-----------------------------------------------------------------------------
Purposes == {"verify_email", "reset_password"}
Stages == {"idle", "issue", "burn", "replace", "setpw", "revoke", "mail", "consume"}

Home == [stage |-> "idle", token |-> 0, mail |-> 0, pw |-> 0, purpose |-> "verify_email"]

\* family: the first token of the rotation chain.  pw: the password the login
\* gave.  raced: written by a call that another one overtook, or descended
\* from such a token.
Token(family, pw, raced) ==
  [live |-> TRUE, family |-> family, pw |-> pw, raced |-> raced]

Mail(purpose) ==
  [purpose |-> purpose, used |-> FALSE, spends |-> 0, raced |-> FALSE]

SessionsTypeOK ==
  /\ account \in {"active", "deleted"}
  /\ password \in 0 .. MaxPasswords
  /\ tokens \in Seq([live : BOOLEAN, family : Nat, pw : Nat, raced : BOOLEAN])
  /\ mails \in Seq([purpose : Purposes, used : BOOLEAN, spends : Nat, raced : BOOLEAN])
  /\ visit \in [Visitors -> [stage : Stages, token : Nat, mail : Nat, pw : Nat,
                             purpose : Purposes]]
  /\ overtaken \subseteq Visitors
  /\ interrupted \in BOOLEAN

Visiting == {c \in Visitors : visit[c].stage # "idle"}
AtStage(c, stage) == visit[c].stage = stage
Advance(c, stage) == visit' = [visit EXCEPT ![c] = [Home EXCEPT !.stage = stage]]
Answer(c) == visit' = [visit EXCEPT ![c] = Home]

\* Everyone else who has read and not yet written decides on stale data.
Overtake(c) == overtaken' = (overtaken \cup Visiting) \ {c}
Unseen(c) == overtaken' = overtaken \ {c}

SessionsInit ==
  /\ account = "active"
  /\ password = 0
  /\ tokens = <<>>
  /\ mails = <<>>
  /\ visit = [c \in Visitors |-> Home]
  /\ overtaken = {}
  /\ interrupted = FALSE

-----------------------------------------------------------------------------
\* login: authenticate_user found the user active and the password right; any
\* other outcome answers 401 and writes nothing here.
Login(c) ==
  /\ AtStage(c, "idle")
  /\ account = "active"
  /\ visit' = [visit EXCEPT ![c] = [Home EXCEPT !.stage = "issue", !.pw = password]]
  /\ UNCHANGED <<account, password, tokens, mails, overtaken, interrupted>>

\* A variant that does not mind a row without a user.
IssueOrphan(c) ==
  /\ AtStage(c, "issue")
  /\ Len(tokens) < MaxTokens
  /\ tokens' = Append(tokens, Token(Len(tokens) + 1, visit[c].pw, c \in overtaken))
  /\ Overtake(c) /\ Answer(c)
  /\ UNCHANGED <<account, password, mails, interrupted>>

\* issue_tokens: the INSERT, which the foreign key refuses without a user.
Issue(c) ==
  /\ AtStage(c, "issue")
  /\ Len(tokens) < MaxTokens
  /\ \/ /\ account # "deleted"
        /\ tokens' = Append(tokens, Token(Len(tokens) + 1, visit[c].pw, c \in overtaken))
        /\ Overtake(c)
     \/ /\ account = "deleted"
        /\ Unseen(c)
        /\ UNCHANGED tokens
  /\ Answer(c)
  /\ UNCHANGED <<account, password, mails, interrupted>>

\* A variant that accepts a token already replaced.
PresentAny(c) ==
  /\ AtStage(c, "idle")
  /\ account = "active"
  /\ \E t \in DOMAIN tokens :
       visit' = [visit EXCEPT ![c] = [Home EXCEPT !.stage = "replace", !.token = t]]
  /\ UNCHANGED <<account, password, tokens, mails, overtaken, interrupted>>

\* rotate_refresh_token: the row and its user are read.  A revoked token is a
\* replay; an expired one, or an inactive user, answers 401.
Present(c) ==
  /\ AtStage(c, "idle")
  /\ \E t \in DOMAIN tokens :
       \E stage \in {"burn", "replace"} :
         /\ \/ stage = "burn" /\ ~tokens[t].live
            \/ stage = "replace" /\ tokens[t].live /\ account = "active"
         /\ visit' = [visit EXCEPT ![c] = [Home EXCEPT !.stage = stage, !.token = t]]
  /\ UNCHANGED <<account, password, tokens, mails, overtaken, interrupted>>

RevokedTokens == [t \in DOMAIN tokens |-> [tokens[t] EXCEPT !.live = FALSE]]

\* The answer to a replay: every session of the user is revoked.
Burn(c) ==
  /\ AtStage(c, "burn")
  /\ tokens' = RevokedTokens
  /\ Overtake(c) /\ Answer(c)
  /\ UNCHANGED <<account, password, mails, interrupted>>

\* rotate_refresh_token: INSERT the successor, UPDATE the old row by its id,
\* COMMIT.  The user, and with it the row, may be gone: the commit fails.
Replace(c) ==
  LET t == visit[c].token IN
  /\ AtStage(c, "replace")
  /\ Len(tokens) < MaxTokens
  /\ \/ /\ t \in DOMAIN tokens
        /\ tokens' = Append([tokens EXCEPT ![t].live = FALSE],
             Token(tokens[t].family, tokens[t].pw, tokens[t].raced \/ c \in overtaken))
        /\ Overtake(c)
     \/ /\ t \notin DOMAIN tokens
        /\ Unseen(c)
        /\ UNCHANGED tokens
  /\ Answer(c)
  /\ UNCHANGED <<account, password, mails, interrupted>>

\* logout: revoke_refresh_token, one conditional UPDATE.
Logout(c) ==
  /\ AtStage(c, "idle")
  /\ \E t \in DOMAIN tokens :
       /\ tokens[t].live
       /\ tokens' = [tokens EXCEPT ![t].live = FALSE]
  /\ Overtake(c)
  /\ UNCHANGED <<account, password, mails, visit, interrupted>>

-----------------------------------------------------------------------------
\* change_password: the current password was right when the user was read.
BeginChange(c) ==
  /\ AtStage(c, "idle")
  /\ account = "active"
  /\ Advance(c, "setpw")
  /\ UNCHANGED <<account, password, tokens, mails, overtaken, interrupted>>

\* change_password, confirm_password_reset: the UPDATE, a transaction of its
\* own; of a deleted user it changes no row.
SetPassword(c) ==
  /\ AtStage(c, "setpw")
  /\ password < MaxPasswords
  /\ password' = IF account = "deleted" THEN password ELSE password + 1
  /\ Overtake(c)
  /\ Advance(c, "revoke")
  /\ UNCHANGED <<account, tokens, mails, interrupted>>

\* A variant that leaves the sessions alone.
RevokeNone(c) ==
  /\ AtStage(c, "revoke")
  /\ Overtake(c) /\ Answer(c)
  /\ UNCHANGED <<account, password, tokens, mails, interrupted>>

\* revoke_all_user_tokens, in the next transaction.
RevokeAll(c) ==
  /\ AtStage(c, "revoke")
  /\ tokens' = RevokedTokens
  /\ Overtake(c) /\ Answer(c)
  /\ UNCHANGED <<account, password, mails, interrupted>>

\* register, request_password_reset: the user was found; a token follows.
RequestMail(c) ==
  /\ AtStage(c, "idle")
  /\ account # "deleted"
  /\ \E purpose \in Purposes :
       visit' = [visit EXCEPT ![c] = [Home EXCEPT !.stage = "mail", !.purpose = purpose]]
  /\ UNCHANGED <<account, password, tokens, mails, overtaken, interrupted>>

\* create_email_token: the INSERT.  Older tokens stay valid.
CreateMail(c) ==
  /\ AtStage(c, "mail")
  /\ Len(mails) < MaxMails
  /\ \/ /\ account # "deleted"
        /\ mails' = Append(mails, Mail(visit[c].purpose))
        /\ Overtake(c)
     \/ /\ account = "deleted"
        /\ Unseen(c)
        /\ UNCHANGED mails
  /\ Answer(c)
  /\ UNCHANGED <<account, password, tokens, interrupted>>

\* A variant that takes a used token.
ReadMailUsed(c) ==
  /\ AtStage(c, "idle")
  /\ \E e \in DOMAIN mails :
       visit' = [visit EXCEPT ![c] = [Home EXCEPT !.stage = "consume", !.mail = e]]
  /\ UNCHANGED <<account, password, tokens, mails, overtaken, interrupted>>

\* consume_email_token: the row is read; used or expired answers 400.
ReadMail(c) ==
  /\ AtStage(c, "idle")
  /\ \E e \in DOMAIN mails :
       /\ ~mails[e].used
       /\ visit' = [visit EXCEPT ![c] = [Home EXCEPT !.stage = "consume", !.mail = e]]
  /\ UNCHANGED <<account, password, tokens, mails, overtaken, interrupted>>

\* consume_email_token: used_at is set by id and committed, whether or not it
\* was set meanwhile; if the row is gone the commit fails.  What verify_email
\* does next, to the users row alone, is Identities' VerifyAddress.
Consume(c) ==
  LET e == visit[c].mail IN
  /\ AtStage(c, "consume")
  /\ \/ /\ e \in DOMAIN mails
        /\ mails' = [mails EXCEPT ![e].used = TRUE, ![e].spends = @ + 1,
                                  ![e].raced = @ \/ c \in overtaken]
        /\ Overtake(c)
        /\ IF mails[e].purpose = "verify_email" THEN Answer(c) ELSE Advance(c, "setpw")
     \/ /\ e \notin DOMAIN mails
        /\ Unseen(c) /\ Answer(c)
        /\ UNCHANGED mails
  /\ UNCHANGED <<account, password, tokens, interrupted>>

-----------------------------------------------------------------------------
\* A worker dies between two statements; what it committed stays.
Abandon(c) ==
  /\ ~AtStage(c, "idle")
  /\ interrupted' = (interrupted \/ AtStage(c, "revoke"))
  /\ Unseen(c) /\ Answer(c)
  /\ UNCHANGED <<account, password, tokens, mails>>

\* delete_me's transaction: tokens, email tokens and the user.
DeleteUser(c) ==
  /\ AtStage(c, "idle")
  /\ account = "active"
  /\ account' = "deleted"
  /\ tokens' = <<>>
  /\ mails' = <<>>
  /\ Overtake(c)
  /\ UNCHANGED <<password, visit, interrupted>>

SessionsNext ==
  \E c \in Visitors :
    \/ Login(c) \/ Issue(c) \/ Present(c) \/ Burn(c) \/ Replace(c) \/ Logout(c)
    \/ BeginChange(c) \/ SetPassword(c) \/ RevokeAll(c)
    \/ RequestMail(c) \/ CreateMail(c) \/ ReadMail(c) \/ Consume(c)
    \/ Abandon(c) \/ DeleteUser(c)

SessionsSpec == SessionsInit /\ [][SessionsNext]_sessionVars

-----------------------------------------------------------------------------
(* Properties *)

\* A new password ends the sessions of the old one (change_password and
\* confirm_password_reset): a live token that was obtained with an older
\* password is about to be revoked, or its worker died first, or some call of
\* its chain was overtaken between its SELECT and its INSERT.
SessionsFollowPassword ==
  \A t \in DOMAIN tokens :
    tokens[t].live /\ tokens[t].pw # password =>
      \/ tokens[t].raced
      \/ interrupted
      \/ \E c \in Visitors : AtStage(c, "revoke")

\* A refresh token is replaced, never copied (rotate_refresh_token): of one
\* login at most one token is alive, unless a rotation of it was overtaken.
OneLineage ==
  \A s, t \in DOMAIN tokens :
    tokens[s].live /\ tokens[t].live /\ tokens[s].family = tokens[t].family /\ s # t
      => tokens[s].raced \/ tokens[t].raced

\* A token sent by email works once (consume_email_token), unless the call
\* that spent it was overtaken.
MailSpentOnce == \A e \in DOMAIN mails : mails[e].spends > 1 => mails[e].raced

\* Nobody holds a credential of a deleted account: a call under way while the
\* user is deleted leaves no token behind (models/token.py's foreign keys).
DeletedHoldsNothing == account = "deleted" => tokens = <<>> /\ mails = <<>>
=============================================================================
