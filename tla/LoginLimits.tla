----------------------------- MODULE LoginLimits -----------------------------
(***************************************************************************)
(* The Redis fixed windows in front of the login form                      *)
(* (services/rate_limiter.py, login in routers/auth.py): every call counts *)
(* against the address it comes from, and every wrong password against the *)
(* account that is tried.                                                  *)
(*                                                                         *)
(* A key is its count, 0 when it does not exist, and the time it has left. *)
(* Each Redis command is a step of its own; a worker may die between two.  *)
(* register and oauth_login have the first window only, under other keys.  *)
(***************************************************************************)
EXTENDS Integers, FiniteSets

CONSTANTS
  Clients,    \* concurrent calls, all from one address and for one account
  IpLimit,    \* LOGIN_IP_LIMIT
  Failures,   \* LOGIN_ACCOUNT_FAILURES
  Window,     \* the length of both windows
  MaxDeaths   \* bound on the workers that die

ASSUME ClientsAssumption == IsFiniteSet(Clients)
ASSUME LimitsAssumption ==
  /\ IpLimit \in Nat \ {0} /\ Failures \in Nat \ {0} /\ Window \in Nat \ {0}
  /\ MaxDeaths \in Nat

VARIABLES
  window,  \* the two keys
  call,    \* the progress of each call
  deaths   \* workers that died so far

limitVars == <<window, call, deaths>>

-----------------------------------------------------------------------------
WindowKeys == {"ip", "account"}
Endless == -1   \* what TTL answers for a key without one
Closed == [count |-> 0, ttl |-> Endless]

CallStages == {"idle", "ttl", "expire", "check", "password", "fail", "failTtl", "failExpire"}

LimitsTypeOK ==
  /\ window \in [WindowKeys -> [count : Nat, ttl : {Endless} \cup 1 .. Window]]
  /\ call \in [Clients -> [stage : CallStages, over : BOOLEAN]]
  /\ deaths \in 0 .. MaxDeaths

At(c, stage) == call[c].stage = stage
To(c, stage) == call' = [call EXCEPT ![c].stage = stage]
Close(c) == call' = [call EXCEPT ![c] = [stage |-> "idle", over |-> FALSE]]

\* EXPIRE does nothing to a key that is gone.
ArmWindow(k) == window' = IF window[k].count = 0 THEN window ELSE [window EXCEPT ![k].ttl = Window]

LimitsInit ==
  /\ window = [k \in WindowKeys |-> Closed]
  /\ call = [c \in Clients |-> [stage |-> "idle", over |-> FALSE]]
  /\ deaths = 0

-----------------------------------------------------------------------------
\* check_rate_limit: INCR.  Counts past the limit are not told apart.
CountCall(c) ==
  LET n == window["ip"].count + 1 IN
  /\ At(c, "idle")
  /\ window' = [window EXCEPT !["ip"].count = IF n > IpLimit THEN IpLimit + 1 ELSE n]
  /\ call' = [call EXCEPT ![c] = [stage |-> "ttl", over |-> n > IpLimit]]
  /\ UNCHANGED deaths

\* check_rate_limit's answer: 429, or on to the account.
Pass(c) == IF call[c].over THEN Close(c) ELSE To(c, "check")

\* A variant that starts the window anew at every call.
ReadTtlAlways(c) ==
  /\ At(c, "ttl")
  /\ To(c, "expire")
  /\ UNCHANGED <<window, deaths>>

\* check_rate_limit: TTL, negative without one or without the key.
ReadTtl(c) ==
  /\ At(c, "ttl")
  /\ IF window["ip"].ttl < 0 THEN To(c, "expire") ELSE Pass(c)
  /\ UNCHANGED <<window, deaths>>

SetTtl(c) ==
  /\ At(c, "expire")
  /\ ArmWindow("ip")
  /\ Pass(c)
  /\ UNCHANGED deaths

\* A variant that compares with > as check_rate_limit does.
CheckAccountLate(c) ==
  /\ At(c, "check")
  /\ IF window["account"].count > Failures THEN Close(c) ELSE To(c, "password")
  /\ UNCHANGED <<window, deaths>>

\* retry_after_if_blocked: GET; the TTL it may ask for next is only reported.
CheckAccount(c) ==
  /\ At(c, "check")
  /\ IF window["account"].count >= Failures THEN Close(c) ELSE To(c, "password")
  /\ UNCHANGED <<window, deaths>>

\* authenticate_user: a right password does not clear the failures.
TryPassword(c) ==
  /\ At(c, "password")
  /\ Close(c) \/ To(c, "fail")
  /\ UNCHANGED <<window, deaths>>

\* register_failure: INCR, then EXPIRE after the first failure, TTL after others.
CountFailure(c) ==
  /\ At(c, "fail")
  /\ window' = [window EXCEPT !["account"].count = @ + 1]
  /\ To(c, IF window["account"].count = 0 THEN "failExpire" ELSE "failTtl")
  /\ UNCHANGED deaths

ReadFailureTtl(c) ==
  /\ At(c, "failTtl")
  /\ IF window["account"].ttl < 0 THEN To(c, "failExpire") ELSE Close(c)
  /\ UNCHANGED <<window, deaths>>

SetFailureTtl(c) ==
  /\ At(c, "failExpire")
  /\ ArmWindow("account")
  /\ Close(c)
  /\ UNCHANGED deaths

\* A worker dies, or Redis fails it: the call ends where it stands.
CallDies(c) ==
  /\ ~At(c, "idle") /\ deaths < MaxDeaths
  /\ Close(c)
  /\ deaths' = deaths + 1
  /\ UNCHANGED window

\* A variant in which the count outlives its time.
PaceOnly(k) ==
  /\ window[k].ttl > 0
  /\ window' = [window EXCEPT ![k].ttl = @ - 1]
  /\ UNCHANGED <<call, deaths>>

\* Time passes for a key, which goes when none is left.
Pace(k) ==
  /\ window[k].ttl > 0
  /\ window' = [window EXCEPT ![k] =
       IF @.ttl = 1 THEN Closed ELSE [count |-> @.count, ttl |-> @.ttl - 1]]
  /\ UNCHANGED <<call, deaths>>

Proceed(c) ==
  \/ ReadTtl(c) \/ SetTtl(c) \/ CheckAccount(c) \/ TryPassword(c)
  \/ CountFailure(c) \/ ReadFailureTtl(c) \/ SetFailureTtl(c)

LimitsNext ==
  \/ \E c \in Clients : CountCall(c) \/ Proceed(c) \/ CallDies(c)
  \/ \E k \in WindowKeys : Pace(k)

\* Redis answers and the event loop runs; time passes; and people keep trying,
\* without which nobody would be refused.
LimitsFairness ==
  /\ \A c \in Clients : WF_limitVars(CountCall(c)) /\ WF_limitVars(Proceed(c))
  /\ \A k \in WindowKeys : WF_limitVars(Pace(k))

LimitsSpec == LimitsInit /\ [][LimitsNext]_limitVars /\ LimitsFairness

-----------------------------------------------------------------------------
(* Properties *)

\* Failures limits the guesses at one account per window (login): calls that
\* read the count before others raised it get past it, but no more than the
\* calls there are at once.
GuessesBounded == window["account"].count <= Failures - 1 + Cardinality(Clients)

Blocked(k) == window[k].count >= IF k = "ip" THEN IpLimit ELSE Failures

\* A window ends (check_rate_limit, register_failure): however often people try
\* again, and though workers die between INCR and EXPIRE, nobody is refused for
\* ever, as long as fewer workers die than failures are allowed.
WindowsEnd == \A k \in WindowKeys : Blocked(k) ~> ~Blocked(k)
=============================================================================
