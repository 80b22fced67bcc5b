------------------------------ MODULE MCServices ------------------------------
(***************************************************************************)
(* Model checking LoginLimits, TierCache, BillingEvents, UpstreamCalls,    *)
(* Answers and SessionGuard.  They share no variable; a behaviour picks    *)
(* one and runs it, while the others rest in one of their initial states.  *)
(* SessionGuard runs four requests of one account with a cap of two, so    *)
(* that two can be over the cap at once, and two losses, so that lost      *)
(* slots alone can fill the cap.                                           *)
(***************************************************************************)
EXTENDS LoginLimits, TierCache, BillingEvents, UpstreamCalls, Answers, SessionGuard

CONSTANTS c1, c2, model1, model2, r1, r2, r3, r4

VARIABLE focus  \* the component this behaviour runs

services == <<focus, limitVars, tierVars, billingVars, upstreamVars, answerVars, vars>>

MCCalls == {c1, c2}
MCRequests == {r1, r2, r3, r4}
MCPrices == {"low", "high"}
MCNotes == {"note"}
MCPayments == {"payment"}
MCModels == {model1, model2}
MCHints == {-1, 7}
MCTier == [input |-> 6000, output |-> 6000, cacheRead |-> 2000, cacheWrite |-> 12500,
           reasoning |-> 5000]
MCPrompt == [messages |-> 1, chars |-> 4, blocks |-> 0]

Line(data, prompt, completion, details, chars, private) ==
  [data |-> data, chars |-> chars, private |-> private,
   counts |-> [prompt |-> prompt, completion |-> completion, cached |-> details[1],
               written |-> details[2], reasoning |-> details[3]]]

\* Text; a report at the reserve, with more cached and written tokens than tokens;
\* one without a completion but with its reasoning; and a comment.
NoDetails == <<Absent, Absent, Absent>>
MCLines ==
  {Line(TRUE, Absent, Absent, NoDetails, 5, TRUE), Line(TRUE, 6, 4, <<1, 9, 0>>, 0, TRUE),
   Line(TRUE, 5, Absent, <<Absent, Absent, 9>>, 0, FALSE),
   Line(FALSE, Absent, Absent, NoDetails, 0, FALSE)}

\* The components at rest have one initial state each.
AtRest ==
  /\ focus = "tiers" \/ (focus # "tiers" /\ tier = None)
  /\ focus = "billing" \/ (focus # "billing" /\ provider = "dodo")
  /\ \/ focus = "upstream"
     \/ /\ focus # "upstream"
        /\ ask = [fields |-> {}, stream |-> FALSE]
        /\ route = [allowed |-> FALSE, internal |-> FALSE, primary |-> model1, fallbacks |-> {},
                    plugin |-> "none"]
  /\ \/ focus = "answers"
     \/ focus # "answers" /\ streaming = TRUE /\ body = <<>> /\ ending = "newline"

ServicesInit ==
  /\ focus \in {"limits", "tiers", "billing", "upstream", "answers", "slots"}
  /\ AtRest
  /\ LimitsInit /\ TierInit /\ BillingInit /\ UpstreamInit /\ AnswersInit /\ Init

ServicesNext ==
  /\ UNCHANGED focus
  /\ \/ /\ focus = "limits" /\ LimitsNext
        /\ UNCHANGED <<tierVars, billingVars, upstreamVars, answerVars, vars>>
     \/ /\ focus = "tiers" /\ TierNext
        /\ UNCHANGED <<limitVars, billingVars, upstreamVars, answerVars, vars>>
     \/ /\ focus = "billing" /\ BillingNext
        /\ UNCHANGED <<limitVars, tierVars, upstreamVars, answerVars, vars>>
     \/ /\ focus = "upstream" /\ UpstreamNext
        /\ UNCHANGED <<limitVars, tierVars, billingVars, answerVars, vars>>
     \/ /\ focus = "answers" /\ AnswersNext
        /\ UNCHANGED <<limitVars, tierVars, billingVars, upstreamVars, vars>>
     \/ /\ focus = "slots" /\ Next
        /\ UNCHANGED <<limitVars, tierVars, billingVars, upstreamVars, answerVars>>

\* LimitsFairness, TierFairness, BillingFairness and SlotsFairness, each where
\* it runs.
ServicesFairness ==
  /\ \A c \in Clients :
       /\ WF_limitVars(focus = "limits" /\ CountCall(c))
       /\ WF_limitVars(focus = "limits" /\ Proceed(c))
  /\ \A k \in WindowKeys : WF_limitVars(focus = "limits" /\ Pace(k))
  /\ \A r \in Readers : WF_tierVars(focus = "tiers" /\ (SelectTier(r) \/ FillCache(r)))
  /\ \A a \in Admins : WF_tierVars(focus = "tiers" /\ Invalidate(a))
  /\ WF_tierVars(focus = "tiers" /\ CopyExpires)
  /\ \A n \in 1 .. MaxNotices :
       SF_billingVars(focus = "billing" /\ n \notin answered /\ DeliverNotice(n))
  /\ \A h \in Hooks : WF_billingVars(focus = "billing" /\ Grant(h))
  /\ \A r \in Requests :
       WF_vars(focus = "slots" /\ (SetExpiry(r) \/ Refuse(r) \/ Release(r) \/ Clamp(r)))
  /\ WF_vars(focus = "slots" /\ Expire)

ServicesSpec == ServicesInit /\ [][ServicesNext]_services /\ ServicesFairness

\* Every variable of the first five components keeps its type; TypeOK is
\* SessionGuard's.
ServicesTypeOK ==
  /\ LimitsTypeOK /\ TierTypeOK /\ BillingTypeOK /\ UpstreamTypeOK /\ AnswersTypeOK
=============================================================================
