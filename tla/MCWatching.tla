----------------------------- MODULE MCWatching -----------------------------
(* Model-checking instance of the two modules about what a page shows of a   *)
(* server that goes on without it: the states of a synchronisation           *)
(* (LiveStatus) and the views of mail2im (AdminViews).  A behaviour is one   *)
(* of either; the other stays at a start where it has nothing to do, so that *)
(* the fairness of both can be assumed of every behaviour.                   *)
EXTENDS Naturals

CONSTANTS MaxChanges, Subjects, MaxVersion, MaxCalls, MaxMoves, MaxFails

VARIABLES
    part,
    now, running, row, tracking, trigger, poll, check, link, pushed, lost, restarted, changes,
    view, subject, cache, panel, calls, version, acting, moves, fails, floor

statusVars ==
    <<now, running, row, tracking, trigger, poll, check, link, pushed, lost, restarted, changes>>
viewVars == <<view, subject, cache, panel, calls, version, acting, moves, fails, floor>>
vars == <<part, statusVars, viewVars>>

Status == INSTANCE LiveStatus
Views == INSTANCE AdminViews WITH now <- version

ASSUME ConstantsAssumption == Status!Assumptions /\ Views!ViewsAssumptions

\* A panel that asks nothing by itself.
Still == view = (CHOOSE v \in Views!Views : ~v.polls /\ ~v.asks)

Init ==
    /\ Status!Init /\ Views!VInit
    /\ \/ part = "status" /\ Still /\ subject = (CHOOSE s \in Subjects : TRUE)
       \/ part = "views"

Next ==
    \/ part = "status" /\ Status!Next /\ UNCHANGED <<part, viewVars>>
    \/ part = "views" /\ Views!VNext /\ UNCHANGED <<part, statusVars>>

Spec == Init /\ [][Next]_vars /\ Status!Fairness /\ Views!VFairness

----------------------------------------------------------------------------
\* Types, and what the code takes for granted about its own state.
TypeOK == Status!TypeOK /\ Views!ViewsTypeOK

\* A view in which nothing is under way shows its own subject, not older than
\* when it was last asked for.
QuietViewIsCurrent == Views!QuietViewIsCurrent

\* No account spins for ever after its synchronisation has ended.
SpinnerEnds == Status!SpinnerEnds

\* What polls stops when there is nothing left to poll for, and gets to what
\* the server has while it goes on.
PollsSettle == Status!PollingEnds /\ Views!PollingCatchesUp
=============================================================================
