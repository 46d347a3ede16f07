----------------------------- MODULE AdminViews -----------------------------
(***************************************************************************)
(* The pages and panels of mail2im's two administration front ends that    *)
(* show what the server answers about a subject: a page of the mail list   *)
(* under a search and an order, the delivery log, one mail, the counters   *)
(* of the dashboard, the workers of the debug page, the folders of the     *)
(* account in the dialog, the outcome of a connection test, the preview of *)
(* a template.  The subject moves while answers are on their way, and the  *)
(* server changes by itself.                                               *)
(***************************************************************************)
EXTENDS Naturals, FiniteSets, TLC

CONSTANTS
  Subjects,    \* what a view can be about: pages, searches, records, texts
  MaxVersion,  \* changes on the server (bound)
  MaxCalls,    \* requests in flight at the same time (bound)
  MaxMoves,    \* moves and refreshes by the user (bound)
  MaxFails     \* requests that fail (bound)

\* What the model takes for granted of its constants.
ViewsAssumptions ==
  /\ Subjects # {} /\ MaxVersion \in Nat \ {0} /\ MaxCalls \in Nat \ {0}
  /\ MaxMoves \in Nat /\ MaxFails \in Nat

Versions == 0..MaxVersion
Calls == 1..MaxCalls
NoCall == [phase |-> "none"]

-----------------------------------------------------------------------------
(* How a view asks.  keyed: the answer is stored under the subject it was  *)
(* asked for, a second request for the same subject joins the first, and   *)
(* an explicit one replaces it (a query of TanStack Query); otherwise the  *)
(* last answer to arrive is what the view shows.  polls: asked again at an *)
(* interval.                                                               *)

Query == [keyed |-> TRUE,  polls |-> FALSE]
Fetch == [keyed |-> FALSE, polls |-> FALSE]
Polled(q) == [q EXCEPT !.polls = TRUE]

EmailsQuery         == Query
LogsQuery           == Query
EmailDetailQuery    == Query
StandaloneFetch     == Fetch
ShareFetch          == Fetch
DashboardQueries    == Query
DebugQuery          == Polled(Query)
MailboxesFetch      == Fetch
TestFetch           == Fetch
PreviewFetch        == Fetch
VueEmailsFetch      == Fetch
VueLogsFetch        == Fetch
VueDetailFetch      == Fetch
VueStandaloneFetch  == Fetch
VueDashboardFetch   == Fetch
VueDebugFetch       == Polled(Fetch)
VueMailboxesFetch   == Fetch
VueTestFetch        == Fetch
VuePreviewFetch     == Fetch

(* What the view offers.  moves: the subject can change; asks = a move     *)
(* asks at once, otherwise a button does; waits: the refresh button is     *)
(* disabled until the last request has been answered; acts: the view has   *)
(* operations whose success asks again.                                    *)

Controls(m, w, a) == [moves |-> m, asks |-> TRUE, waits |-> w, acts |-> a]

EmailsTable         == Controls(TRUE,  FALSE, TRUE)
EmailsDialogs       == [acts |-> TRUE]
LogsTable           == Controls(FALSE, FALSE, TRUE)
LogsDialogs         == [acts |-> TRUE]
EmailDetailView     == Controls(FALSE, FALSE, FALSE)
StandaloneView      == Controls(FALSE, TRUE,  FALSE)
ShareView           == Controls(FALSE, TRUE,  FALSE)
DashboardView       == Controls(FALSE, FALSE, FALSE)
DebugView           == Controls(FALSE, TRUE,  FALSE)
MailboxTable        == Controls(TRUE,  TRUE,  FALSE)
TestPanel           == [Controls(TRUE, TRUE, FALSE) EXCEPT !.asks = FALSE]
PreviewPanel        == Controls(TRUE,  FALSE, FALSE)
VueEmailsTable      == Controls(TRUE,  TRUE,  TRUE)
VueLogsTable        == Controls(FALSE, TRUE,  TRUE)
VueDetailView       == Controls(FALSE, TRUE,  FALSE)
VueStandaloneView   == Controls(FALSE, TRUE,  FALSE)
VueDashboardView    == Controls(FALSE, FALSE, FALSE)
VueDebugView        == Controls(FALSE, FALSE, FALSE)
VueMailboxTable     == Controls(TRUE,  TRUE,  FALSE)
VueTestPanel        == [Controls(TRUE, TRUE, FALSE) EXCEPT !.asks = FALSE]
VuePreviewPanel     == Controls(TRUE,  FALSE, FALSE)

Views ==
  {EmailsQuery @@ EmailsTable @@ EmailsDialogs, LogsQuery @@ LogsTable @@ LogsDialogs,
   EmailDetailQuery @@ EmailDetailView, StandaloneFetch @@ StandaloneView, ShareFetch @@ ShareView,
   DashboardQueries @@ DashboardView, DebugQuery @@ DebugView, MailboxesFetch @@ MailboxTable,
   TestFetch @@ TestPanel, PreviewFetch @@ PreviewPanel,
   VueEmailsFetch @@ VueEmailsTable, VueLogsFetch @@ VueLogsTable, VueDetailFetch @@ VueDetailView,
   VueStandaloneFetch @@ VueStandaloneView, VueDashboardFetch @@ VueDashboardView,
   VueDebugFetch @@ VueDebugView, VueMailboxesFetch @@ VueMailboxTable,
   VueTestFetch @@ VueTestPanel, VuePreviewFetch @@ VuePreviewPanel}

-----------------------------------------------------------------------------
VARIABLES
  view,     \* the view; views that behave alike are one value
  subject,  \* what it is about now
  cache,    \* the answers of a query: version by subject
  panel,    \* the answer a fetch has put on the page: subject and version
  calls,    \* requests in flight
  now,      \* the version of the server's data
  acting,   \* an operation of the view is in flight
  moves,    \* counted against MaxMoves
  fails,    \* counted against MaxFails
  floor     \* history: the version of the server when each subject was last asked for

vVars == <<view, subject, cache, panel, calls, now, acting, moves, fails, floor>>

Nothing == "nothing"
Shown == IF view.keyed THEN [subject |-> subject, version |-> cache[subject]] ELSE panel
FreeCalls == {c \in Calls : calls[c] = NoCall}
InFlight(s) == {c \in Calls : calls[c] # NoCall /\ calls[c].subject = s}
Quiet == ~acting /\ \A c \in Calls : calls[c] = NoCall

\* Types; a query has one request per subject, and no version comes from later.
ViewsTypeOK ==
  /\ view \in Views
  /\ subject \in Subjects
  /\ cache \in [Subjects -> Versions]
  /\ panel \in [subject : Subjects \cup {Nothing}, version : Versions]
  /\ calls \in [Calls -> {NoCall} \cup [phase : {"sent", "served"}, subject : Subjects, version : Versions]]
  /\ now \in Versions /\ moves \in 0..MaxMoves /\ fails \in 0..MaxFails
  /\ acting \in BOOLEAN
  /\ floor \in [Subjects -> Versions]
  /\ \A s \in Subjects : cache[s] <= now /\ (view.keyed => Cardinality(InFlight(s)) <= 1)

Call(s) == [phase |-> "sent", subject |-> s, version |-> 0]

\* Mutant of AskedQuery: a request in flight is joined by an explicit one too.
AskedQueryJoined(s, explicit) ==
  IF InFlight(s) # {} THEN {calls}
  ELSE {[calls EXCEPT ![c] = Call(s)] : c \in FreeCalls}

\* Mutant of AskedQuery: an explicit request does not cancel the one in flight.
AskedQueryBeside(s, explicit) ==
  IF InFlight(s) # {} /\ ~explicit THEN {calls}
  ELSE {[calls EXCEPT ![c] = Call(s)] : c \in FreeCalls}

\* Asking about s leaves these requests in flight.  An explicit request of a
\* query (refetch, invalidateQueries) cancels the one it replaces.
AskedQuery(s, explicit) ==
  IF InFlight(s) # {} /\ ~explicit THEN {calls}
  ELSE LET rest == [c \in Calls |-> IF c \in InFlight(s) THEN NoCall ELSE calls[c]]
       IN  {[rest EXCEPT ![c] = Call(s)] : c \in {d \in Calls : rest[d] = NoCall}}
AskedFetch(s) == {[calls EXCEPT ![c] = Call(s)] : c \in FreeCalls}

Asked(s, explicit) == IF view.keyed THEN AskedQuery(s, explicit) ELSE AskedFetch(s)

Stored(c) == [cache EXCEPT ![calls[c].subject] = calls[c].version]

VInit ==
  /\ view \in Views
  /\ subject \in Subjects
  /\ cache = [s \in Subjects |-> 0]
  /\ panel = [subject |-> Nothing, version |-> 0]
  /\ now = 1 /\ acting = FALSE /\ moves = 0 /\ fails = 0
  /\ floor = [s \in Subjects |-> IF s = subject THEN 1 ELSE 0]
  /\ calls = [c \in Calls |-> IF c = 1 /\ view.asks THEN Call(subject) ELSE NoCall]

\* The page, the search, the order, the account in the dialog, the text of the template.
Move(s) ==
  /\ view.moves /\ s # subject /\ moves < MaxMoves
  /\ subject' = s
  /\ moves' = moves + 1
  /\ IF view.asks
       THEN /\ calls' \in Asked(s, FALSE)
            /\ floor' = IF view.keyed /\ InFlight(s) # {} THEN floor ELSE [floor EXCEPT ![s] = now]
            /\ UNCHANGED panel
       ELSE /\ panel' = [subject |-> Nothing, version |-> 0]
            /\ UNCHANGED <<calls, floor>>
  /\ UNCHANGED <<view, cache, now, acting, fails>>

RefreshEnabled == view.waits => \A c \in Calls : calls[c] = NoCall

RefreshView ==
  /\ RefreshEnabled /\ moves < MaxMoves
  /\ calls' \in Asked(subject, TRUE)
  /\ floor' = [floor EXCEPT ![subject] = now]
  /\ moves' = moves + 1
  /\ UNCHANGED <<view, subject, cache, panel, now, acting, fails>>

\* Mutant of TickDue: the polling stops at the first error.
TickDueWell == view.polls /\ fails = 0
TickDue == view.polls

Tick ==
  /\ TickDue
  /\ calls' \in Asked(subject, FALSE)
  /\ UNCHANGED <<view, subject, cache, panel, now, acting, moves, fails, floor>>

\* Deleting a mail, all mails, an entry of the log or the log.
Operate ==
  /\ view.acts /\ ~acting /\ moves < MaxMoves
  /\ acting' = TRUE
  /\ moves' = moves + 1
  /\ UNCHANGED <<view, subject, cache, panel, calls, now, fails, floor>>

OperationAnswered ==
  /\ acting /\ now < MaxVersion
  /\ acting' = FALSE
  /\ now' = now + 1
  /\ calls' \in Asked(subject, TRUE)
  /\ floor' = [floor EXCEPT ![subject] = now + 1]
  /\ UNCHANGED <<view, subject, cache, panel, moves, fails>>

OperationRefused ==
  /\ acting
  /\ acting' = FALSE
  /\ UNCHANGED <<view, subject, cache, panel, calls, now, moves, fails, floor>>

Change ==
  /\ now < MaxVersion
  /\ now' = now + 1
  /\ UNCHANGED <<view, subject, cache, panel, calls, acting, moves, fails, floor>>

ServeCall(c) ==
  /\ calls[c] # NoCall /\ calls[c].phase = "sent"
  /\ calls' = [calls EXCEPT ![c].phase = "served", ![c].version = now]
  /\ UNCHANGED <<view, subject, cache, panel, now, acting, moves, fails, floor>>

CallArrives(c) ==
  /\ calls[c] # NoCall /\ calls[c].phase = "served"
  /\ IF view.keyed
       THEN cache' = Stored(c) /\ UNCHANGED panel
       ELSE panel' = [subject |-> calls[c].subject, version |-> calls[c].version] /\ UNCHANGED cache
  /\ calls' = [calls EXCEPT ![c] = NoCall]
  /\ UNCHANGED <<view, subject, now, acting, moves, fails, floor>>

\* An error leaves the view as it is.
CallFails(c) ==
  /\ calls[c] # NoCall /\ fails < MaxFails
  /\ fails' = fails + 1
  /\ calls' = [calls EXCEPT ![c] = NoCall]
  /\ UNCHANGED <<view, subject, cache, panel, now, acting, moves, floor>>

VNext ==
  \/ RefreshView \/ Tick \/ Operate \/ OperationAnswered \/ OperationRefused \/ Change
  \/ \E s \in Subjects : Move(s)
  \/ \E c \in Calls : ServeCall(c) \/ CallArrives(c) \/ CallFails(c)

VSpec == VInit /\ [][VNext]_vVars
VFairness == WF_vVars(Tick) /\ \A c \in Calls : WF_vVars(ServeCall(c)) /\ WF_vVars(CallArrives(c))
VFairSpec == VSpec /\ VFairness

-----------------------------------------------------------------------------
\* The views whose answers cannot overtake each other: the queries, and the
\* plain fetches that only a waiting refresh button can repeat.
Ordered == view.keyed \/ (view.waits /\ ~view.moves /\ ~view.acts /\ ~view.polls)

\* When nothing is in flight and nothing has failed, such a view shows its own
\* subject, as it was when the view last asked for it or later.
QuietViewIsCurrent ==
  Ordered /\ view.asks /\ Quiet /\ fails = 0 =>
    Shown.subject = subject /\ Shown.version >= floor[subject]

\* A view that polls gets to what the server has, also after failed polls.
PollingCatchesUp == view.polls => []<>(Shown.version = now)
=============================================================================
