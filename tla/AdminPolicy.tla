---------------------------- MODULE AdminPolicy ----------------------------
(***************************************************************************)
(* The notification policy of mail2im's two front ends: every change of a  *)
(* row is shown at once and sent as the whole row.  The key of the row     *)
(* being saved is one variable for the page, so changing a second row      *)
(* frees the first one while its request is still in flight.               *)
(*                                                                         *)
(* A row is the number of its change: the value the user meant last.       *)
(***************************************************************************)
EXTENDS Naturals

CONSTANTS
  PolicyRows,   \* mail types
  MaxChanges    \* changes of a row (bound)

\* What the model takes for granted of its constants.
PolicyAssumptions == MaxChanges \in Nat

(* refetches = a success asks for the policy again; waits = the controls   *)
(* of the row being saved are disabled.                                    *)
ReactPolicy == [refetches |-> TRUE,  waits |-> TRUE]
VuePolicy   == [refetches |-> FALSE, waits |-> FALSE]
Front(f) == IF f = "react" THEN ReactPolicy ELSE VuePolicy

VARIABLES
  front,     \* "react" or "vue"
  policy,    \* what the server has stored
  display,   \* the rows as they are shown
  saving,    \* the row that is marked as being saved, if any
  puts,      \* requests: [row, value, phase], phase "sent" or "stored"
  fetch,     \* the fetch in flight: [phase, rows]
  failed,    \* history: a request has failed
  changes    \* counted against MaxChanges

pVars == <<front, policy, display, saving, puts, fetch, failed, changes>>

Values == 0..MaxChanges
Policies == [PolicyRows -> Values]
Puts == [row : PolicyRows, value : Values, phase : {"sent", "stored"}]
FetchSent == [phase |-> "sent", rows |-> [r \in PolicyRows |-> 0]]
NoFetch == [phase |-> "none", rows |-> [r \in PolicyRows |-> 0]]

PolicyTypeOK ==
  /\ front \in {"react", "vue"}
  /\ policy \in Policies /\ display \in Policies
  /\ saving \in SUBSET PolicyRows
  /\ puts \subseteq Puts
  /\ fetch \in [phase : {"none", "sent", "served"}, rows : Policies]
  /\ failed \in BOOLEAN /\ changes \in Values

PInit ==
  /\ front \in {"react", "vue"}
  /\ policy = [r \in PolicyRows |-> 0] /\ display = policy
  /\ saving = {} /\ puts = {} /\ fetch = NoFetch /\ failed = FALSE /\ changes = 0

-----------------------------------------------------------------------------
\* disabled={saving === item.key}
ControlsEnabled(r) == Front(front).waits => r \notin saving

\* A switch of a channel or another action: the row is shown changed and sent.
ChangeRow(r) ==
  /\ ControlsEnabled(r) /\ changes < MaxChanges
  /\ changes' = changes + 1
  /\ display' = [display EXCEPT ![r] = changes + 1]
  /\ saving' = {r}
  /\ puts' = puts \cup {[row |-> r, value |-> changes + 1, phase |-> "sent"]}
  /\ UNCHANGED <<front, policy, fetch, failed>>

\* Two requests for one row may be stored in either order.
PutStored(u) ==
  /\ u.phase = "sent"
  /\ policy' = [policy EXCEPT ![u.row] = u.value]
  /\ puts' = (puts \ {u}) \cup {[u EXCEPT !.phase = "stored"]}
  /\ UNCHANGED <<front, display, saving, fetch, failed, changes>>

\* Mutant of Refetched: the page of React keeps what it shows.
NotRefetched == fetch
\* An invalidation cancels the fetch in flight and starts another.
Refetched == IF Front(front).refetches THEN FetchSent ELSE fetch

\* Whichever request answers frees the row saved last.
PutAnswered(u) ==
  /\ u.phase = "stored"
  /\ puts' = puts \ {u}
  /\ saving' = {}
  /\ fetch' = Refetched
  /\ UNCHANGED <<front, policy, display, failed, changes>>

\* An error is told; what is shown is not taken back.
PutFails(u) ==
  /\ puts' = puts \ {u}
  /\ saving' = {}
  /\ failed' = TRUE
  /\ UNCHANGED <<front, policy, display, fetch, changes>>

RefreshPolicy ==
  /\ fetch.phase = "none"
  /\ fetch' = FetchSent
  /\ UNCHANGED <<front, policy, display, saving, puts, failed, changes>>

ServePolicy ==
  /\ fetch.phase = "sent"
  /\ fetch' = [phase |-> "served", rows |-> policy]
  /\ UNCHANGED <<front, policy, display, saving, puts, failed, changes>>

PolicyArrives ==
  /\ fetch.phase = "served"
  /\ display' = fetch.rows
  /\ fetch' = NoFetch
  /\ UNCHANGED <<front, policy, saving, puts, failed, changes>>

PNext ==
  \/ \E r \in PolicyRows : ChangeRow(r)
  \/ \E u \in puts : PutStored(u) \/ PutAnswered(u) \/ PutFails(u)
  \/ RefreshPolicy \/ ServePolicy \/ PolicyArrives

PSpec == PInit /\ [][PNext]_pVars

\* Whatever the order in which requests for a row are stored and fetches
\* answered, the page of React shows the server's policy once all is answered
\* and nothing has failed.  (The page of Vue does not: nothing is refetched.)
QuietPolicyIsStored ==
  front = "react" /\ ~failed /\ puts = {} /\ fetch.phase = "none" => display = policy
=============================================================================
