--------------------------- MODULE SettingsLists ---------------------------
(***************************************************************************)
(* The sections of FlyMail's settings that list records: rules, providers  *)
(* of AI, accounts, notification channels, blocked and trusted senders.    *)
(* Rows are switched on and off, deleted after a question, and, where      *)
(* their order matters, moved by one place at a time.                      *)
(*                                                                         *)
(* A move sends the whole order, computed from the order the page shows,   *)
(* and shows it before the server has answered; the fetch that may be in   *)
(* flight is cancelled, or it would bring the old order back.              *)
(***************************************************************************)
EXTENDS Integers, Sequences, SequencesExt, FiniteSets

CONSTANTS
  Rows,       \* identifiers
  MaxMoves,   \* arrows pressed (bound)
  MaxFlight,  \* orders in flight at once (bound)
  MaxOther    \* switches pressed and rows deleted (bound)

\* What the model takes for granted of its constants.
Assumptions == MaxMoves \in Nat /\ MaxFlight \in Nat /\ MaxOther \in Nat /\ IsFiniteSet(Rows)

(* move = when the arrows are enabled; switch = rows are switched in the   *)
(* list; settles = the list is asked for again after an error too.         *)
RulesSection          == [name |-> "rules",    move |-> "waits",  switch |-> TRUE,  settles |-> TRUE]
AISection             == [name |-> "ai",       move |-> "always", switch |-> TRUE,  settles |-> FALSE]
AccountsSection       == [name |-> "accounts", move |-> "always", switch |-> TRUE,  settles |-> FALSE]
NotifyChannelsSection == [name |-> "channels", move |-> "never",  switch |-> TRUE,  settles |-> FALSE]
BlocklistSection      == [name |-> "block",    move |-> "never",  switch |-> FALSE, settles |-> FALSE]
TrustedSendersSection == [name |-> "trusted",  move |-> "never",  switch |-> FALSE, settles |-> FALSE]

ListSections == {RulesSection, AISection, AccountsSection, NotifyChannelsSection, BlocklistSection, TrustedSendersSection}

VARIABLES
  section,   \* the section of this behaviour
  stored,    \* the server: order of the rows, and those that are on
  cached,    \* the query's data, which the page shows
  fetch,     \* the fetch of the list in flight: phase, data
  requests,  \* requests in flight
  asked,     \* the row whose deletion is being confirmed, if any
  moves, others,
  wanted,    \* history: the order that all moves pressed so far ask for
  failed, missed  \* history: a request failed; an error hid a change

vars == <<section, stored, cached, fetch, requests, asked, moves, others, wanted, failed, missed>>

Lists == [order : {s \in UNION {[1..n -> Rows] : n \in 0..Cardinality(Rows)} : IsInjective(s)}, on : SUBSET Rows]
NoFetch == [phase |-> "none", data |-> [order |-> <<>>, on |-> {}]]
Orders == {r \in requests : r.kind = "order"}

TypeOK ==
  /\ section \in ListSections
  /\ stored \in Lists /\ cached \in Lists
  /\ fetch \in [phase : {"none", "sent", "served"}, data : Lists]
  /\ \A r \in requests : r.kind \in {"order", "switch", "delete"} /\ r.phase \in {"sent", "done", "refused", "lost"}
  /\ asked \in SUBSET Rows /\ Cardinality(asked) <= 1
  /\ moves \in 0..MaxMoves /\ others \in 0..MaxOther
  /\ failed \in BOOLEAN /\ missed \in BOOLEAN

Init ==
  /\ section \in ListSections
  /\ stored = [order |-> SetToSeq(Rows), on |-> {}]
  /\ cached = stored /\ wanted = stored.order
  /\ fetch = NoFetch /\ requests = {} /\ asked = {}
  /\ moves = 0 /\ others = 0 /\ failed = FALSE /\ missed = FALSE

-----------------------------------------------------------------------------
FetchSent == [NoFetch EXCEPT !.phase = "sent"]

\* moveItem: one place up (d = -1) or down (d = 1); beyond an end nothing.
Place(s, i) == CHOOSE k \in DOMAIN s : s[k] = i
MoveItem(s, k, d) ==
  IF k + d \in DOMAIN s THEN [s EXCEPT ![k] = s[k + d], ![k + d] = s[k]] ELSE s

\* The order that is left when a row is deleted.
Without(s, i) == IF i \in Range(s) THEN RemoveAt(s, Place(s, i)) ELSE s

ArrowsEnabled ==
  /\ section.move # "never"
  /\ section.move = "waits" => Orders = {}

\* onMutate: the fetch in flight is cancelled and the new order shown.
\* The mistake of not cancelling it.
ShownAtOnceOnly(ids) == cached' = [cached EXCEPT !.order = ids] /\ UNCHANGED fetch
ShownAtOnce(ids) == cached' = [cached EXCEPT !.order = ids] /\ fetch' = NoFetch

HandleMove(i, d) ==
  /\ asked = {} /\ ArrowsEnabled
  /\ moves < MaxMoves /\ Cardinality(Orders) < MaxFlight
  /\ i \in Range(cached.order)
  /\ LET next == MoveItem(cached.order, Place(cached.order, i), d) IN
       /\ next # cached.order
       /\ moves' = moves + 1
       /\ ShownAtOnce(next)
       /\ requests' = requests \cup
            {[kind |-> "order", n |-> moves, ids |-> next, previous |-> cached, phase |-> "sent"]}
  /\ wanted' = IF i \in Range(wanted) THEN MoveItem(wanted, Place(wanted, i), d) ELSE wanted
  /\ UNCHANGED <<section, stored, asked, others, failed, missed>>

\* The switch of a row shows what it does when the list has been fetched again.
HandleToggleEnabled(i) ==
  /\ asked = {} /\ section.switch /\ others < MaxOther
  /\ i \in Range(cached.order)
  /\ others' = others + 1
  /\ requests' = requests \cup
       {[kind |-> "switch", n |-> others, row |-> i, on |-> i \notin cached.on, phase |-> "sent"]}
  /\ UNCHANGED <<section, stored, cached, fetch, asked, moves, wanted, failed,
                 missed>>

\* The confirmation covers the page until it is answered.
HandleDelete(i) ==
  /\ asked = {} /\ others < MaxOther
  /\ i \in Range(cached.order)
  /\ others' = others + 1
  /\ asked' = {i}
  /\ UNCHANGED <<section, stored, cached, fetch, requests, moves, wanted,
                 failed, missed>>

Settle(ok) ==
  /\ asked # {}
  /\ asked' = {}
  /\ requests' = requests \cup
       {[kind |-> "delete", n |-> others, row |-> i, phase |-> "sent"] : i \in IF ok THEN asked ELSE {}}
  /\ UNCHANGED <<section, stored, cached, fetch, moves, others, wanted, failed,
                 missed>>

-----------------------------------------------------------------------------
(* The server.  An order that is not one of its rows is refused; any       *)
(* request may be refused, or done with its answer lost.                   *)

Applied(r) ==
  CASE r.kind = "order"  -> [stored EXCEPT !.order = r.ids]
    [] r.kind = "switch" -> 
         [stored EXCEPT !.on = IF r.on THEN @ \cup ({r.row} \cap Range(stored.order)) ELSE @ \ {r.row}]
    [] r.kind = "delete" -> [order |-> Without(stored.order, r.row), on |-> stored.on \ {r.row}]

Accepted(r) == r.kind = "order" => Range(r.ids) = Range(stored.order)

Serve(r) ==
  /\ r.phase = "sent"
  /\ \/ /\ Accepted(r)
        /\ stored' = Applied(r)
        /\ \E ph \in {"done", "lost"} : requests' = (requests \ {r}) \cup {[r EXCEPT !.phase = ph]}
     \/ /\ requests' = (requests \ {r}) \cup {[r EXCEPT !.phase = "refused"]}
        /\ UNCHANGED stored
  /\ UNCHANGED <<section, cached, fetch, asked, moves, others, wanted, failed,
                 missed>>

\* The end of a move: an error puts back the order from before it, and in
\* either case the list is asked for again.
\* The mistake of asking again after a success only.
ReorderSettlesOnSuccess(r) ==
  /\ cached' = IF r.phase = "done" THEN cached ELSE r.previous
  /\ fetch' = IF r.phase = "done" THEN FetchSent ELSE fetch
ReorderSettles(r) ==
  /\ cached' = IF r.phase = "done" THEN cached ELSE r.previous
  /\ fetch' = FetchSent

ReorderEnds(r) ==
  /\ r.kind = "order" /\ r.phase # "sent"
  /\ requests' = requests \ {r}
  /\ ReorderSettles(r)
  /\ failed' = (failed \/ r.phase # "done")
  /\ UNCHANGED <<section, stored, asked, moves, others, wanted, missed>>

RowRequestEnds(r) ==
  /\ r.kind # "order" /\ r.phase # "sent"
  /\ requests' = requests \ {r}
  /\ fetch' = IF r.phase = "done" \/ section.settles THEN FetchSent ELSE fetch
  /\ missed' = (missed \/ (r.phase = "lost" /\ ~section.settles))
  /\ UNCHANGED <<section, stored, cached, asked, moves, others, wanted, failed>>

ServeList ==
  /\ fetch.phase = "sent"
  /\ fetch' = [phase |-> "served", data |-> stored]
  /\ UNCHANGED <<section, stored, cached, requests, asked, moves, others,
                 wanted, failed, missed>>

ListArrives ==
  /\ fetch.phase = "served"
  /\ cached' = fetch.data
  /\ fetch' = NoFetch
  /\ UNCHANGED <<section, stored, requests, asked, moves, others, wanted,
                 failed, missed>>

Next ==
  \/ \E i \in Rows : HandleToggleEnabled(i) \/ HandleDelete(i) \/ \E d \in {-1, 1} : HandleMove(i, d)
  \/ \E ok \in BOOLEAN : Settle(ok)
  \/ \E r \in requests : Serve(r) \/ ReorderEnds(r) \/ RowRequestEnds(r)
  \/ ServeList \/ ListArrives

Spec == Init /\ [][Next]_vars

-----------------------------------------------------------------------------
\* In the section of rules no move is lost: however the answers of moves and
\* fetches interleave, when nothing else was done to the list and nothing
\* failed, the server ends with the order that all the presses ask for.
MovesAdd ==
  section.move = "waits" /\ others = 0 /\ ~failed /\ Orders = {} => stored.order = wanted

\* Optimistic orders, their rollbacks and the fetches they cancel leave no
\* section with something the server does not have, once all is answered.
QuietListIsServer ==
  requests = {} /\ fetch.phase = "none" /\ ~missed => cached = stored
=============================================================================
