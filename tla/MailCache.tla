------------------------------ MODULE MailCache ------------------------------
(***************************************************************************)
(* The cached mail views of one tab and what keeps them true               *)
(* (flymail/frontend/src: lib/optimistic.ts, the mutations of              *)
(* lib/queries.ts, hooks/useRealtimeSync.ts, lib/list-guards.ts, and the   *)
(* automatic marking of pages/Shell.tsx).                                  *)
(*                                                                         *)
(* One list stands for all the keys that hold rows, one badge for all the  *)
(* keys that hold counts.  A mail of the list is unread or read; "gone" is *)
(* a mail that the list does not hold.                                     *)
(***************************************************************************)
EXTENDS Integers, FiniteSets

CONSTANTS
    Mails,
    MaxOps,         \* bound on the mutations of this tab
    MaxRemote,      \* bound on the changes by others
    None            \* no mail is open

\* What the model takes for granted of its constants.
Assumptions ==
    IsFiniteSet(Mails) /\ None \notin Mails /\ MaxOps \in Nat /\ MaxRemote \in Nat

VARIABLES
    srv,            \* the mails on the server
    list, badge,    \* what the cache shows of them
    fetch, counts,  \* the requests for the rows and for the counts
    ops,            \* mutations under way
    conn,           \* the event stream
    events,         \* kinds of events on their way to this tab
    timer,          \* the debounce of mail_state
    missed,         \* history: a change nobody will tell this tab of
    open, gate,     \* the mail that is open; createAutoReadGate
    made, remote    \* bounds: mutations, changes by others

cache == <<list, badge>>
requests == <<fetch, counts>>
stream == <<conn, events, timer>>
reader == <<open, gate>>
vars == <<srv, cache, requests, ops, stream, missed, reader, made, remote>>

States == {"unread", "read", "gone"}
Verbs == {"read", "unread", "remove"}
Views == [Mails -> States]

Unread(v) == {m \in Mails : v[m] = "unread"}

Idle == [stage |-> "idle"]
Asked == [stage |-> "asked"]
Answered(d) == [stage |-> "answered", data |-> d]

NoSnapshot == [list |-> [m \in Mails |-> "gone"], badge |-> 0]

Init ==
    /\ srv \in [Mails -> {"unread", "gone"}]
    /\ list = srv /\ badge = Cardinality(Unread(srv))
    /\ fetch = Idle /\ counts = Idle
    /\ ops = {}
    /\ conn = "open" /\ events = {} /\ timer = FALSE /\ missed = FALSE
    /\ open = None /\ gate = None
    /\ made = 0 /\ remote = 0

----------------------------------------------------------------------------
(* Fetching *)

\* invalidateMailCaches, invalidateMailViews: every view is asked for anew,
\* and a request that is under way is given up for it.
Invalidate ==
    /\ fetch' = Asked /\ counts' = Asked
    /\ missed' = FALSE

\* The server reads.
ListRead ==
    /\ fetch = Asked
    /\ fetch' = Answered(srv)
    /\ UNCHANGED <<srv, cache, counts, ops, stream, missed, reader, made, remote>>

CountsRead ==
    /\ counts = Asked
    /\ counts' = Answered(Cardinality(Unread(srv)))
    /\ UNCHANGED <<srv, cache, fetch, ops, stream, missed, reader, made, remote>>

\* The answer arrives.
ListLoaded ==
    /\ fetch.stage = "answered"
    /\ list' = fetch.data
    /\ fetch' = Idle
    /\ UNCHANGED <<srv, badge, counts, ops, stream, missed, reader, made, remote>>

CountsLoaded ==
    /\ counts.stage = "answered"
    /\ badge' = counts.data
    /\ counts' = Idle
    /\ UNCHANGED <<srv, list, fetch, ops, stream, missed, reader, made, remote>>

\* The request and its retry fail; the old data stays.
FetchFails ==
    /\ \/ fetch # Idle /\ fetch' = Idle /\ counts' = counts
       \/ counts # Idle /\ counts' = Idle /\ fetch' = fetch
    /\ missed' = TRUE
    /\ UNCHANGED <<srv, cache, ops, stream, reader, made, remote>>

\* COUNT_REFETCH: the counts are asked for when the window has the focus.
WindowFocus ==
    /\ counts = Idle
    /\ counts' = Asked
    /\ UNCHANGED <<srv, cache, fetch, ops, stream, missed, reader, made, remote>>

----------------------------------------------------------------------------
(* Mutations *)

\* Mutant of Patched: the verb is written as it is.
PatchedVerbatim(v, op) == [m \in Mails |-> IF m \in op.ids THEN op.verb ELSE v[m]]

\* What a verb does to the mails of a view.
Patched(v, op) ==
    [m \in Mails |->
        IF m \notin op.ids \/ v[m] = "gone" THEN v[m]
        ELSE IF op.verb = "remove" THEN "gone" ELSE op.verb]

\* optimisticRead and optimisticRemove: only mails whose state changes count,
\* and no count falls below zero.
PatchedBadge(op) ==
    LET n == badge + Cardinality(Unread(Patched(list, op))) - Cardinality(Unread(list))
    IN  IF n < 0 THEN 0 ELSE n

\* mutate: the requests for the rows are cancelled; those for the counts go on.
Mutate(ids, verb) ==
    /\ made < MaxOps
    /\ made' = made + 1
    /\ ops' = ops \cup {[id |-> made, ids |-> ids, verb |-> verb, stage |-> "begun", snap |-> NoSnapshot]}
    /\ fetch' = Idle
    /\ UNCHANGED <<srv, cache, counts, stream, missed, remote>>

\* The verbs of the rows, the batch and the open mail.
UserMutates ==
    /\ \E ids \in SUBSET Mails, verb \in Verbs :
          ids # {} /\ (\A m \in ids : list[m] # "gone") /\ Mutate(ids, verb)
    /\ UNCHANGED reader

\* ... after the await of beginOptimistic: snapshotMail, and the patch.
Patch(op) ==
    /\ op \in ops /\ op.stage = "begun"
    /\ ops' = (ops \ {op}) \cup {[op EXCEPT !.stage = "sent", !.snap = [list |-> list, badge |-> badge]]}
    /\ list' = Patched(list, op)
    /\ badge' = PatchedBadge(op)
    /\ UNCHANGED <<srv, requests, stream, missed, reader, made, remote>>

\* The server acts, or refuses; an answer that is lost is an error as well.
\* The mail_state of a success is an echo for this tab: it bears its CLIENT_ID
\* and is dropped when it arrives, so that it is left out.
Serve(op) ==
    /\ op \in ops /\ op.stage = "sent"
    /\ \E applied, ok \in BOOLEAN :
          /\ ok => applied
          /\ srv' = IF applied THEN Patched(srv, op) ELSE srv
          /\ ops' = (ops \ {op}) \cup {[op EXCEPT !.stage = IF ok THEN "done" ELSE "failed",
                                           !.snap = IF ok THEN NoSnapshot ELSE @]}
    /\ UNCHANGED <<cache, requests, stream, missed, reader, made, remote>>

\* Mutant of Settle: after a success the cache is left as it was patched.
SettleQuietly(op) ==
    /\ op \in ops /\ op.stage \in {"done", "failed"}
    /\ ops' = ops \ {op}
    /\ IF op.stage = "failed" THEN list' = op.snap.list /\ badge' = op.snap.badge /\ Invalidate
                              ELSE UNCHANGED <<cache, requests, missed>>
    /\ UNCHANGED <<srv, stream, reader, made, remote>>

\* onError: restoreMail writes all that was there back; onSettled.
Settle(op) ==
    /\ op \in ops /\ op.stage \in {"done", "failed"}
    /\ ops' = ops \ {op}
    /\ IF op.stage = "failed" THEN list' = op.snap.list /\ badge' = op.snap.badge ELSE UNCHANGED cache
    /\ Invalidate
    /\ UNCHANGED <<srv, stream, reader, made, remote>>

----------------------------------------------------------------------------
(* Events *)

\* Another tab, device or rule changes a mail, or one arrives.
Remote(m) ==
    /\ remote < MaxRemote
    /\ remote' = remote + 1
    /\ \E s \in States \ {srv[m]} : srv' = [srv EXCEPT ![m] = s]
    /\ IF conn = "open" THEN /\ events' = events \cup {IF srv[m] = "gone" THEN "new_mail" ELSE "mail_state"}
                             /\ missed' = missed
                        ELSE events' = events /\ missed' = TRUE
    /\ UNCHANGED <<cache, requests, ops, conn, timer, reader, made>>

\* Mutant of Deliver: every mail_state is taken for an echo.
DeliverEcho(e) ==
    /\ e \in events
    /\ events' = events \ {e}
    /\ IF e = "new_mail" THEN Invalidate ELSE UNCHANGED <<requests, missed>>
    /\ UNCHANGED <<srv, cache, ops, conn, timer, reader, made, remote>>

\* new_mail invalidates at once, mail_state after a delay.
Deliver(e) ==
    /\ e \in events
    /\ events' = events \ {e}
    /\ IF e = "new_mail" THEN Invalidate ELSE UNCHANGED <<requests, missed>>
    /\ timer' = (timer \/ e = "mail_state")
    /\ UNCHANGED <<srv, cache, ops, conn, reader, made, remote>>

MailStateTimer ==
    /\ timer
    /\ timer' = FALSE
    /\ Invalidate
    /\ UNCHANGED <<srv, cache, ops, conn, events, reader, made, remote>>

\* The stream breaks, and what was on its way is lost.
Disconnect ==
    /\ conn = "open"
    /\ conn' = "connecting"
    /\ events' = {}
    /\ missed' = (missed \/ events # {})
    /\ UNCHANGED <<srv, cache, requests, ops, timer, reader, made, remote>>

\* A new ticket, a new stream; the mail views are not asked for.
Reconnect ==
    /\ conn = "connecting"
    /\ conn' = "open"
    /\ UNCHANGED <<srv, cache, requests, ops, events, timer, missed, reader,
                   made, remote>>

----------------------------------------------------------------------------
(* Reading *)

\* A mail that is no longer listed may be opened too, by a link to it.
Open(m) ==
    /\ open # m
    /\ open' = m
    /\ UNCHANGED <<srv, cache, requests, ops, stream, missed, gate, made, remote>>

Close ==
    /\ open # None
    /\ open' = None
    /\ gate' = None
    /\ UNCHANGED <<srv, cache, requests, ops, stream, missed, made, remote>>

\* shouldSend: once for an opening.
AutoReadDue == open # None /\ list[open] = "unread" /\ gate # open /\ made < MaxOps

\* The effect of messageId and activeUnread.
AutoRead ==
    /\ AutoReadDue
    /\ gate' = open
    /\ open' = open
    /\ Mutate({open}, "read")

----------------------------------------------------------------------------
User == UserMutates \/ (\E m \in Mails : Open(m)) \/ Close \/ WindowFocus

Network ==
    \/ ListRead \/ CountsRead \/ ListLoaded \/ CountsLoaded \/ FetchFails
    \/ \E op \in ops : Serve(op) \/ Settle(op)
    \/ Disconnect \/ Reconnect
    \/ \E e \in events : Deliver(e)
    \/ \E m \in Mails : Remote(m)

Next ==
    \/ AutoRead
    \/ ~AutoReadDue /\ (User \/ Network \/ MailStateTimer \/ \E op \in ops : Patch(op))

Spec == Init /\ [][Next]_vars

----------------------------------------------------------------------------
(* Properties *)

TypeOK ==
    /\ srv \in Views /\ list \in Views
    /\ badge \in Nat
    /\ fetch \in {Idle, Asked} \cup {Answered(v) : v \in Views}
    /\ counts \in {Idle, Asked} \cup {Answered(n) : n \in 0..Cardinality(Mails)}
    /\ \A op \in ops : op.ids \subseteq Mails /\ op.verb \in Verbs
    /\ conn \in {"open", "connecting"} /\ events \subseteq {"new_mail", "mail_state"}
    /\ open \in Mails \cup {None} /\ gate \in Mails \cup {None}

Quiet ==
    /\ ops = {} /\ fetch = Idle /\ counts = Idle
    /\ events = {} /\ ~timer /\ ~missed

Fresh == list = srv /\ badge = Cardinality(Unread(srv))

\* Whatever mutations overlapped, failed and rolled each other back, and
\* however their requests crossed those of events: when nothing is under way
\* the list and the badges are those of the server, if no change was lost.
QuietIsFresh == Quiet => Fresh
=============================================================================
