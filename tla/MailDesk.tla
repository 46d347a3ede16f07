------------------------------ MODULE MailDesk ------------------------------
(***************************************************************************)
(* The middle column of the FlyMail client: the list of one view, the mail *)
(* that is open, the selection, and the operations with a window for undo  *)
(* (flymail/frontend/src: pages/Shell.tsx, components/mail/MailList.tsx,   *)
(* hooks/useUndoable.ts, components/ui/Toast.tsx, lib/kept-rows.ts,        *)
(* lib/list-guards.ts).                                                    *)
(*                                                                         *)
(* A deletion or move first hides its rows; the request is sent when the   *)
(* toast that offers to undo it ends.  What the user sees is computed from *)
(* the rows of the query, the hidden rows and the rows that were opened in *)
(* this view and are kept.  The conversation list has the same code over   *)
(* threads: a row is a mail here.                                          *)
(***************************************************************************)
EXTENDS Integers, FiniteSets, MailIds, KeptRows

CONSTANTS
    Folders,
    MaxRequests,    \* bound on the requests in flight
    Gone            \* the place of a deleted mail

ASSUME DeskAssumption == MaxRequests \in Nat /\ Gone \notin Folders

VARIABLES
    home,           \* [Mails -> Places]: where the server has the mail
    view,           \* the folder of the list
    rows,           \* the rows the list query of the view holds
    hidden,         \* hiddenIds
    kept,           \* keptMsgs
    active,         \* the mail that is open (messageId)
    undo,           \* the pending operation and the requests in flight
    toast,          \* the toast on the screen
    undone          \* history: mails whose last operation was undone

vars == <<home, view, rows, hidden, kept, active, undo, toast, undone>>

Places == Folders \cup {Gone}
Requests == [ids : SUBSET Mails, dest : Places]
Ops == [ids : SUBSET Mails, dest : Places, reading : Mails \cup {None}]
NoToast == [kind |-> "none", ids |-> {}]
PlainToast == [kind |-> "plain", ids |-> {}]
Toasts == {NoToast, PlainToast} \cup [kind : {"undo"}, ids : SUBSET Mails]

\* What the list request of a view answers.
Listed(v) == {m \in Mails : home[m] = v}

Init ==
    /\ home \in [Mails -> Folders]
    /\ view \in Folders
    /\ rows = Listed(view)
    /\ hidden = {} /\ kept = {} /\ undone = {}
    /\ active = None
    /\ undo = [pending |-> None, out |-> {}]
    /\ toast = NoToast

----------------------------------------------------------------------------
Request(op) == [ids |-> op.ids, dest |-> op.dest]

\* Mutant of Flushed: the operation is sent and stays pending.
FlushedAndKept(u) ==
    IF u.pending = None THEN u ELSE [u EXCEPT !.out = @ \cup {Request(u.pending)}]

\* useUndoable.  flush sends the operation that is pending, if there is one.
Flushed(u) ==
    IF u.pending = None THEN u
    ELSE [pending |-> None, out |-> u.out \cup {Request(u.pending)}]

\* Mutant of Begun: the operation before it is forgotten.
BegunOver(u, op) == [u EXCEPT !.pending = op]

\* begin flushes the operation before it.
Begun(u, op) == [Flushed(u) EXCEPT !.pending = op]

\* Mutant of Expired: a toast that is replaced does not run its onExpire.
ExpiredSilently(u, t) == u

\* Toast.dismiss(true): the end of a toast runs its onExpire, which is the
\* flush of the undo toasts and nothing for the others.
Expired(u, t) == IF t.kind = "undo" THEN Flushed(u) ELSE u

\* What a request that is sent does to the cached lists (onMutate).
Unsent(u, v) == UNION {op.ids : op \in v.out \ u.out}

\* Toast: a new toast ends the one before it; so does the client for every
\* message it shows.
ShowToast(t) == undo' = Expired(undo, toast) /\ toast' = t

----------------------------------------------------------------------------
\* What is on the screen.
Raw == rows \ hidden
Visible == WithKept(Raw, kept)

\* Every rendering computes the kept rows anew.
Rendered == kept' = NextKept(kept, view' = view, rows' \ hidden', active')

----------------------------------------------------------------------------
\* Opening and closing.
Open(m) ==
    /\ m \in Visible
    /\ active' = m
    /\ UNCHANGED <<home, view, rows, hidden, undo, toast, undone>>
    /\ Rendered

Close ==
    /\ active # None
    /\ active' = None
    /\ UNCHANGED <<home, view, rows, hidden, undo, toast, undone>>
    /\ Rendered

----------------------------------------------------------------------------
\* Mutant of Reset: the toast is dismissed and its operation is left pending.
ResetUnflushed ==
    /\ undo' = undo
    /\ toast' = NoToast
    /\ hidden' = {}

\* The effect of a change of selectionKey: flush, dismiss, clear.  The
\* operation is sent before the sets that hid its rows are emptied.
Reset ==
    /\ undo' = Flushed(undo)
    /\ toast' = NoToast
    /\ hidden' = {}

\* selectFolder, selectAccount and selectAggregate.
SelectView(v) ==
    /\ v # view
    /\ view' = v
    /\ active' = None
    /\ Reset
    /\ rows' = Listed(v) \ Unsent(undo, undo')
    /\ UNCHANGED <<home, undone>>
    /\ Rendered

\* The style of the list is part of selectionKey and not of viewKey.
ChangeStyle ==
    /\ Reset
    /\ rows' = rows \ Unsent(undo, undo')
    /\ UNCHANGED <<home, view, active, undone>>
    /\ Rendered

----------------------------------------------------------------------------
Min(S) == CHOOSE x \in S : \A y \in S : x <= y
Max(S) == CHOOSE x \in S : \A y \in S : y <= x

\* Mutant of Advance: the next place of the list, whether there is a row or not.
AdvanceByIndex(ids) == IF active \notin ids \cap Visible THEN active ELSE active + 1

\* advanceFromMessages: the next row that stays, else the one before.
Advance(ids) ==
    LET later == {m \in Visible \ ids : m > active}
        earlier == {m \in Visible \ ids : m < active}
    IN  IF active \notin ids \cap Visible THEN active
        ELSE IF later # {} THEN Min(later)
        ELSE IF earlier # {} THEN Max(earlier) ELSE None

\* runUndoable: the rows vanish, the operation is begun, its toast is shown.
RunUndoable(ids, dest) ==
    LET op == [ids |-> ids, dest |-> dest, reading |-> active] IN
    /\ ids # {} /\ Cardinality(undo.out) < MaxRequests
    /\ active' = Advance(ids)
    /\ hidden' = hidden \cup ids
    /\ undo' = Expired(Begun(undo, op), toast)
    /\ toast' = [kind |-> "undo", ids |-> ids]
    /\ rows' = rows \ Unsent(undo, undo')
    /\ undone' = undone \ ids
    /\ UNCHANGED <<home, view>>
    /\ Rendered

\* The row's buttons and context menu, the batch toolbar, and the toolbar and
\* shortcuts of the open mail.
RowOperation(m, dest) == m \in Visible /\ dest # view /\ RunUndoable({m}, dest)
BatchOperation(ids, dest) == ids \subseteq Visible /\ dest # view /\ RunUndoable(ids, dest)
CurrentOperation(dest) == active # None /\ dest # view /\ RunUndoable({active}, dest)

\* The context menu moves without a window for undo.
MoveDirectly(m, dest) ==
    /\ m \in Visible /\ dest \in Folders \ {view}
    /\ Cardinality(undo.out) < MaxRequests
    /\ undo' = [undo EXCEPT !.out = @ \cup {[ids |-> {m}, dest |-> dest]}]
    /\ rows' = rows \ {m}
    /\ undone' = undone \ {m}
    /\ UNCHANGED <<home, view, hidden, active, toast>>
    /\ Rendered

\* Mutant of RolledBack: the undo of the toast sends the operation.
RolledBackSent ==
    /\ undo' = Flushed(undo)
    /\ hidden' = hidden \ undo.pending.ids
    /\ active' = IF undo.pending.reading = None THEN active ELSE undo.pending.reading
    /\ undone' = undone \cup undo.pending.ids

\* undo: the rows come back and the mail that was open is opened again.
RolledBack ==
    /\ undo' = [undo EXCEPT !.pending = None]
    /\ hidden' = hidden \ undo.pending.ids
    /\ active' = IF undo.pending.reading = None THEN active ELSE undo.pending.reading
    /\ undone' = undone \cup undo.pending.ids

\* handleAction of the toast and handleUndo.  Nothing pending is said aloud.
ClickUndo ==
    /\ toast.kind = "undo"
    /\ \/ /\ undo.pending # None /\ RolledBack
          /\ toast' = NoToast
       \/ /\ undo.pending = None
          /\ toast' = PlainToast
          /\ UNCHANGED <<hidden, active, undo, undone>>
    /\ UNCHANGED <<home, view, rows>>
    /\ Rendered

\* Ctrl+Z takes the operation back and leaves the toast where it is.
CtrlZ ==
    /\ \/ /\ undo.pending # None /\ RolledBack
          /\ UNCHANGED <<rows, toast>>
       \/ /\ undo.pending = None
          /\ ShowToast(PlainToast)
          /\ UNCHANGED <<rows, hidden, active, undone>>
    /\ UNCHANGED <<home, view>>
    /\ Rendered

\* A toast ends by its timer, or because another part of the client shows one.
ToastEnds(t) ==
    /\ toast # t
    /\ ShowToast(t)
    /\ rows' = rows \ Unsent(undo, undo')
    /\ UNCHANGED <<home, view, hidden, active, undone>>
    /\ Rendered

ToastTimer == toast # NoToast /\ ToastEnds(NoToast)
OtherToast == ToastEnds(PlainToast)

----------------------------------------------------------------------------
\* A request ends.  A success takes the mails away; a failure gives the cache
\* back; both fetch the list again (onSettled).
Settle(op, ok) ==
    /\ op \in undo.out
    /\ undo' = [undo EXCEPT !.out = @ \ {op}]
    /\ home' = IF ok THEN [m \in Mails |-> IF m \in op.ids /\ home[m] # Gone THEN op.dest ELSE home[m]]
               ELSE home
    /\ rows' = {m \in Mails : home'[m] = view}
    /\ UNCHANGED <<view, hidden, active, toast, undone>>
    /\ Rendered

\* The list is fetched again: an event of the server, a focus of the window.
Refetch ==
    /\ rows # Listed(view)
    /\ rows' = Listed(view)
    /\ UNCHANGED <<home, view, hidden, active, undo, toast, undone>>
    /\ Rendered

\* Another device or a rule moves or deletes.
OtherDevice(m) ==
    /\ home[m] # Gone
    /\ \E p \in Places \ {home[m]} : home' = [home EXCEPT ![m] = p]
    /\ UNCHANGED <<view, rows, hidden, kept, active, undo, toast, undone>>

\* The tab is closed or reloaded: beforeunload sends the pending operation.
\* A request in flight arrives or is lost; the address keeps the open mail.
Reload ==
    /\ \E sent \in SUBSET Flushed(undo).out :
          home' \in {h \in [Mails -> Places] : \A m \in Mails :
                        IF home[m] # Gone /\ (\E op \in sent : m \in op.ids)
                        THEN \E op \in sent : m \in op.ids /\ h[m] = op.dest
                        ELSE h[m] = home[m]}
    /\ rows' = {m \in Mails : home'[m] = view}
    /\ hidden' = {}
    /\ kept' = {active} \cap rows'
    /\ undo' = [pending |-> None, out |-> {}]
    /\ toast' = NoToast
    /\ UNCHANGED <<view, active, undone>>

Operate ==
    \/ \E m \in Mails, d \in Places : RowOperation(m, d) \/ MoveDirectly(m, d)
    \/ \E ids \in SUBSET Mails, d \in Places : BatchOperation(ids, d)
    \/ \E d \in Places : CurrentOperation(d)
    \/ ClickUndo \/ CtrlZ
    \/ ToastTimer \/ OtherToast
    \/ \E op \in undo.out, ok \in BOOLEAN : Settle(op, ok)

Browse ==
    \/ \E m \in Mails : Open(m) \/ OtherDevice(m)
    \/ Close \/ ChangeStyle \/ Refetch \/ Reload
    \/ \E v \in Folders : SelectView(v)

Next == Operate \/ Browse

Spec == Init /\ [][Next]_vars

----------------------------------------------------------------------------
(* Properties *)

TypeOK ==
    /\ home \in [Mails -> Places]
    /\ view \in Folders
    /\ rows \subseteq Mails /\ hidden \subseteq Mails /\ kept \subseteq Mails
    /\ undone \subseteq Mails
    /\ active \in Mails \cup {None}
    /\ undo.pending \in Ops \cup {None} /\ undo.out \subseteq Requests
    /\ toast \in Toasts

\* useUndoable, "four places that must flush": an operation never waits
\* without a toast on the screen whose end will send it, whatever replaced,
\* dismissed or reset the toasts in between.
PendingHasToast == undo.pending # None => toast.kind = "undo"

SendsNoUndone == \A op \in undo.out' \ undo.out : op.ids \cap undone' = {}

SendsOrTakesBack ==
    undo.pending # None /\ undo'.pending # undo.pending =>
        \/ Request(undo.pending) \in undo'.out
        \/ undo.pending.ids \subseteq undone'
        \/ Reload

\* An operation that was begun has one end.  It is never forgotten: when it no
\* longer waits it has been sent or was taken back, or the page was left; and
\* when it was taken back it is not sent afterwards, by no timer, new toast,
\* change of view or reload, unless the user orders it again.
OperationHasOneEnd == [][SendsNoUndone /\ SendsOrTakesBack]_vars

KeepsOpenRow ==
    active \in Visible /\ active' = active /\ view' = view => active \in Visible' \/ Reload

\* kept-rows.ts: a mail that is being read stays on the list, whatever is
\* fetched, marked or moved elsewhere, until another is opened or the view
\* changes or the page is loaded anew; "next" and "previous" stay defined.
OpenRowStays == [][KeepsOpenRow]_vars

OffersUndo == toast' # toast /\ toast'.kind = "undo" => undo'.pending # None

\* useUndoable.ts, "why undo returns a value": the button that offers to undo
\* an operation is there to undo it.  Shell begins the operation and then shows
\* its toast, and the toast that is replaced flushes what is pending: the
\* operation that was just begun.  Property of a run that expects a violation.
UndoIsOffered == [][OffersUndo]_vars
=============================================================================
