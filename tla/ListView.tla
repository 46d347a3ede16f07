------------------------------ MODULE ListView ------------------------------
(***************************************************************************)
(* The list of the FlyMail client as a window on a longer list: pages that *)
(* are fetched when the end comes near, and the selection the batch        *)
(* toolbar works on (flymail/frontend/src: components/mail/MailList.tsx,   *)
(* pages/Shell.tsx, lib/list-guards.ts, lib/select-by.ts, and the infinite *)
(* queries of lib/queries.ts).                                             *)
(*                                                                         *)
(* A view is a folder, or a list whose pages carry a cursor (a search for a *)
(* word, an aggregate).  The window for undo and its toast are MailDesk's. *)
(***************************************************************************)
EXTENDS Integers, FiniteSets, MailIds, KeptRows

CONSTANTS
    FolderViews,    \* views whose pages end by their length
    Words,          \* views that are searches; their pages carry a cursor
    PageSize

ASSUME ListAssumption ==
    PageSize \in Nat \ {0} /\ FolderViews \cap Words = {}

VARIABLES
    match,          \* what the server lists in the view
    viewed,         \* the view
    loaded,         \* the mails in the pages of the query
    pages,          \* the number of pages the query holds
    tail,           \* the mails in the last page
    cursor,         \* the place of the next page, of a search; None: no more
    load,           \* the request of the query
    trimmed,        \* history: the last page was cut by an operation since it
                    \* was fetched
    snap,           \* the snapshot of the operation that was sent (onMutate)
    guard,          \* loadedLenRef
    selected,       \* selectedIds
    openId,         \* the mail that is open (messageId)
    keptMsgs,       \* the rows that were opened in this view
    hiddenIds,
    pending,        \* the mails of the operation that can be undone
    reading,        \* the mail that was open when it was begun
    removing,       \* the mails of the operation that was sent
    shown           \* history: mails listed or open since the selection was reset

held == <<loaded, pages, tail, cursor, trimmed>>
query == <<held, load>>
waiting == <<hiddenIds, pending, reading>>
sending == <<removing, snap>>
acts == <<waiting, sending>>
drawn == <<keptMsgs, shown>>
listVars == <<match, viewed, query, guard, selected, openId, acts, drawn>>

Views == FolderViews \cup Words
LoadStates == {"first", "firstfailed", "cancelled", "idle", "next", "failed", "refetch"}
Loaded(l) == l \in {"idle", "next", "failed", "refetch"}

\* sourceKey: every search is the same source, so that typing does not scroll.
Source(v) == IF v \in Words THEN "search" ELSE v

Last(S) == CHOOSE x \in S : \A y \in S : y <= x
\* The first n rows of a list.
First(n, S) == {m \in S : Cardinality({x \in S : x < m}) < n}
After(S) == {m \in match : S = {} \/ m > Last(S)}

\* hasNextPage: the pages of a folder end with one that is not full.
More == IF viewed \in Words THEN cursor # None ELSE Cardinality(tail) = PageSize
Place == IF viewed \in Words THEN cursor ELSE Last(tail)

\* messages: what the list shows, counts and lets select.  A row that was
\* opened in this view is among them, although its mail was deleted or moved.
OnScreen == WithKept(loaded \ hiddenIds, keptMsgs)

ListInit ==
    /\ match \in SUBSET Mails
    /\ viewed \in Views
    /\ loaded = {} /\ pages = 0 /\ tail = {} /\ cursor = None /\ trimmed = FALSE
    /\ load = "first" /\ snap = None
    /\ guard = -1
    /\ selected = {} /\ openId = None
    /\ hiddenIds = {} /\ pending = {} /\ reading = None
    /\ removing = {}
    /\ keptMsgs = {} /\ shown = {}

\* What the cache holds for the query, and what a snapshot may be.
Pages == [loaded |-> loaded, pages |-> pages, tail |-> tail, cursor |-> cursor, trimmed |-> trimmed]
Snapshots ==
    {s \in [loaded : SUBSET Mails, pages : Nat, tail : SUBSET Mails,
            cursor : Mails \cup {None}, trimmed : BOOLEAN] :
        s.tail \subseteq s.loaded /\ s.pages > 0}

\* None stands for no snapshot, too.
ASSUME SnapshotAssumption == None \notin Snapshots

\* Every rendering computes the kept rows anew.
DrawnSince(old) ==
    /\ keptMsgs' = NextKept(keptMsgs, viewed' = viewed, loaded' \ hiddenIds', openId')
    /\ shown' = old \cup OnScreen' \cup ({openId'} \cap Mails)

Drawn == DrawnSince(shown)

----------------------------------------------------------------------------
(* The query *)

\* The cursor the server gives with a page.
CursorAfter(page, list) ==
    IF page # {} /\ viewed \in Words /\ (\E m \in list : m > Last(page))
    THEN Last(page) ELSE None

\* The pages that are held are fetched again, one after the other, as far as
\* there are any.
Fetched(n, list) ==
    LET got == First(n * PageSize, list)
        full == Cardinality(got) \div PageSize
        short == \/ Cardinality(got) % PageSize # 0 \/ full = 0
                 \/ viewed \in FolderViews /\ full < n
        count == IF short THEN full + 1 ELSE full
    IN  /\ loaded' = got
        /\ pages' = count
        /\ tail' = got \ First((count - 1) * PageSize, got)
        /\ cursor' = CursorAfter(got, list)
        /\ trimmed' = FALSE
        /\ load' = "idle"

FirstPage ==
    /\ load = "first"
    /\ Fetched(1, match)
    /\ UNCHANGED <<match, viewed, guard, selected, openId, acts>>
    /\ Drawn

FirstPageFails ==
    /\ load = "first"
    /\ load' = "firstfailed"
    /\ UNCHANGED <<match, viewed, held, guard, selected, openId, acts, drawn>>

\* The error state of an empty list has a button.
RetryFirst ==
    /\ load = "firstfailed"
    /\ load' = "first"
    /\ UNCHANGED <<match, viewed, held, guard, selected, openId, acts, drawn>>

\* What an invalidation asks for: a page that is being loaded is given up and
\* all pages are fetched again, or the first one.
Invalidated(l) == IF Loaded(l) THEN "refetch" ELSE "first"

\* The lists are invalidated (an event of the server, the window has the focus).
ListRefetch ==
    /\ load \in {"idle", "next", "failed"}
    /\ load' = Invalidated(load)
    /\ UNCHANGED <<match, viewed, held, guard, selected, openId, acts, drawn>>

Refetched ==
    /\ load = "refetch"
    /\ Fetched(pages, match)
    /\ UNCHANGED <<match, viewed, guard, selected, openId, acts>>
    /\ Drawn

\* A failing one leaves the pages as they are, and nothing is said of it.
RefetchFails ==
    /\ load = "refetch"
    /\ load' = "idle"
    /\ UNCHANGED <<match, viewed, held, guard, selected, openId, acts, drawn>>

\* Mutant of Cancelled: a cancelled first page counts as a page that was loaded.
CancelledAsLoaded(l) == IF l = "firstfailed" THEN l ELSE "idle"

\* What an operation does to the requests of the lists: they are cancelled,
\* and a first page is not asked for again until the operation ends.
Cancelled(l) == CASE l = "first" -> "cancelled"
                  [] Loaded(l) -> "idle"
                  [] OTHER -> l

----------------------------------------------------------------------------
(* Paging *)

\* shouldLoadMore, when the last visible row is near the end of the list.
ShouldLoadMore ==
    /\ More /\ load \in {"idle", "refetch"}
    /\ guard # Cardinality(OnScreen)

\* The effect that depends on the last visible row and the state of the query.
AutoLoad ==
    /\ ShouldLoadMore
    /\ guard' = Cardinality(OnScreen)
    /\ load' = "next"
    /\ UNCHANGED <<match, viewed, held, selected, openId, acts, drawn>>

\* Mutant of NextRows: the page is asked for by its number.
NextRowsByNumber == First((pages + 1) * PageSize, match) \ First(pages * PageSize, match)

\* The page asked for by its place.
NextRows == First(PageSize, {m \in match : m > Place})

NextPage ==
    /\ load = "next"
    /\ loaded' = loaded \cup NextRows
    /\ pages' = pages + 1
    /\ tail' = NextRows
    /\ cursor' = CursorAfter(NextRows, match)
    /\ trimmed' = FALSE
    /\ load' = "idle"
    /\ UNCHANGED <<match, viewed, guard, selected, openId, acts>>
    /\ Drawn

NextPageFails ==
    /\ load = "next"
    /\ load' = "failed"
    /\ UNCHANGED <<match, viewed, held, guard, selected, openId, acts, drawn>>

\* The button under the list is the only way on after a failure.
RetryNextPage ==
    /\ load = "failed" /\ loaded # {}
    /\ load' = "next"
    /\ UNCHANGED <<match, viewed, held, guard, selected, openId, acts, drawn>>

----------------------------------------------------------------------------
(* Changing the view *)

\* Mutant of ResetSelection: the selection is reset like the scroll position.
ResetSelectionWithSource(v) ==
    /\ selected' = IF Source(v) = Source(viewed) THEN selected ELSE {}

\* selectionKey holds the word of a search, sourceKey does not.
ResetSelection(v) == selected' = {}

\* Another folder, aggregate, filter or word.  The answer to a request of the
\* old view goes to the old query, and so does its snapshot; an operation that
\* waits is sent, after the first page of the new view was asked for.
ChangeView(v) ==
    /\ v # viewed
    /\ viewed' = v
    /\ match' \in SUBSET Mails
    /\ loaded' = {} /\ pages' = 0 /\ tail' = {} /\ cursor' = None
    /\ trimmed' = FALSE /\ snap' = None
    /\ load' = IF pending = {} THEN "first" ELSE Cancelled("first")
    /\ ResetSelection(v)
    /\ guard' = IF Source(v) = Source(viewed) THEN guard ELSE -1
    /\ openId' = IF v \in Words THEN openId ELSE None
    /\ hiddenIds' = {}
    /\ removing' = IF pending = {} THEN removing ELSE pending
    /\ pending' = {} /\ reading' = None
    /\ DrawnSince({})

----------------------------------------------------------------------------
(* The selection *)

\* handleMessageClick: with Ctrl the row is picked, with Shift the rows from
\* the anchor on (a row that was clicked before and is still on the list); else
\* the row is opened.
Between(a, b) == {m \in OnScreen : (a <= m /\ m <= b) \/ (b <= m /\ m <= a)}

CtrlClick(m) ==
    /\ m \in OnScreen
    /\ selected' = IF m \in selected THEN selected \ {m} ELSE selected \cup {m}
    /\ UNCHANGED <<match, viewed, query, guard, openId, acts, drawn>>

ShiftClick(anchor, m) ==
    /\ m \in OnScreen /\ anchor \in OnScreen
    /\ selected' = selected \cup Between(anchor, m)
    /\ UNCHANGED <<match, viewed, query, guard, openId, acts, drawn>>

Click(m) ==
    /\ m \in OnScreen
    /\ openId' = m
    /\ UNCHANGED <<match, viewed, query, guard, selected, acts>>
    /\ Drawn

\* x: the open mail, on the list or not.
ToggleCurrent ==
    /\ openId # None
    /\ selected' = IF openId \in selected THEN selected \ {openId}
                   ELSE selected \cup {openId}
    /\ UNCHANGED <<match, viewed, query, guard, openId, acts, drawn>>

\* Shift+J and Shift+K: the neighbour is picked with the open mail and opened.
Neighbours == {m \in OnScreen : m # openId /\ Between(openId, m) \subseteq {openId, m}}

Extend(m) ==
    /\ openId \in OnScreen /\ m \in Neighbours
    /\ selected' = selected \cup {openId, m}
    /\ openId' = m
    /\ UNCHANGED <<match, viewed, query, guard, acts>>
    /\ Drawn

\* "Select by": only rows that are loaded, which of them is the condition's.
SelectBy(S) ==
    /\ S \subseteq OnScreen
    /\ selected' = S
    /\ UNCHANGED <<match, viewed, query, guard, openId, acts, drawn>>

----------------------------------------------------------------------------
(* Operations on the selection *)

\* runUndoable takes the rows it works on from the selection and no others.
AfterOperation(ids) == selected \ ids

\* advanceFromMessages: the next row that stays, else the one before.
AdvanceFrom(ids) ==
    LET later == {m \in OnScreen \ ids : m > openId}
        earlier == {m \in OnScreen \ ids : m < openId}
    IN  CASE openId \notin ids \cap OnScreen -> openId
          [] later # {} -> CHOOSE m \in later : \A x \in later : m <= x
          [] earlier # {} -> Last(earlier)
          [] OTHER -> None

\* The row's own operations, those of the toolbar and those of the open mail
\* hide the rows at once.  Bound: one operation after the other; MailDesk has
\* the operations that replace each other, MailCache two that are in flight.
Remove(ids) ==
    /\ ids # {} /\ pending = {} /\ removing = {}
    /\ hiddenIds' = hiddenIds \cup ids
    /\ pending' = ids /\ reading' = openId
    /\ selected' = AfterOperation(ids)
    /\ openId' = AdvanceFrom(ids)
    /\ UNCHANGED <<match, viewed, query, guard, sending>>
    /\ Drawn

RemoveRow(m) == m \in OnScreen /\ Remove({m})
RemoveCurrent == openId # None /\ Remove({openId})
RemoveSelected == Remove(selected)

\* What was open is opened again.
Undo ==
    /\ pending # {}
    /\ hiddenIds' = hiddenIds \ pending
    /\ pending' = {} /\ reading' = None
    /\ openId' = IF reading = None THEN openId ELSE reading
    /\ UNCHANGED <<match, viewed, query, guard, selected, sending>>
    /\ Drawn

\* The request: the pages are kept for the case that it fails, and the cache
\* loses the mails (onMutate).
Send ==
    /\ pending # {}
    /\ removing' = pending
    /\ snap' = IF pages = 0 THEN None ELSE Pages
    /\ pending' = {} /\ reading' = None
    /\ loaded' = loaded \ pending
    /\ tail' = tail \ pending
    /\ trimmed' = (trimmed \/ (viewed \in FolderViews /\ tail \cap pending # {}))
    /\ load' = Cancelled(load)
    /\ UNCHANGED <<match, viewed, pages, cursor, guard, selected, openId,
                   hiddenIds>>
    /\ Drawn

\* The operation ends: a failure puts the pages back (onError), and either way
\* the lists are invalidated (onSettled).
Removed(ok) ==
    /\ removing # {}
    /\ match' = IF ok THEN match \ removing ELSE match
    /\ removing' = {} /\ snap' = None
    /\ load' = Invalidated(load)
    /\ LET back == IF ok \/ snap = None THEN Pages ELSE snap IN
       /\ loaded' = back.loaded /\ pages' = back.pages /\ tail' = back.tail
       /\ cursor' = back.cursor /\ trimmed' = back.trimmed
    /\ UNCHANGED <<viewed, guard, selected, openId, waiting>>
    /\ Drawn

\* clearSelection: by the user, or because a batch of marks has succeeded,
\* whatever is selected by then.
ClearSelection ==
    /\ selected # {}
    /\ selected' = {}
    /\ UNCHANGED <<match, viewed, query, guard, openId, acts, drawn>>

\* What a snapshot would bring back.
Kept(s) == IF s = None THEN {} ELSE s.loaded

\* A mail leaves the view on the server, or a newer one comes in.
Leaves(m) ==
    /\ m \in match
    /\ match' = match \ {m}
    /\ UNCHANGED <<viewed, query, guard, selected, openId, acts, drawn>>

Arrives(m) ==
    /\ m \notin match /\ \A x \in match \cup loaded \cup Kept(snap) : m < x
    /\ match' = match \cup {m}
    /\ UNCHANGED <<viewed, query, guard, selected, openId, acts, drawn>>

ListNext ==
    \/ FirstPage \/ FirstPageFails \/ RetryFirst
    \/ ListRefetch \/ Refetched \/ RefetchFails
    \/ AutoLoad \/ NextPage \/ NextPageFails \/ RetryNextPage
    \/ \E v \in Views : ChangeView(v)
    \/ \E m \in Mails : \/ CtrlClick(m) \/ Click(m) \/ Extend(m)
                        \/ RemoveRow(m) \/ Leaves(m) \/ Arrives(m)
    \/ ToggleCurrent \/ RemoveCurrent \/ RemoveSelected \/ Undo \/ Send \/ ClearSelection
    \/ \E a, m \in Mails : ShiftClick(a, m)
    \/ \E S \in SUBSET Mails : SelectBy(S)
    \/ \E ok \in BOOLEAN : Removed(ok)

ListSpec == ListInit /\ [][ListNext]_listVars

----------------------------------------------------------------------------
(* Properties *)

ListTypeOK ==
    /\ match \subseteq Mails /\ loaded \subseteq Mails
    /\ viewed \in Views
    /\ pages \in Nat /\ tail \subseteq loaded
    /\ cursor \in Mails \cup {None} /\ load \in LoadStates /\ trimmed \in BOOLEAN
    /\ Loaded(load) <=> pages > 0
    /\ guard \in Int
    /\ selected \subseteq Mails /\ shown \subseteq Mails /\ hiddenIds \subseteq Mails
    /\ keptMsgs \subseteq Mails
    /\ pending \subseteq hiddenIds /\ removing \subseteq Mails
    /\ openId \in Mails \cup {None}
    /\ reading \in Mails \cup {None}
    /\ snap \in Snapshots \cup {None} /\ (snap # None => pages > 0)

\* Shell.tsx, "selection scope": whatever is selected was listed or open in
\* this view and for this word, however rows were kept, hidden, brought back,
\* paged and fetched again since, so that a batch never reaches mails of the
\* view before.
SelectionIsSound == selected \subseteq shown

\* "No more" is said of a list that has no more, whatever left or came in while
\* its pages were loaded, cancelled, fetched again, or failed to be; unless an
\* operation has cut the last page of a folder and the list could not be
\* fetched since: queries.ts:169 takes such a page for the last one.
EndIsEnd ==
    load = "idle" /\ ~More /\ ~trimmed /\ loaded # {} => After(loaded) \subseteq removing
=============================================================================
