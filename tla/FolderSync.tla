----------------------------- MODULE FolderSync -----------------------------
(***************************************************************************)
(* The incremental synchronisation of one inbox                            *)
(* (flymail/backend/modules/email: message/service.go,                     *)
(* message/repository.go, sync/manager.go, sync/search_remote.go).         *)
(*                                                                         *)
(* A round runs in the account's runner goroutine: SELECT, fetch the UIDs  *)
(* behind the anchor batch by batch, count what came in, hand it to the    *)
(* rule engine, save the folder row, notify.  HTTP handlers delete rows at *)
(* any moment of a round; the server receives mail at any moment; a round  *)
(* can end with an error or with the process between any two steps.  What  *)
(* the runner itself does besides (write-back, remote search) only happens *)
(* between two rounds.                                                     *)
(*                                                                         *)
(* A mail is its UID.  UIDs are renumbered when the UIDVALIDITY (epoch) of *)
(* the folder changes; the history variables then start afresh.  Primary   *)
(* keys grow, so "id > AfterID" means: inserted since the round began.     *)
(***************************************************************************)
EXTENDS Integers, FiniteSets

CONSTANTS
    MaxUID,             \* bound: UIDs ever assigned in one epoch
    BatchSize,          \* fetchBatchSize (200 in the code), counted in UIDs
    SyncDepth,          \* syncDepth (500 in the code)
    Servers,            \* kinds of servers: TRUE tells its UIDNEXT, FALSE does
                        \* not (NetEase 163)
    MaxEpoch,           \* bound: values of UIDVALIDITY
    MaxFaults,          \* bound: rounds that fail, rule and database errors
    MaxCrashes          \* bound: deaths of the process

ASSUME MaxUIDAssumption == MaxUID \in Nat
ASSUME BatchSizeAssumption == BatchSize \in Nat \ {0}
ASSUME SyncDepthAssumption == SyncDepth \in Nat \ {0}
ASSUME ServersAssumption == Servers \subseteq BOOLEAN
ASSUME LimitsAssumption ==
    MaxEpoch \in Nat \ {0} /\ MaxFaults \in Nat /\ MaxCrashes \in Nat

UIDs == 1..MaxUID
NextUIDs == 1..(MaxUID + 1)

VARIABLES
    \* the server
    reports,    \* it tells its UIDNEXT
    box,        \* UIDs in the mailbox
    unext,      \* UIDNEXT
    epoch,      \* UIDVALIDITY
    \* the database
    rows,       \* UIDs that have a row in messages
    stale,      \* rows of an earlier epoch
    fv, fnext,  \* columns uid_validity and uid_next of the folder (0: never)
    removing,   \* UIDs named by a delete or move in writeback_ops
    \* the round in progress
    s,          \* where it is and what it has captured
    fresh,      \* rows inserted since it began (id > AfterID)
    unseen,     \* NewMail.Unseen
    faults, crashes,
    \* history
    deleted,    \* removed locally by the user or by a rule
    noticed,    \* announced as new mail
    floor,      \* the import was limited to UIDs from here on
    passed      \* UIDs that lie below a row which stands in for the anchor
                \* though no fetch has come so far: a hit of a search, or a row
                \* of an epoch that no round has recorded

server == <<box, unext, epoch>>
folder == <<fv, fnext, reports>>
bounds == <<faults, crashes>>
history == <<deleted, noticed, floor, passed>>
vars == <<server, rows, stale, folder, removing, s, fresh, unseen, bounds, history>>

Steps == {"idle", "fetch", "count", "rules", "save", "notify"}
Rounds == [pc : Steps, star : BOOLEAN, from : Nat, to : Nat, next : Nat,
           ep : Nat, before : Nat, base : BOOLEAN]
NoRound == [pc |-> "idle", star |-> FALSE, from |-> 1, to |-> 0, next |-> 0,
            ep |-> 0, before |-> 0, base |-> FALSE]

Init ==
    /\ \E n \in 0..MaxUID : unext = n + 1 /\ box = 1..n
    /\ epoch = 1
    /\ rows = {} /\ stale = {}
    /\ fv = 0 /\ fnext = 0 /\ reports \in Servers
    /\ removing = {}
    /\ s = NoRound
    /\ fresh = {} /\ unseen = {}
    /\ faults = 0 /\ crashes = 0
    /\ deleted = {} /\ noticed = {}
    /\ floor = 1 /\ passed = {}

----------------------------------------------------------------------------
(* Beginning a round: IncrementalSync up to the first FETCH *)

\* n is MaxUID(S) + 1.
NextAfter(n, S) ==
    /\ n \in NextUIDs
    /\ \A u \in S : u < n
    /\ n > 1 => n - 1 \in S

\* Mutant of Rebuilding: UIDVALIDITY is not compared.
RebuildingIgnored == FALSE

Rebuilding == fv # 0 /\ epoch # fv

\* The first UID of the last SyncDepth UIDs below UIDNEXT.
DepthFrom == IF unext > SyncDepth THEN unext - SyncDepth ELSE 1

\* u is the oldest of the last SyncDepth mails (a range of sequence numbers).
RecentFrom(u) ==
    IF box = {} THEN u = unext
    ELSE /\ u \in box
         /\ Cardinality({v \in box : v > u}) < SyncDepth
         /\ \A v \in box : v < u => Cardinality({w \in box : w > v}) >= SyncDepth

\* Mutant of Round: the UIDNEXT that will be saved is one too high.
RoundOneTooFar(star, from, to, before, base) ==
    [pc |-> IF star \/ from <= to THEN "fetch" ELSE "count", star |-> star,
     from |-> from, to |-> to, next |-> unext + 1, ep |-> epoch,
     before |-> before, base |-> base]

Round(star, from, to, before, base) ==
    [pc |-> IF star \/ from <= to THEN "fetch" ELSE "count", star |-> star,
     from |-> from, to |-> to, next |-> unext, ep |-> epoch,
     before |-> before, base |-> base]

\* Known UIDNEXT: [anchor, UIDNEXT-1]; without an anchor the local maximum
\* stands in for it.
BeginRange ==
    /\ s.pc = "idle" /\ reports /\ ~Rebuilding
    /\ \E a \in NextUIDs :
         /\ IF fnext = 0 THEN NextAfter(a, rows) ELSE a = fnext
         /\ s' = Round(FALSE, a, unext - 1, Cardinality(rows), rows = {} /\ fnext = 0)
    /\ fresh' = {} /\ unseen' = {}
    /\ UNCHANGED <<server, rows, stale, folder, removing, bounds, history>>

\* No UIDNEXT, local mail: [local maximum + 1, *].
BeginStar ==
    /\ s.pc = "idle" /\ ~reports /\ ~Rebuilding /\ rows # {}
    /\ \E a \in NextUIDs :
         /\ NextAfter(a, rows)
         /\ s' = Round(TRUE, a, MaxUID, Cardinality(rows), FALSE)
    /\ fresh' = {} /\ unseen' = {}
    /\ UNCHANGED <<server, rows, stale, folder, removing, bounds, history>>

\* No UIDNEXT, nothing local: the last SyncDepth mails by sequence number.
BeginRecent ==
    /\ s.pc = "idle" /\ ~reports /\ ~Rebuilding /\ rows = {}
    /\ \E u \in NextUIDs :
         /\ RecentFrom(u)
         /\ s' = Round(FALSE, u, unext - 1, 0, fnext = 0)
         /\ floor' = u
    /\ fresh' = {} /\ unseen' = {}
    /\ UNCHANGED <<server, rows, stale, folder, removing, bounds, deleted,
                   noticed, passed>>

\* Mutant of BeginRebuild: the rows of the old epoch are not deleted.
BeginRebuildKeepingRows ==
    /\ s.pc = "idle" /\ Rebuilding
    /\ \E u \in NextUIDs :
         /\ IF reports THEN u = DepthFrom ELSE RecentFrom(u)
         /\ s' = Round(FALSE, u, IF box = {} THEN 0 ELSE unext - 1, 0, TRUE)
         /\ floor' = u
    /\ fresh' = {} /\ unseen' = {} /\ passed' = {}
    /\ UNCHANGED <<server, rows, stale, folder, removing, bounds, deleted,
                   noticed>>

\* UIDVALIDITY has changed: DeleteByFolder, then SyncFolderMessages.
BeginRebuild ==
    /\ s.pc = "idle" /\ Rebuilding
    /\ rows' = {} /\ stale' = {}
    /\ \E u \in NextUIDs :
         /\ IF reports THEN u = DepthFrom ELSE RecentFrom(u)
         /\ s' = Round(FALSE, u, IF box = {} THEN 0 ELSE unext - 1, 0, TRUE)
         /\ floor' = u
    /\ fresh' = {} /\ unseen' = {} /\ passed' = {}
    /\ UNCHANGED <<server, folder, removing, bounds, deleted, noticed>>

Begin == BeginRange \/ BeginStar \/ BeginRecent \/ BeginRebuild

----------------------------------------------------------------------------
(* The steps of a round *)

\* Mutant of Batch: an open range is taken to exclude its lower end.
BatchExclusive ==
    IF ~s.star THEN {u \in box : s.from <= u /\ u < s.from + BatchSize /\ u <= s.to}
    ELSE {u \in box : u > s.from}

\* What a FETCH of the current range returns.  "n:*" is never empty: beyond
\* the last UID it means the last UID.
Batch ==
    IF ~s.star THEN {u \in box : s.from <= u /\ u < s.from + BatchSize /\ u <= s.to}
    ELSE IF \E u \in box : u >= s.from THEN {u \in box : u >= s.from}
    ELSE {u \in box : \A v \in box : v <= u}

\* Upsert: one row per UID.
Store(B) ==
    /\ rows' = rows \cup B
    /\ stale' = stale \ B
    /\ fresh' = fresh \cup (B \ rows)

FetchBatch ==
    /\ s.pc = "fetch"
    /\ Store(Batch)
    /\ s' = IF s.star \/ s.from + BatchSize > s.to THEN [s EXCEPT !.pc = "count"]
            ELSE [s EXCEPT !.from = @ + BatchSize]
    /\ UNCHANGED <<server, folder, removing, unseen, bounds, history>>

\* Mutant of FetchBreaks: the error is logged and the round goes on.
FetchBreaksUnnoticed ==
    /\ s.pc = "fetch"
    /\ faults < MaxFaults
    /\ faults' = faults + 1
    /\ \E k \in 0..MaxUID : Store({u \in Batch : u <= k})
    /\ s' = [s EXCEPT !.pc = "count"]
    /\ UNCHANGED <<server, folder, removing, unseen, crashes, history>>

\* The FETCH, an upsert or the thread assignment fails: a part of the batch is
\* stored, the round returns the error and saves nothing.
FetchBreaks ==
    /\ s.pc = "fetch"
    /\ faults < MaxFaults
    /\ faults' = faults + 1
    /\ \E k \in 0..MaxUID : Store({u \in Batch : u <= k})
    /\ s' = NoRound
    /\ UNCHANGED <<server, folder, removing, unseen, crashes, history>>

\* Mutant of Count: all unseen mail of the folder, not only id > AfterID.
CountAllUnseen ==
    /\ s.pc = "count"
    /\ LET grown == ~s.base /\ Cardinality(rows) > s.before
       IN  /\ unseen' = IF grown THEN rows ELSE {}
           /\ \E n \in NextUIDs :
                /\ NextAfter(n, rows)
                /\ s' = [s EXCEPT !.pc = IF grown THEN "rules" ELSE "save",
                                  !.next = IF reports THEN @ ELSE n]
    /\ UNCHANGED <<server, rows, stale, folder, removing, fresh, bounds, history>>

\* The result of IncrementalSync: rows that came in are recognised by the
\* growth of the row count.
Count ==
    /\ s.pc = "count"
    /\ LET grown == ~s.base /\ Cardinality(rows) > s.before
       IN  /\ unseen' = IF grown THEN fresh ELSE {}
           /\ \E n \in NextUIDs :
                /\ NextAfter(n, rows)
                /\ s' = [s EXCEPT !.pc = IF grown THEN "rules" ELSE "save",
                                  !.next = IF reports THEN @ ELSE n]
    /\ UNCHANGED <<server, rows, stale, folder, removing, fresh, bounds, history>>

\* runRules on the rows with id > AfterID, RefreshNewMail if they removed any.
Rules ==
    /\ s.pc = "rules"
    /\ \E moved \in SUBSET fresh :
         /\ rows' = rows \ moved
         /\ stale' = stale \ moved
         /\ fresh' = fresh \ moved
         /\ removing' = removing \cup moved
         /\ deleted' = deleted \cup moved
         /\ unseen' = IF moved = {} THEN unseen ELSE fresh \ moved
    /\ s' = [s EXCEPT !.pc = "save"]
    /\ UNCHANGED <<server, folder, bounds, noticed, floor, passed>>

\* The rule engine returns an error: it is logged.
RulesFail ==
    /\ s.pc = "rules"
    /\ faults < MaxFaults
    /\ faults' = faults + 1
    /\ s' = [s EXCEPT !.pc = "save"]
    /\ UNCHANGED <<server, rows, stale, folder, removing, fresh, unseen, crashes,
                   history>>

\* UpdateSyncState.
Save ==
    /\ s.pc = "save"
    /\ fv' = s.ep
    /\ fnext' = s.next
    /\ s' = [s EXCEPT !.pc = "notify"]
    /\ UNCHANGED <<server, reports, rows, stale, removing, fresh, unseen, bounds,
                   history>>

\* UpdateSyncState fails: it is logged.
SaveFails ==
    /\ s.pc = "save"
    /\ faults < MaxFaults
    /\ faults' = faults + 1
    /\ s' = [s EXCEPT !.pc = "notify"]
    /\ UNCHANGED <<server, rows, stale, folder, removing, fresh, unseen, crashes,
                   history>>

\* emitNewMailNotices, behind the gate UnseenTotal > 0.
Notify ==
    /\ s.pc = "notify"
    /\ noticed' = IF s.base THEN noticed ELSE noticed \cup unseen
    /\ s' = NoRound
    /\ UNCHANGED <<server, rows, stale, folder, removing, fresh, unseen, bounds,
                   deleted, floor, passed>>

----------------------------------------------------------------------------
(* Everybody else *)

\* A handler deletes or moves a mail away: the row goes at once, the rest is
\* the write-back queue's.
UserDeletes(u) ==
    /\ u \in rows
    /\ rows' = rows \ {u}
    /\ stale' = stale \ {u}
    /\ fresh' = fresh \ {u}
    /\ removing' = removing \cup {u}
    /\ deleted' = IF u \in stale THEN deleted ELSE deleted \cup {u}
    /\ UNCHANGED <<server, folder, s, unseen, bounds, noticed, floor, passed>>

\* The runner executes the removal ...
RemovalSucceeds(u) ==
    /\ s.pc = "idle" /\ u \in removing
    /\ removing' = removing \ {u}
    /\ box' = box \ {u}
    /\ UNCHANGED <<unext, epoch, rows, stale, folder, s, fresh, unseen, bounds,
                   history>>

\* ... or gives it up.
RemovalAbandoned(u) ==
    /\ s.pc = "idle" /\ u \in removing
    /\ faults < MaxFaults
    /\ faults' = faults + 1
    /\ removing' = removing \ {u}
    /\ UNCHANGED <<server, rows, stale, folder, s, fresh, unseen, crashes,
                   history>>

\* The next round takes the local maximum for the anchor: always on a server
\* that does not tell its UIDNEXT, elsewhere until the first import is saved.
RowsAreAnchor == ~reports \/ fnext = 0

\* RemoteSearch: StoreFetched of a hit that cannot be found locally.  Nothing is
\* fetched of what lies below it.
SearchStores(u) ==
    /\ s.pc = "idle" /\ u \in box \ (rows \ stale)
    /\ Store({u})
    /\ passed' = IF RowsAreAnchor THEN passed \cup {v \in box \ rows : v < u} ELSE passed
    /\ UNCHANGED <<server, folder, removing, s, unseen, bounds, deleted, noticed,
                   floor>>

Arrive ==
    /\ unext <= MaxUID
    /\ box' = box \cup {unext}
    /\ unext' = unext + 1
    /\ UNCHANGED <<epoch, rows, stale, folder, removing, s, fresh, unseen, bounds,
                   history>>

\* Another mail program removes a mail (during a round it comes to the same as
\* just before or just after it).
OtherClientRemoves(u) ==
    /\ s.pc = "idle" /\ u \in box
    /\ box' = box \ {u}
    /\ UNCHANGED <<unext, epoch, rows, stale, folder, removing, s, fresh, unseen,
                   bounds, history>>

\* The server renumbers or recreates the mailbox.  A session in which the
\* folder is selected does not see it.  Rows that came in before a round has
\* recorded an epoch are not recognised as old ones.
Renumber ==
    /\ s.pc = "idle" /\ epoch < MaxEpoch
    /\ \E n \in 0..MaxUID : unext' = n + 1 /\ box' = 1..n
    /\ epoch' = epoch + 1
    /\ stale' = rows
    /\ deleted' = {} /\ noticed' = {}
    /\ floor' = 1
    /\ passed' = IF fv = 0 THEN {u \in UIDs : \E v \in rows : u <= v} ELSE {}
    /\ UNCHANGED <<rows, folder, removing, s, fresh, unseen, bounds>>

\* The process dies, in the middle of a batch too.
Crash ==
    /\ s.pc # "idle"
    /\ crashes < MaxCrashes
    /\ crashes' = crashes + 1
    /\ IF s.pc = "fetch" THEN \E k \in 0..MaxUID : Store({u \in Batch : u <= k})
       ELSE UNCHANGED <<rows, stale, fresh>>
    /\ s' = NoRound
    /\ UNCHANGED <<server, folder, removing, unseen, faults, history>>

----------------------------------------------------------------------------
Step == FetchBatch \/ Count \/ Rules \/ Save \/ Notify

Next ==
    \/ BeginRange \/ BeginStar \/ BeginRecent \/ BeginRebuild
    \/ FetchBatch \/ FetchBreaks \/ Count \/ Rules \/ RulesFail
    \/ Save \/ SaveFails \/ Notify
    \/ \E u \in UIDs : \/ UserDeletes(u) \/ RemovalSucceeds(u)
                       \/ RemovalAbandoned(u) \/ SearchStores(u)
                       \/ OtherClientRemoves(u)
    \/ Arrive \/ Renumber \/ Crash

Spec == Init /\ [][Next]_vars

(* The poll timer fires for ever and the runner goroutine is scheduled;     *)
(* failures are bounded.  Nothing is assumed of the user, of the server or  *)
(* of the write-back queue.                                                 *)
FairSpec == Spec /\ WF_vars(Begin) /\ WF_vars(Step)

----------------------------------------------------------------------------
(* Properties *)

\* Types, and what the code takes for granted about its own state: UIDs in
\* use lie below UIDNEXT, the new rows are rows, a stale row is a row.
TypeOK ==
    /\ reports \in Servers
    /\ box \subseteq UIDs
    /\ unext \in NextUIDs
    /\ \A u \in box : u < unext
    /\ epoch \in 1..MaxEpoch
    /\ rows \subseteq UIDs
    /\ stale \subseteq rows
    /\ fv \in 0..MaxEpoch
    /\ fnext \in 0..(MaxUID + 1)
    /\ removing \subseteq UIDs
    /\ s \in Rounds
    /\ fresh \subseteq rows
    /\ unseen \subseteq UIDs
    /\ faults \in 0..MaxFaults
    /\ crashes \in 0..MaxCrashes
    /\ deleted \subseteq UIDs /\ noticed \subseteq UIDs /\ passed \subseteq UIDs
    /\ floor \in NextUIDs

\* n lies below the point from which the next round will fetch.
BelowAnchor(n) == IF reports THEN n < fnext ELSE \E u \in rows : n <= u

\* No mail is left behind the anchor: whatever is on the server below the point
\* from which the next round fetches has a row, unless it was deleted here, lies
\* beyond the depth of the import, or was passed by a row that no round fetched
\* (or not in this epoch).  The anchor only moves forward, so a mail left behind
\* it would never be fetched; failing batches, restarts, searches, deletions
\* and mail that arrives during a round must not leave one.
NothingSkipped ==
    fv = epoch =>
        \A u \in box : floor <= u /\ BelowAnchor(u) => u \in rows \cup deleted \cup passed

\* Rows of two UIDVALIDITY epochs are never mixed: once a round has recorded
\* the current epoch no row of an earlier one is left, but for rows that came
\* in before any epoch was recorded.
OneEpoch == fv = epoch => stale \subseteq passed

\* A mail is announced as new at most once, unless it was deleted here in
\* between and came back.
NoDuplicateNotice == [][Notify /\ ~s.base => unseen \cap noticed \subseteq deleted]_vars

\* Every mail that stays on the server gets a row (or was deleted here, lies
\* beyond the depth of the import, or was passed): rounds that fail and restarts
\* delay it, they do not lose it.
CatchesUp ==
    \A u \in UIDs :
        u \in box ~> (u \in rows \cup deleted \cup passed \/ u \notin box \/ u < floor)

=============================================================================
