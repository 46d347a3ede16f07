# A TLA+ development for FlyMail2

FlyMail2 holds two programs that share the library `core`: **FlyMail**, a web
mail client that keeps a local copy of IMAP accounts in SQLite
(`flymail/backend`, `flymail/frontend`), and **mail2im**, a worker that watches
mailboxes and forwards what arrives to chat channels (`mail2im/backend`), with
two administration front ends, one in React (`mail2im/frontend-react`) and one
in Vue (`mail2im/frontend`).  The development follows two things: FlyMail's
synchronisation engine, where goroutines, timers, a database, a remote server
and restarts meet, and the web fronts, where clicks, late answers, caches and
pushed events meet.

Paths are relative to `src/`; `sync/`, `message/`, `folder/` and `account/` are
directories of `flymail/backend/modules/email/`.

## Contents

1. [The system and its parts](#1-the-system-and-its-parts)
2. [Plan](#2-plan)
3. [Modules](#3-modules)
4. [What is checked](#4-what-is-checked)
5. [What is proved](#5-what-is-proved)
6. [What the checks refute](#6-what-the-checks-refute)
7. [What is not modelled](#7-what-is-not-modelled)

To check a module: `tlc -config MCWriteback_safety.cfg MCWriteback`; to prove the
theorems about it: `tlapm Writeback_proofs.tla`.

## 1. The system and its parts

### 1.1 How they interact

    FlyMail page ──(requests)──> HTTP handlers ──> SQLite <──(rows, folder state)── account runner ──> IMAP server
      │    ▲                        │                 ▲                                ▲    │
      │    │                        ├─(writeback_ops)─┘                                │    ├─(status, new_mail)─┐
      │    │                        ├─(background task)──> runner.bg ──────────────────┤    └─(rules, notices)──> channels
      │    │                        └─(foreground task, blocks)──> runner.fg ──────────┘                         │
      │    └────────(events: sync_status, new_mail, mail_state)──── SSE hub <────────────────────────────────────┘
      └─(poll, comparison after a reconnect)──> status store        Manager.reconcile ─(start / stop)─> runners

One goroutine per enabled account (the *runner*) owns the only IMAP connection
of the account.  Everything that needs the server is a task for the runner or a
step of its own periodic poll.  Handlers write to the database directly and
concurrently.  `Manager.reconcile` aligns the set of runners with the enabled
accounts every 30 s.  A page shows a cache of what the handlers answered;
operations change the cache at once and the server later, and events, polls and
refetches bring the two together again.  The administration pages of mail2im
know requests and, on some views, polls only.

### 1.2 Components

| component | state | operations | hard behaviour | what makes it correct |
|---|---|---|---|---|
| write-back queue (`sync/writeback.go`, `wbstore.go`, `mailops.go`) | table `writeback_ops`, local message rows | mark / move / delete, execute a task, drain what is due, settle, give up, recover | crash between any two steps, lost replies, half-done batches, a full task queue, database errors, retries | nothing accepted is lost silently; both sides agree when nothing is on its way; every operation ends |
| folder synchronisation (`message/`, `folder/`) | rows, `uid_validity`, `uid_next` per folder; captured anchor, AfterID, counts | incremental round, rebuild, save, rule hook, notices | failing batches, restart in the middle, mail arriving in between, UIDVALIDITY changes, servers without UIDNEXT, deletions during a round | the anchor leaves nothing behind; epochs are not mixed; nothing is announced twice |
| account runner (`sync/runner.go`, `breaker.go`) | connection, IDLE handle, breaker, backoff, throttle, task channels | take a task, connect, run, poll, IDLE, close | connections that die unnoticed, tasks inside a poll, refused tasks, timers | one connection; gates hold; every caller gets an answer; polling resumes |
| slots, triggers, reconcile (`sync/manager.go`, `service.go`) | `syncActive`, `running`, set of runners | acquire / release, manual synchronisation, start and stop runners | nested acquisition, changing limit, disabled accounts, blocking stop | the counter is exact; a manual synchronisation ends; reconcile is not blocked |
| live status (`sync/status.go`, `lib/sync-cache.ts`, `hooks/useAccountSync.ts`, `lib/sse.ts`) | status per account; the row a page shows | begin / publish, poll, push, comparison after a reconnect, trigger | channels that overtake each other, lost events, restart, states without a time | no account spins for ever |
| mail page: deferred operations (`pages/Shell.tsx`, `hooks/useUndoable.ts`, `components/ui/Toast.tsx`, `lib/kept-rows.ts`) | pending operation, toast, kept rows, open mail | delete, move, undo, replace, change view, reload | timers against clicks, toasts that replace each other, rows that stop matching while they are read | an operation is sent or taken back, once; what waits can be undone; the open mail stays |
| mail page: list (`components/mail/MailList.tsx`, `lib/list-guards.ts`) | pages, snapshot, kept rows, selection | fetch, cancel, roll back, click, range, batch operation, search | pages that are cut, cancelled, put back or fetched again, well or not, while mail comes and goes | the selection holds only what this view has shown; the end of the list is its end |
| mail page: cache (`lib/queries.ts`, `lib/optimistic.ts`, `hooks/useRealtimeSync.ts`) | list, badges, snapshots, event timer | mark, move, delete, roll back, refetch, `mail_state`, `new_mail` | overlapping mutations and rollbacks, answers older than events | a quiet cache agrees with the server |
| composer and drafts (`components/mail/ComposeDialog.tsx`, `DraftsList.tsx`) | window, session, sender, signature, flight | open, type, choose sender, minimise, save, send, discard; send and delete in the list of drafts | late answers for a closed window, signatures that come late or fail, shortcut and button, the list beside the window | the window has one send at a time; the draft that was sent is deleted; the sender's signature |
| settings (`components/settings/`, `components/mail/AccountDialog.tsx`) | dialogs, lists, fields | type, dismiss, save, move, switch, delete | refetches while typing, optimistic orders, closing during a save | nothing typed is overwritten; moves add up; what is shown is stored |
| session of the three fronts (`lib/api.ts`, `services/`, `stores/auth.ts`, `router/index.ts`) | tokens per window and stored | login, guard, 401, shared renewal, logout | several windows, rotation, requests that fail together | the user stays signed in |
| mail2im administration (`pages/`, `views/`) | table, form, confirmation, polls | list, edit, save, delete, import, policy | answers for another record, overtaking fetches, partial saves | what is sent was meant; what is shown is stored; polls go on |
| health watcher, notify; OAuth tokens and flows; login limiter; accounts; rule engine; threads; full-text search; sending; translation | | | the hazards of the OAuth flows are in `PROJECT.json` | not modelled (section 7) |
| mail2im worker, event bus, dispatcher | connection, `last_uid`, event queue | watch, fetch, publish, dispatch | skipped mail | not modelled (section 7) |
| server assembly, configuration, logging, database, commands, core libraries, desktop shell, component kits, texts, tests | | | | not modelled (section 7) |

`PROJECT.json` lists every component with its sources and status, and under
`hazards` the places in the code where these behaviours bite, with the property
that covers each, or the reason why none does.

## 2. Plan

| module | composes / implements | properties, theorems |
|---|---|---|
| `DurableQueue`, `Writeback` | `Writeback` implements `DurableQueue` | no accepted operation lost, quiet agreement, progress; all safety proved |
| `FolderSync` | — | nothing skipped, one epoch, no duplicate notice, catching up; all safety proved |
| `Runner` | — | one connection, gates, answers, polls resume; all safety proved |
| `SyncSlots` | polls with manual synchronisations | exact counter, limit, triggers end; all safety proved |
| `MailDesk`, `ListView`, `MailCache` | share `MailIds`; `MailDesk` uses `KeptRows` | deferred operations, selection, end of the list, fresh cache; all proved |
| `LiveStatus`, `AdminViews` | — | spinner, polls, current views; types and current views proved |
| `Compose`, `Session` | — | one send, right draft, right signature, staying signed in; all proved |
| `SettingsDialogs`, `SettingsLists`, `SettingsFields` | — | typing survives, moves add, quiet is stored; all proved |
| `AdminEditors`, `AdminSettings`, `AdminImport`, `AdminPolicy` | — | nothing unmeant, quiet is stored; all proved |

What would come next, in this order: the creation of runners beside
`reconcile` and `Stop` with the IDLE quota; the grants of OAuth with rotation
and parallel flows; the health watcher with the notification queue (abstractly:
one notice per fault and recovery); the worker of mail2im.  Of what is modelled
only liveness is not proved.

## 3. Modules

A component has its module, with an `ASSUME` on its constants; an `MC*` module
instantiates it for TLC, and a `*_proofs` module has its theorems:
`Writeback_proofs`, `FolderSync_proofs`, `Runner_proofs` and `SyncSlots_proofs` of
one module each, `MailPages_proofs` of the three of the mail page,
`Watching_proofs` of `LiveStatus` and `AdminViews`, `ComposeSession_proofs` of
`Compose` and `Session`, and `Forms_proofs` of the settings and the administration.

Where several small machines share nothing but constants, one `MC*` module runs
them side by side: its variable `part` says which of them a behaviour is about,
the variables of the others rest (in an initial state, or at the value `Off`),
and a property of the run is the conjunction of the modules' own properties,
each for its part.  This is `MCMailPages`, `MCWatching` and `MCForms`; no state
of one machine is ever combined with a state of another.

### 3.1 `Writeback` (and `DurableQueue`)

The write-back queue of one account and one folder.

| model | code |
|---|---|
| `server`, `local` | flags and existence of each message on the server and in `messages` |
| `req[h]`, actions `Load`, `WriteLocal`, `Persist`, `PersistFails`, `Submit` | one HTTP request: `loadGrouped`, the local update, `wbStore.Enqueue`, its error path, `ensureRunner` and `submitBackground` |
| `payload`, `pending`, `attempts`, `due` | the columns of `writeback_ops`; `due` is `next_attempt_at <= now` |
| `bg`, `up`, `run` | the task queue, whether a runner exists, the program counter of `DrainWriteback` / `processWriteback` / `applyAndSettle` |
| `TakeTask`, `RefuseTask`, `Poll` | a task of `runner.bg`, the gates of `exec`, the drain of `doPoll` |
| `CallSucceeds`, `CallFails` | `applyWriteback`; a failing command may have changed any subset of its UIDs |
| `SettleSuccess`, `SettleFailure`, `GiveUp`, `SettleFails` | `applyAndSettle` and `wbStore.Fail`, with a database error at each place |
| `BackoffElapses`, `Crash`, `Reconcile` | the clock, the death of the process, the start of a runner with its recovery task |

History variables (`confirmed`, `misses`, `abandoned`, `overlapped`, `lost`)
only record what happened.  `overlapped` are messages that were asked to change
while a change of them was under way: the code does not order such changes, so
no agreement is claimed for them.  `lost` are messages whose change was
abandoned, failed to be inserted, or died with the process before the insert.

`DurableQueue` is what the handlers are promised: an accepted operation is
delivered at least once or dropped after the allowed number of failures, and it
does not stay for ever.  `Writeback` implements it under
`Promise == INSTANCE DurableQueue WITH st <- Stage(i), hit <- confirmed`.

### 3.2 `FolderSync`

One inbox: `BeginRange`, `BeginStar`, `BeginRecent` and `BeginRebuild` are the
four ways `IncrementalSync` starts (UIDNEXT known; not known; not known and
nothing local; UIDVALIDITY changed), `FetchBatch` / `FetchBreaks` one batch of
`fetchRangeBatched`, `Count` the end of `IncrementalSync`, `Rules` /
`RulesFail`, `Save` / `SaveFails` and `Notify` the rest of `syncFolder`.
Handlers delete rows (`UserDeletes`), the write-back queue removes mail or
gives up (`RemovalSucceeds`, `RemovalAbandoned`), searches store hits
(`SearchStores`), the server receives, loses and renumbers mail (`Arrive`,
`OtherClientRemoves`, `Renumber`), the process dies (`Crash`).

A mail is its UID; the rows are a set of UIDs.  `reports` says whether the
server of this behaviour tells UIDNEXT; `Servers` are the kinds of servers an
instance looks at.  `fresh` stands for "primary key greater than AfterID".  `s`
holds what a round has captured in Go variables.  Searches and renumbering come
at any time between two rounds, before the first import too.

`passed` is history.  On a server without UIDNEXT, and everywhere until the
first import is saved, the next round takes the local maximum for its anchor
(`RowsAreAnchor`).  A row that no round has fetched then stands in for the
anchor, and what lies below it on the server is passed for good: the hit of a
search, and the rows that came in before any epoch was recorded, when the
server renumbers.  `passed` are the UIDs below such rows, and nothing else.

### 3.3 `Runner`

The goroutine of `runner.go` and its connection.  `pc` is where it is: in the
`select` of `loop`, in `execPreferFG`, in `exec` before and after the
connection is there, in the connecting part of `doPoll`, or in
`fullSyncMessages` (listing folders, in a folder, at a folder boundary).
`sess` is the variable of `loop`; `open` are the connections not closed and
`dead` those the other side has dropped; `poll.conn` is the copy that
`FullSync` works with.  Timers are two-valued: each period has begun or has
passed.

### 3.4 `SyncSlots`

The global limit: polls hold a slot during `fullSyncMessages`; manual
synchronisations are foreground tasks that ask for a slot of their own inside
the runner, also at a folder boundary of a poll that already holds one.
`Stop` / `Exit` are `runner.stop`, for which `reconcile` waits.

### 3.5 The mail page: `MailDesk`, `ListView`, `MailCache`

`MailIds` declares the mails (numbers, in the order of the list) and `None`.

`MailDesk` is `useUndoable` (`undo.pending`, `undo.out` for the requests sent),
the single toast (`ShowToast`, `ToastTimer`, `ClickUndo`), the lists of hidden and
kept rows (`KeptRows`: `nextKept`, `withKept`) and the open mail.  The order of
`begin`, `flush`, `show` and of the effects of a changed selection key is the
code's: `Begun` flushes the operation before it, then the new toast ends the old
one and with it runs its `onExpire`.  `undone` is history.

`ListView` is one infinite query with its pages (`loaded`, `pages`, `tail`,
`cursor`), its request (`load`), the selection (`CtrlClick`, range and key
selection, "select by", batch operations) and search words as views of their
own.  `OnScreen` is what the page draws and lets select: the pages without the
hidden rows, with the kept rows put back (`WithKept` of `KeptRows`, which
`MailDesk` uses too).  A row that was opened stays on the list until the view
changes, although its mail was deleted or moved.  An operation cuts the pages
and keeps a snapshot (`Send`, `snap`), cancels the requests (`Cancelled`), and
when it ends puts the snapshot back if it failed and asks for the pages again
(`Removed`, `Invalidated`).  That is a request of its own, which may end well
(`Refetched`), fail (`RefetchFails`) or be given up for the next page or the next
operation.  The anchor of a range is any row that is on the list.  `shown` and
`trimmed` are history.  The list has one operation at a time; operations that
replace each other are `MailDesk`'s, and those that overlap in flight
`MailCache`'s.

`MailCache` is the cache of one tab: one list stands for all keys that hold
rows, one badge for all keys that hold counts.  A mutation is `begun` (after
`cancelQueries`), sent with its snapshot, served, and ends with `Settle`
(rollback and refetch).  `mail_state` and `new_mail` come over the event stream,
echoes of this tab are dropped, `new_mail` waits for a timer, and the stream can
break.

### 3.6 `LiveStatus` and `AdminViews`

`LiveStatus`: `now` is what the server says of one account, `row` what the page
shows.  Trigger, one-second poll, pushed event and the comparison after a
reconnect each carry a state and write it under `IsNewer`.  `running` is the entry
of a manual synchronisation on the server: the next one is refused while it is
there, and accepted beside a background synchronisation.  Events can be lost,
the stream can break, the server can restart and forget the state.

`AdminViews`: each view of the two administration fronts is a record that says
how it asks (a query of TanStack Query, or a plain fetch), whether it polls,
moves to another subject and acts on what it shows; the actions are those of
the cache library as the code uses it, and of the plain fetches.

### 3.7 `Compose` and `Session`

`Compose`: `win` is the window (open, shrunk, draft), `session` the number of
the opening, `signature` the block in the editor and the account it is for,
`flight` the requests.  A window that is closed and opened again is the same
React component, so an answer is heard by whatever is open: that is what
`RightDraftDeleted` is about.  The list of drafts sends and deletes drafts with
requests of its own (`SendListed`, `DeleteListed`) that wait for nothing the
window does, nor the window for them.  The signature of an account is loading,
has failed or is loaded (`sigs`); a query that has failed counts as ready, with an
empty signature.  `signature.seen` is history: the signature of that account had
been found, and the editor was there to take it.

`Session`: per window the tokens in memory, the tokens stored, the requests and
the renewals; three fronts differ in where they look for tokens
(`AccessOf`, `RefreshOf`), in the guard of the Vue router (`Navigate`,
`GuardRenewal`) and in whether the server revokes a used refresh token
(`Rotates`).  `disturbed` is history: something happened after which the code
does not keep the session (section 4).

### 3.8 Settings and administration

`SettingsDialogs`, `SettingsLists` and `SettingsFields` model the settings of
FlyMail; `AdminEditors`, `AdminSettings`, `AdminImport` and `AdminPolicy` those
of mail2im.  The code repeats one protocol per dialog or page with small
differences.  A module states the protocol once and keeps the differences in
records that are named after the components and mapped to them (for example
`[waits |-> TRUE]`: the save button waits for the request before it); the
initial state chooses the record.

`AdminImport` is the import of a configuration: the boxes, the request, the
refusal and the retry with `overwrite`.  What the retry sends is what the
refusal kept (`KeptForRetry`): the boxes of the click in React, whose callback is
a closure of it, and the boxes of the moment the answer comes in Vue.  `questioned`,
`confirmed` and `replaced` are history: what the last refusal was about, what
the user has confirmed, and what imports have replaced.

## 4. What is checked

| run | question | bounds |
|---|---|---|
| `writeback_safety` | types, `NoAcceptedOpLost`, `QuietAgreement` | 2 messages, 2 requests, 2 operations, 2 attempts, queue of 1, 2 faults, 1 crash |
| `writeback_live` | `ImplementsDurableQueue`: every step refines, every accepted operation ends | 1 message, 2 requests, 2 operations, 2 attempts, queue of 1, 2 faults, 1 crash |
| `folder_rounds` | types, `NothingSkipped`, `OneEpoch`, `NoDuplicateNotice`, `CatchesUp`, on servers with and without UIDNEXT | 2 UIDs, 2 epochs, batch of 1, depth 1, searches and renumbering at any time, 2 faults, 1 crash |
| `runner_all` | types, `OneConnection`, `TakenIsExecuted`, `GatesRespected`, `Answered`, `PollsResume` | 2 callers, 2 folders, queue of 1, threshold 2, IDLE, 2 faults |
| `slots_all` | types, `SlotsAccounted`, `LimitKept`, `TriggersFinish`, `ReconcileReturns` | 3 accounts, 1 folder each, a limit moving between 4 and 5 |
| `mail_pages` | types, `PendingHasToast`, `OperationHasOneEnd`, `OpenRowStays`, `SelectionIsSound`, `EndIsEnd`, `QuietIsFresh` | 2 mails, 2 folders, 2 words, pages of 1, 1 deferred request in flight, 1 operation of the list at a time; 1 mail in the cache, 2 optimistic operations, 1 change from elsewhere |
| `watching` | types, `SpinnerEnds`, `PollsSettle`, `QuietViewIsCurrent` | 4 changes of a status, 2 subjects, 3 versions, 2 calls, 2 moves, 1 failure |
| `forms` | types, `OneSendAtATime`, `SignatureOfSender`, `RightDraftDeleted`, `NothingUnmeant`, `QuietIsStored`, `MovesAdd`, `TypingSurvives`, `StaysSignedIn` | 2 accounts, 1 draft, 2 openings, 2 requests; 2 records, 2 contents, 2 requests; 3 rows, 3 moves; 3 openings of a dialog; 2 windows, 2 requests each, 3 pairs of tokens, 1 failure |

Why the bounds are enough.

* `Writeback`: two operations on one message are what it takes to overlap; two
  messages make a command that is done by half visible, and let an operation
  on a group meet one on a single message.  A queue of one is full with the
  first task.  Two attempts tell the first failure from the last, two faults
  reach the give-up, and a restart once loses what is only in memory.  The
  theorems of section 5 remove these bounds for the safety properties.
* `FolderSync`: with two UIDs and batches of one a batch boundary lies inside a
  round, with mail behind it, and mail arrives between two of its steps.  Depth
  1 makes the depth of the first import cut something off.  Two faults and a
  crash are a failure of a round and another of the round that repairs it, with
  a restart before, between or after; two epochs are one renumbering.
* `Runner`: two callers and two folders let a foreground task fail at a folder
  boundary, another follow it, and the poll go on.  A threshold of 2 makes the
  breaker open and half-open with two faults.
* `SyncSlots`: three polls and three manual synchronisations inside them ask
  for six slots; four or five are there, so slots run out while the limit moves
  below what is in use.  The limit stays above the number of accounts in this
  run: `slots_deadlock` (section 6) shows why it has to.
* The mail page: with two mails and pages of one there is a boundary between
  pages, a cursor, a row that leaves while the next page is loaded, a page that
  is cut to nothing and a refetch of it that fails; a deferred operation, its
  request and a second operation are all at once under way. In the cache two
  optimistic operations on one mail (`CacheMails`) overlap, fail and roll back
  in every order; a change from elsewhere makes echo and event differ. More
  mails in the cache are the theorem's.
* `watching`: four changes are one synchronisation that begins, goes on, ends
  and begins again while an older state is still on its way.
* `forms`: two requests of each kind overtake each other; two records tell the
  one meant from another; three rows are the fewest on which two moves do not
  undo each other; two windows share stored tokens; three pairs are a login and
  two renewals.

Constraints on the instances, beside the constants.  `forms` does not follow a
behaviour of `Session` any further once `disturbed` holds (`Undisturbed`), as
nothing is promised from there on; and it leaves out two of the six sections of
`SettingsLists` (`Different`), which behave like two others.  `MaxFlight` bounds
the requests of a list in flight at once.  `Symmetry` of `MCWriteback` is used
only where no liveness is checked; that of `MCMailPages` makes the two words of a
search interchangeable, and the run checks no liveness.

`CHECK_DEADLOCK FALSE` stands where the bounded environment can run out of
things to do (all operations issued, no fault left, all requests answered).

Properties that are weaker than one may expect, because the code is.

* `QuietAgreement` excludes messages whose changes overlapped or were lost.
* `NothingSkipped`, `OneEpoch` and `CatchesUp` except what was passed (section 3.2):
  the code fetches no mail below a search hit that stands in for the anchor, and
  keeps the rows of an epoch no round has recorded.
* `SelectionIsSound` speaks of what the view has shown.  A mail that was open and
  was deleted or moved stays on the list until the view changes, and can be
  selected and operated on again (`Shell.tsx:328`; the comment at 256 to 268
  keeps rows that stop matching a filter, not rows that are gone).
* `EndIsEnd` excepts a folder whose last page an operation has cut and that could
  not be fetched since (`trimmed`).  A page that is not full is taken for the last
  one (`queries.ts:169`), so after a refetch that failed the list says there is no
  more (`MailList.tsx:2036-2060`) although there may be.
* `OneSendAtATime` speaks of the composer.  The list of drafts sends beside it
  with no guard (`DraftsList.tsx:83-91`), so that two mails, and one mail twice,
  can be on their way; and once a send has succeeded the window can send again
  while the draft is being deleted.
* `SignatureOfSender` speaks of signatures that were found while the editor was
  there.  A query that failed counts as ready (`ComposeDialog.tsx:230`), the
  empty signature as inserted (267-281), and the success of a later query does
  not replace it; the minimised window drops the editor with its signature.
* `ReplacesTheConfirmed` (in `NothingUnmeant`) speaks of the page in React, and of
  accounts and proxies.  The retry in Vue sends the boxes as they are when the
  refusal comes; channels and settings are replaced without a question.  It does
  not say that the user was told what is replaced: the dialog of both pages reads
  `data.conflicts` (`Settings.tsx:437`, `Settings.vue:412`), the server puts the
  list under `error.metadata` (`config_transfer.go:284-288`), and the list shown is
  always empty.
* `QuietViewIsCurrent` speaks of the views whose answers cannot overtake each
  other; in the other views of Vue the last answer wins, whatever it answers.
* `QuietListIsFresh` and `QuietPolicyIsStored` (in `QuietIsStored`) speak of
  pages in React: those of Vue show an older list that arrives late, and do not
  fetch the policy again.
* `MeantAsSent` (in `NothingUnmeant`) speaks of pages whose forms are filled by
  a click, not by an answer: where `openEdit` asks the server first, an answer
  may fill the form that was meanwhile opened for another record.
* `MovesAdd` speaks of the section of rules, whose arrows wait for the request.
* `StaysSignedIn` ends with `disturbed`: with rotation, a second window, a page
  loaded during a renewal, the guard of the Vue router beside a renewal of the
  interceptor, and a lost answer each cost the session.
* `SpinnerEnds` holds while the stream is up and has lost nothing and the
  server was not restarted: a state without `updated_at` passes for a newer one.

Fairness.

* `Writeback!FairSpec`: the runner is scheduled, the poll timer fires for ever,
  clocks advance, `reconcile` runs every 30 seconds; nobody has to send a
  request, and a handler may stall.
* `FolderSync!FairSpec`: rounds begin again and again and their steps are
  taken; nothing is assumed of the user, the server or the write-back queue,
  and failures are bounded.
* `Runner!FairSpec`: the goroutine does not stop in the middle of a task;
  `select` chooses at random among ready cases, hence strong fairness for
  taking a waiting task and for the poll timer; the waiting periods end.
* `SyncSlots!FairSpec`: the goroutines go on (weak fairness of every step of a
  synchronisation that has begun and of a runner's exit).  Strong fairness only
  for obtaining a slot, which is tried every five seconds at moments unrelated
  to the other runners, and for taking a waiting task, as above.  Nobody has to
  disable an account.
* `LiveStatus!Fairness`: timers fire and requests are answered.  Strong
  fairness for the answer of a poll, because a cancelled poll is sent again each
  second and one of them gets through; nothing is assumed of reconnects or of a
  synchronisation's progress on the server.
* `AdminViews!VFairness`: the polling timer fires and calls are answered.

## 5. What is proved

`Writeback_proofs` proves, for every number of messages, handlers, operations,
attempts, faults and crashes (the only assumptions are those named in
`Writeback`):

| theorem | statement |
|---|---|
| `TypeCorrect` | `Spec => []TypeOK` |
| `NothingAcceptedIsLost` | `Spec => []NoAcceptedOpLost` |
| `SidesAgree` | `Spec => []QuietAgreement` |
| `Refinement` | `Spec => Promise!SafeSpec` |

The argument.  `TypeOK` is inductive together with `RunnerOK` (what the runner
holds are rows that exist).  `LedgerOK` adds what links the runner's program
counter to the history: an operation being settled as a success is confirmed,
one being given up has failed often enough, attempts never exceed failures;
from it `NoAcceptedOpLost` follows for every way a row can disappear.
`QuietAgreement` is not inductive: while a change is on its way the two sides
differ, and one has to know that they will agree when it has arrived.
`AgreeInv` says so: for a message that never overlapped, at most one request or
row concerns it, and applying that one's verb to the server's value gives the
local value (idempotence of `Effect` makes a repeated or half-done command
harmless).  The refinement uses `GivenUpOK` and the ledger to show that each
step of `Writeback` is a step of `DurableQueue` or a stutter under `Promise`.

`Runner_proofs` proves, for every number of requests, folders and faults, every
capacity of the queue and every threshold of the breaker:

| theorem | statement |
|---|---|
| `TypeCorrect` | `Spec => []TypeOK` |
| `OneConnectionOnly` | `Spec => []OneConnection` |
| `BackoffMeansUnconnected` | `Spec => []BackoffOnlyUnconnected` |
| `NoReplyForgotten` | `Spec => []TakenIsExecuted` |
| `GatesHold` | `Spec => GatesRespected` |

The argument.  `IInv` adds three facts to the properties.  `PollOK`: while a
folder is visited one is left to visit, and folders left and folders failed are
together no more than there are; without it the counters of a poll could leave
their range, as foreground tasks run in the middle of the loop.  `CurOK`: there
is a current task exactly in `exec`; without it a request could be taken over
another that waits for its reply.  `ConnectOK`: what closes the gates of
background work happens elsewhere in the same goroutine, so the gates that
`doPoll` saw open are still open at the dial.

`SyncSlots_proofs` proves, for every finite set of accounts, every number of
folders and every range of the setting:

| theorem | statement |
|---|---|
| `TypeCorrect` | `Spec => []TypeOK` |
| `CounterExact` | `Spec => []SlotsAccounted` |
| `LimitHolds` | `Spec => []LimitKept` |

The argument.  Every step takes one slot, gives one back, or leaves both the
counter and the two sets of its holders alone (`StepKinds`).  A step that gives
one back has a holder that leaves, so the counter is positive and the guard of
`releaseSyncSlot` never hides a second release.  `LimitKept` follows from the
counter, which only grows below the limit of that moment.

`FolderSync_proofs` proves, for every number of mails, every batch size and
depth, and any number of faults, restarts and epochs:

| theorem | statement |
|---|---|
| `TypeCorrect` | `Spec => []TypeOK` |
| `EpochsNeverMix` | `Spec => []OneEpoch` |
| `NothingLeftBehind` | `Spec => []NothingSkipped` |
| `AnnouncedOnce` | `Spec => NoDuplicateNotice` |

The argument. `NothingSkipped` is not inductive: `Save` moves the anchor to a
value captured many steps before. `ProgressInv` says what holds in between:
below the point a round has reached (`s.from` while it fetches, `s.next`
afterwards) everything is here, and the captured UIDNEXT is not above the
server's, so mail that arrives meanwhile lies at or above it. `AnchorInv` adds
the time before the first import is saved, when the local maximum stands in for
the anchor: a batch stores its mails in ascending order, so what a broken batch
leaves has no gap below it (`StoreNoGap`), and what a search hit leaves below it
is passed (`SearchPasses`). `EpochInv` makes rows of an old epoch impossible
while a round runs, but for passed ones, so a deletion during a round always
counts as one of the current epoch or of what is passed anyway. On a server
without UIDNEXT the anchor of the next round is the local maximum, and
`LocalInv` takes the place of these two: at every moment at which no rebuild is
due there is no gap below any row (`Gapless`), and a round that fetches works
upwards from a point below which everything is here (`RangeOK`). Batch after
batch keeps that, and so does a batch that breaks. `PlaceInv` puts both kinds of
servers together. The theorems have no hypothesis beyond the types of the
constants: searches and renumberings come at any time, on both kinds of servers.

`NoDuplicateNotice` needs none of it: `NoticeInv` says that an announced mail has
a row or was deleted here (`AnnouncedOK`), so that what a round finds new, rows
above AfterID, was not announced before unless it was deleted since
(`RoundNews`).  A rebuild, which drops every row, happens while nothing of the
epoch has been announced, and announces nothing itself.

The theorems about the fronts hold for every set of mails, drafts, accounts,
windows, views and requests in flight:

| theorem | statement |
|---|---|
| `MailPages_proofs!PendingShown` | `Spec => []PendingHasToast` |
| `MailPages_proofs!OneEnd` | `Spec => OperationHasOneEnd` |
| `MailPages_proofs!ReadingStays` | `Spec => OpenRowStays` |
| `MailPages_proofs!SelectionSound` | `ListSpec => []SelectionIsSound` |
| `MailPages_proofs!EndIsTheEnd` | `ListSpec => []EndIsEnd` |
| `MailPages_proofs!QuietCacheIsFresh` | `PagesSpec => []QuietIsFresh` |
| `MailPages_proofs!PagesTyped` | `PagesSpec => []TypesOK` |
| `ComposeSession_proofs!OneMailAtATime` | `Spec => []OneSendAtATime` |
| `ComposeSession_proofs!SentDraftDeleted` | `Spec => RightDraftDeleted` |
| `ComposeSession_proofs!SenderSigns` | `Spec => []SignatureOfSender` |
| `ComposeSession_proofs!SessionKept` | `SessionSpec => []StaysSignedIn` |
| `Forms_proofs!ChosenIsSent` | `FormsSpec => []NothingUnmeant` |
| `Forms_proofs!QuietPagesAreStored` | `FormsSpec => []QuietIsStored` |
| `Forms_proofs!PressedMovesAdd` | `FormsSpec => []MovesAdd` |
| `Forms_proofs!TypedIsKept` | `FormsSpec => TypingSurvives` |
| `Forms_proofs!TypesKept` | `FormsSpec => []TypesOK` |
| `Watching_proofs!WatchedTypes` | `Spec => []TypeOK` |
| `Watching_proofs!QuietViewsAreCurrent` | `Spec => []QuietViewIsCurrent` |

The theorems about `PagesSpec`, `FormsSpec` and the `Spec` of `MCWatching` speak
of the machines side by side, as the runs do; `EachPart` says that a behaviour
of the pages is one of `MailDesk` and of `ListView`, so that what is proved of
those two holds in it. Their only assumptions are the named ones on the
constants (`CacheAssumption`, `FormsAssumption`, `ConstantsAssumption` and those
of the modules): sets are finite where something counts them, bounds are natural
numbers, and `None` is not a snapshot (`SnapshotAssumption`). `FormsSpec` begins
the lists in the four sections of `Different`; the constraint `Undisturbed` of
the run is not assumed.

The arguments.

* `MailDesk`: `UndoInv` ties the pending operation to its toast and keeps its
  mails out of those that were taken back; every step either flushes, begins,
  takes back, or leaves the three alone (`StepKinds`), and each kind keeps the
  tie and is allowed by `OperationHasOneEnd`.  Reading rests on the open mail
  being among the kept rows, as each rendering computes them anew.
* `ListView`: for `SelectionIsSound`, `SelInv` says that everything on the screen,
  kept rows included, and the open mail have been shown; each rendering adds
  what it draws.
  `EndIsEnd` is not inductive.  `HeldOK` says of the pages that are held, and
  `SnapOK` of the snapshot that may be put back, that they have no gap but for the
  mails of the operation under way (`NoGaps`, `Missing`), that the cursor of a
  search is the last mail they had (`CursorIsLast`), and that a last page which is
  not full and not cut has nothing behind it (`HeldEnd`).  `AskedIsMore` says that a
  page is only asked for where there may be one, and `OneOperation` that no
  operation waits while another is under way.
  Which mails a page brings is a fact about the first and
  the last n of a set of numbers.  Instead of an induction over n they are
  defined by ranks, and `Ranks`, `RankBijects`, `Ends` and `FirstRows` say what
  follows: the ranks of a finite set of n mails are 1 to n, a page has as many
  mails as fit, and every mail that is not on it lies behind it.
* `MailCache`: a difference between cache and server is always owed to something.
  `ListComes` and `CountsCome` say to what: a mutation is under way, an event, the
  timer or a loss will tell of it (`Told`), a request is out that the server has
  not answered yet or has answered with what it has now; otherwise list and
  badge are the server's.  Every step that changes the server leaves one of
  these behind, and every step that takes the last of them away asks anew.
* `Compose`: a send that is on its way is heard by the window (`SendsHeard`), so
  the busy flag covers it whatever session it was sent in.  A request that
  deletes a draft was made by a send that succeeded (`DeleteInv`); the requests
  of the list of drafts touch neither (`ListKinds`).  A signature that was found
  with the editor there is the one of the account it was put in for, or is
  still due (`Signs` in `SignInv`), through every change of the sender, failing
  query and minimised window.
* `Session`: `SessionInv` is `TypeInv` and, as long as nothing has disturbed the
  session, `Sound`: every renewal was sent with a token that is good or brings
  one (`GoodRenewals`); where tokens are not used up the stored one is good
  (`GoodStored`); where they are, a single window is open, holds what is stored
  and has the only renewal, and the stored token is good or being renewed
  (`OneWindow`).  `disturbed` never becomes false again, so a step that leaves
  it false starts from a sound state.
* The administration (`AdminEditors`, `AdminImport`, `AdminPolicy`): `ChosenOpen`
  says that the open form and the open question are about what was clicked
  last, so what they send is meant.  `ListComing` says that a page of React has
  the server's list, or one request or one answer will bring it; that only one
  request for the list is in flight is needed, as otherwise an older answer
  could be the last (as it can in Vue).  `PolicyIsComing` is the same of the
  policy.  `ImportInv` says that what is kept for a retry in React is what was
  refused (`KeptIsRefused`), and that a request which overwrites replaces only what
  was confirmed (`OverwriteIsConfirmed`), whatever is ticked meanwhile.
* The settings: `OneMoveAtATime` says that in the section of rules there is at
  most one move in flight, no fetch beside it, and that the page shows what all
  presses ask for; `ListIsComing` is again that something under way will bring
  what the page does not have.  The orders of a list are the injective sequences
  of rows, and moving, deleting and taking over keep them so.  For the fields,
  what a field was filled with last is what the page knows (`SyncedIsCached`).
  For the dialogs the types suffice.
* `AdminViews`: `AnswerComes` says that the answer to the last question is there
  or a request will bring it, and `NotOutdated` that an answer on its way is not
  older than the last question, as an explicit question replaces the request in
  flight or waits for it.  A query has one request per subject (`OnePerSubject`).
* `LiveStatus`: `StatusInv` are types, and that no state on its way is of a change
  the server has not made.  What it promises, `SpinnerEnds`, is liveness.

Model-checked only: liveness (`Promise!Progress`, `CatchesUp`, `Answered`,
`PollsResume`, `TriggersFinish`, `ReconcileReturns`, `SpinnerEnds`,
`PollsSettle`), as fairness and ENABLED are out of the prover's reach.  Every
invariant and every action property of the passing runs is stated by a theorem.
What recursive definitions compute is not proved either: where a definition
counts or orders (ranks of mails, orders of lists) it is written without
recursion, and the theorems about finite sets of the library do the counting.

## 6. What the checks refute

Each of these runs expects a counterexample to one statement of a comment, a
document or a text of the program; `findings` in `PROJECT.json` has the
quotations.

| run | statement | what the code does |
|---|---|---|
| `runner_panic` | a failed task only costs the connection | a poll that fails after it closes a nil session, and the process dies |
| `slots_deadlock` | a manual synchronisation blocks until it is done | polls that hold all slots wait for manual synchronisations that wait for slots |
| `admin_untouched` | the settings page of mail2im (React) shows what is stored | the answer never reaches the form, and a save overwrites settings nobody touched |
| `desk_undo` | a deletion can be undone while its toast is up | a second deletion is sent by the expiry of the first one's toast, before its own toast is shown |

More consequences of the code are part of the models without a run of their own.
Those that a property has to except are listed in section 4: mails that a search
hit or an unrecorded epoch has passed; rows of mails that are gone and can be
selected; a list that ends too early after a failed refetch; two sends of one
draft; a mail that stays unsigned; imports that replace what the dialog does not
name. Beside them: the rows of a failed round lie below the AfterID of the next
one and are judged by no rule; a deletion during a round hides as much growth
from rules and notices; a removal that is given up leaves a mail behind the
anchor that is not fetched again; a poll goes on with the connection it captured
after a foreground task at a folder boundary has replaced it; removals by other
mail clients are never followed, as known UIDs are not looked at again.

## 7. What is not modelled

Left out of the modelled components:

* The order of FETCH answers.  A FETCH is taken to answer in ascending order of
  UIDs, so that a batch that breaks has stored its lower part; servers do, the
  protocol does not demand it.
* Durations.  A backoff, cool-down, staleness, idle or undo period has passed or
  has not; lengths and their ratios are left out.
* The content of mail, bodies, attachments, headers, search syntax, fields of
  forms and their validation: data that no property distinguishes.
* Several folders of one account in one state: `FolderSync` has one inbox;
  labels of Gmail (the same mail in several folders) are left out, and with
  them the suppression of duplicate notices across folders (`claimNotify`,
  `suppressHandled`).
* The creation of runners in parallel with `reconcile` and `Stop`, and the
  distribution of IDLE slots.
* The mail page as a whole: `MailDesk`, `ListView` and `MailCache` are three
  machines over the same page and are not composed; each has the server's
  answers that matter to it.  Conversations as rows behave like mails and are
  not modelled apart.
* The cache library (TanStack Query), the state library and the HTTP library
  are modelled as the code uses them: one fetch per key, cancellation and
  invalidation, callbacks that are bound to the component or to the mutation.

Not modelled at all, with the reason in `PROJECT.json`: the health watcher and
the notification queue, OAuth flows, the login limiter, accounts, the rule
engine, threads, full-text search, sending, translation, tickets of the event
stream, the worker of mail2im (components with a protocol of their own that
this development has not reached, their known hazards are listed); string and
HTML functions, cryptography, protocol libraries, assembly and configuration,
drawing, texts and the component kits (nothing in them that a state machine
would tell).
