------------------------------ MODULE LiveStatus ------------------------------
(***************************************************************************)
(* The synchronisation state of one account as a tab shows it: the seed of *)
(* a manual synchronisation, the poll, the pushed events and the query     *)
(* after a reconnect, which all write one key of the cache                 *)
(* (flymail/frontend/src: lib/sync-cache.ts, hooks/useAccountSync.ts,      *)
(* hooks/useRealtimeSync.ts, lib/sse.ts, reconcileSyncStatus and           *)
(* useSyncStatus of lib/queries.ts).                                       *)
(***************************************************************************)
EXTENDS Integers, Sequences

CONSTANTS
    MaxChanges      \* bound on the changes of the state on the server

\* What the model takes for granted of its constants.
Assumptions == MaxChanges \in Nat

VARIABLES
    now,            \* the state on the server: phase, at (updated_at)
    running,        \* a manual synchronisation runs on the server
    row,            \* the state in the cache
    tracking,       \* accountId of useAccountSync: the poll runs
    trigger,        \* the request of the button
    poll, check,    \* the requests of the poll and of reconcileSyncStatus
    link,           \* the event stream
    pushed,         \* states on their way
    lost,           \* history: a state was not delivered, and not asked for since,
                    \* or an answer from before may still come
    restarted,      \* history: the server was restarted; its states have no order then
    changes         \* bound: changes on the server

state == <<now, running, restarted, changes>>
asking == <<poll, check>>
pushing == <<link, pushed, lost>>
vars == <<state, row, tracking, trigger, asking, pushing>>

Active == {"queued", "messages"}
Ended == {"done", "error"}
Phases == Active \cup Ended \cup {"none"}

\* at is 0 where updated_at is missing: no record on the server, or the seed.
Nothing == [phase |-> "none", at |-> 0]
Seed == [phase |-> "queued", at |-> 0]

\* isSyncActive.
IsSyncActive(s) == s.phase \in Active

Idle == [stage |-> "idle"]
Asked == [stage |-> "asked"]
Answered(s) == [stage |-> "answered", data |-> s]

Init ==
    /\ now = Nothing /\ running = FALSE /\ restarted = FALSE /\ changes = 0
    /\ row = Nothing
    /\ tracking = FALSE /\ trigger = "idle"
    /\ poll = Idle /\ check = Idle
    /\ link = "open" /\ pushed = <<>> /\ lost = FALSE

----------------------------------------------------------------------------
(* The cache *)

\* Mutant of IsNewer: the last that writes wins.
IsNewerAlways(prev, next) == TRUE

\* isNewerStatus.
IsNewer(prev, next) == prev.at = 0 \/ next.at = 0 \/ next.at >= prev.at

\* writeSyncStatus.
Write(s) == row' = IF IsNewer(row, s) THEN s ELSE row

----------------------------------------------------------------------------
(* The server *)

\* A state is stored and pushed; the hub drops it for a slow client.
Change(s) ==
    /\ changes < MaxChanges
    /\ changes' = changes + 1
    /\ now' = s
    /\ \/ link = "open" /\ pushed' = Append(pushed, s) /\ lost' = lost
       \/ pushed' = pushed /\ lost' = TRUE

Stamped(p) == [phase |-> p, at |-> changes + 1]

\* A background synchronisation begins, and any goes on.
Begins == ~IsSyncActive(now) /\ Change(Stamped("queued"))
GoesOn == IsSyncActive(now) /\ \E p \in {"messages"} \cup Ended : Change(Stamped(p))

Server ==
    /\ Begins \/ GoesOn
    /\ UNCHANGED <<running, restarted, row, tracking, trigger, asking, link>>

\* runTrigger returns: the next manual synchronisation may be asked for.
RunEnds ==
    /\ running /\ running' = FALSE
    /\ UNCHANGED <<now, restarted, changes, row, tracking, trigger, asking, pushing>>

\* A restart forgets the states, which live in memory, and breaks the stream.
Restart ==
    /\ now # Nothing /\ changes < MaxChanges
    /\ changes' = changes + 1
    /\ now' = Nothing /\ running' = FALSE /\ restarted' = TRUE
    /\ link' = "connecting" /\ pushed' = <<>> /\ lost' = TRUE
    /\ UNCHANGED <<row, tracking, trigger, asking>>

----------------------------------------------------------------------------
(* A manual synchronisation *)

\* start: the button of the account is out of use while it is synchronised.
Start ==
    /\ trigger = "idle" /\ ~IsSyncActive(row)
    /\ trigger' = "asked"
    /\ UNCHANGED <<state, row, tracking, asking, pushing>>

\* 202, the state is queued by then, also where a background synchronisation
\* goes on; or 409 while a manual one runs, and 500.
Trigger ==
    /\ trigger = "asked"
    /\ \/ /\ ~running /\ running' = TRUE
          /\ Change(Stamped("queued")) /\ trigger' = "accepted" /\ restarted' = restarted
       \/ trigger' = "refused" /\ UNCHANGED <<state, pushed, lost>>
    /\ UNCHANGED <<row, tracking, asking, link>>

\* onSuccess seeds the cache and then opens the poll; onError only tells.
TriggerEnds ==
    /\ trigger \in {"accepted", "refused"}
    /\ trigger' = "idle"
    /\ IF trigger = "accepted"
       THEN Write(Seed) /\ tracking' = TRUE /\ lost' = (lost \/ poll # Idle \/ check # Idle)
       ELSE UNCHANGED <<row, tracking, lost>>
    /\ UNCHANGED <<state, asking, link, pushed>>

\* Mutant of TrackingDue: a record that is gone is waited for.
TrackingDueWell == tracking /\ row.phase \in Ended

TrackingDue == tracking /\ ~IsSyncActive(row)

\* The effect of accountId and phase.
TrackingEnds ==
    /\ TrackingDue
    /\ tracking' = FALSE
    /\ UNCHANGED <<state, row, trigger, asking, pushing>>

\* useSyncStatus: a request each second.
Poll ==
    /\ tracking /\ poll = Idle
    /\ poll' = Asked
    /\ UNCHANGED <<state, row, tracking, trigger, check, pushing>>

PollRead ==
    /\ poll = Asked
    /\ poll' = Answered(now)
    /\ UNCHANGED <<state, row, tracking, trigger, check, pushing>>

\* An answer counts even when the poll was closed meanwhile.
PollAnswered ==
    /\ poll.stage = "answered"
    /\ poll' = Idle
    /\ Write(poll.data)
    /\ UNCHANGED <<state, tracking, trigger, check, pushing>>

PollFails ==
    /\ poll # Idle
    /\ poll' = Idle
    /\ UNCHANGED <<state, row, tracking, trigger, check, pushing>>

----------------------------------------------------------------------------
(* The stream *)

Push ==
    /\ pushed # <<>>
    /\ Write(Head(pushed))
    /\ pushed' = Tail(pushed)
    /\ UNCHANGED <<state, tracking, trigger, asking, link, lost>>

Disconnect ==
    /\ link = "open"
    /\ link' = "connecting"
    /\ pushed' = <<>>
    /\ lost' = (lost \/ pushed # <<>>)
    /\ UNCHANGED <<state, row, tracking, trigger, asking>>

\* Mutant of Reconnect: the states are not compared after a reconnect.
ReconnectOnly ==
    /\ link = "connecting"
    /\ link' = "open" /\ lost' = (poll # Idle \/ check # Idle)
    /\ UNCHANGED <<state, row, tracking, trigger, asking, pushed>>

\* onopen, reconcileSyncStatus: a state that is active is asked for.
Reconnect ==
    /\ link = "connecting"
    /\ link' = "open" /\ lost' = (poll # Idle \/ check # Idle)
    /\ check' = IF IsSyncActive(row) THEN Asked ELSE check
    /\ UNCHANGED <<state, row, tracking, trigger, poll, pushed>>

CheckRead ==
    /\ check = Asked
    /\ check' = Answered(now)
    /\ UNCHANGED <<state, row, tracking, trigger, poll, pushing>>

CheckAnswered ==
    /\ check.stage = "answered"
    /\ check' = Idle
    /\ Write(check.data)
    /\ UNCHANGED <<state, tracking, trigger, poll, pushing>>

\* A failure is left to the next reconnect.
CheckFails ==
    /\ check # Idle
    /\ check' = Idle
    /\ lost' = TRUE
    /\ UNCHANGED <<state, row, tracking, trigger, poll, link, pushed>>

----------------------------------------------------------------------------
\* An effect that is due runs before the next event.
Next ==
    \/ TrackingEnds
    \/ /\ ~TrackingDue
       /\ \/ Server \/ RunEnds \/ Restart
          \/ Start \/ Trigger \/ TriggerEnds
          \/ Poll \/ PollRead \/ PollAnswered \/ PollFails
          \/ Push \/ Disconnect \/ Reconnect
          \/ CheckRead \/ CheckAnswered \/ CheckFails

Spec == Init /\ [][Next]_vars

\* Effects and timers run, and what was asked for is answered; a request that
\* is repeated each second is answered in the end (SF).
Fairness ==
    /\ WF_vars(TrackingEnds) /\ WF_vars(Trigger) /\ WF_vars(TriggerEnds)
    /\ WF_vars(Poll) /\ SF_vars(PollRead) /\ SF_vars(PollAnswered)
    /\ WF_vars(Push) /\ WF_vars(CheckRead) /\ WF_vars(CheckAnswered)

FairSpec == Spec /\ Fairness

----------------------------------------------------------------------------
(* Properties *)

TypeOK ==
    /\ now.phase \in Phases /\ now.at \in 0..changes
    /\ row.phase \in Phases /\ row.at \in 0..changes
    /\ tracking \in BOOLEAN /\ trigger \in {"idle", "asked", "accepted", "refused"}
    /\ link \in {"open", "connecting"} /\ lost \in BOOLEAN /\ running \in BOOLEAN

\* sync-cache.ts, queries.ts:975: no account spins for ever after its
\* synchronisation has ended, whatever order seed, poll, push and comparison
\* arrive in, while the stream is up and has lost nothing, and the server was
\* not restarted: a state without updated_at passes for a newer one.
SpinnerEnds ==
    IsSyncActive(row) ~> (~IsSyncActive(row) \/ IsSyncActive(now) \/ link # "open" \/ lost \/ restarted)

\* useAccountSync.ts: the poll of each second comes to an end when nothing is
\* synchronised any more, also after a restart of the server.
PollingEnds == tracking ~> (~tracking \/ IsSyncActive(now))
=============================================================================
