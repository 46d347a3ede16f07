------------------------------ MODULE SyncSlots ------------------------------
(***************************************************************************)
(* The global limit on full synchronisations and the runners that compete  *)
(* for it (flymail/backend/modules/email/sync: manager.go, runner.go,      *)
(* service.go).                                                            *)
(*                                                                         *)
(* A poll takes a slot for the whole of fullSyncMessages; at each folder   *)
(* boundary the runner executes the foreground tasks that wait, and a      *)
(* manual synchronisation is such a task: it needs a slot of its own and   *)
(* retries inside the runner until it gets one.  reconcile stops the       *)
(* runners of accounts that were disabled, one after the other, and waits  *)
(* for each goroutine to return.                                           *)
(***************************************************************************)
EXTENDS Integers, FiniteSets

CONSTANTS
    Accounts,
    Folders,        \* selectable folders of an account
    Limits          \* values of the setting sync_max_concurrent

ASSUME AccountsAssumption == IsFiniteSet(Accounts)
ASSUME FoldersAssumption == Folders \in Nat \ {0}
ASSUME LimitsAssumption == Limits \subseteq Nat \ {0} /\ Limits # {}

VARIABLES
    limit,          \* maxConcurrent()
    active,         \* Manager.syncActive
    poll,           \* [Accounts -> BOOLEAN]: FullSync is running in doPoll
    left,           \* [Accounts -> Nat]: folders it has still to visit
    task,           \* [Accounts -> Tasks]: triggeredFullSync in the runner
    running,        \* [Accounts -> Requests]: Service.running
    enabled,        \* accounts that are enabled
    stop            \* [Accounts -> Stops]: the runner's shutdown

vars == <<limit, active, poll, left, task, running, enabled, stop>>

Tasks == {"none", "retry", "sync"}
Requests == {"no", "submitted", "taken"}
Stops == {"no", "cancelled", "exited"}

Init ==
    /\ limit \in Limits
    /\ active = 0
    /\ poll = [a \in Accounts |-> FALSE]
    /\ left = [a \in Accounts |-> 0]
    /\ task = [a \in Accounts |-> "none"]
    /\ running = [a \in Accounts |-> "no"]
    /\ enabled = Accounts
    /\ stop = [a \in Accounts |-> "no"]

----------------------------------------------------------------------------
\* Mutant of Acquire: the limit itself is still admitted.
AcquireOneMore == active <= limit /\ active' = active + 1

\* acquireSyncSlot does not wait.
Acquire == active < limit /\ active' = active + 1
Release == active' = IF active > 0 THEN active - 1 ELSE active

\* Service.Trigger: not for a disabled account, not twice at a time.
Trigger(a) ==
    /\ a \in enabled
    /\ running[a] = "no"
    /\ running' = [running EXCEPT ![a] = "submitted"]
    /\ UNCHANGED <<limit, active, poll, left, task, enabled, stop>>

\* doPoll gets a slot; without one it tries again later.
PollBegins(a) ==
    /\ ~poll[a] /\ task[a] = "none" /\ stop[a] = "no"
    /\ Acquire
    /\ poll' = [poll EXCEPT ![a] = TRUE]
    /\ left' = [left EXCEPT ![a] = Folders]
    /\ UNCHANGED <<limit, task, running, enabled, stop>>

\* The runner is at the boundary of two folders (or after the last).
AtBoundary(a) == poll[a] /\ left[a] < Folders

\* A foreground task that waits at a boundary goes first.
MayGoOn(a) == task[a] = "none" /\ (AtBoundary(a) => running[a] # "submitted")

\* Mutant of SyncFolder: the loop runs once more than there are folders.
SyncFolderOneMore(a) ==
    /\ poll[a] /\ MayGoOn(a)
    /\ left' = [left EXCEPT ![a] = @ - 1]
    /\ UNCHANGED <<limit, active, poll, task, running, enabled, stop>>

SyncFolder(a) ==
    /\ poll[a] /\ left[a] > 0 /\ MayGoOn(a)
    /\ left' = [left EXCEPT ![a] = @ - 1]
    /\ UNCHANGED <<limit, active, poll, task, running, enabled, stop>>

\* Mutant of PollEnds: an early return forgets the slot.
PollEndsHolding(a) ==
    /\ poll[a] /\ left[a] = 0 /\ MayGoOn(a)
    /\ poll' = [poll EXCEPT ![a] = FALSE]
    /\ UNCHANGED <<limit, active, left, task, running, enabled, stop>>

PollEnds(a) ==
    /\ poll[a] /\ left[a] = 0 /\ MayGoOn(a)
    /\ Release
    /\ poll' = [poll EXCEPT ![a] = FALSE]
    /\ UNCHANGED <<limit, left, task, running, enabled, stop>>

\* Listing the folders fails: the slot is released by the deferred call.
PollFails(a) ==
    /\ poll[a] /\ left[a] = Folders
    /\ Release
    /\ poll' = [poll EXCEPT ![a] = FALSE]
    /\ left' = [left EXCEPT ![a] = 0]
    /\ UNCHANGED <<limit, task, running, enabled, stop>>

\* The runner takes the task: between two works, or inside a poll.
TakeTrigger(a) ==
    /\ running[a] = "submitted" /\ task[a] = "none"
    /\ AtBoundary(a) \/ (~poll[a] /\ stop[a] = "no")
    /\ task' = [task EXCEPT ![a] = "retry"]
    /\ running' = [running EXCEPT ![a] = "taken"]
    /\ UNCHANGED <<limit, active, poll, left, enabled, stop>>

\* triggeredFullSync: its context never ends, so it retries until there is a
\* slot.
TrySlot(a) ==
    /\ task[a] = "retry"
    /\ Acquire
    /\ task' = [task EXCEPT ![a] = "sync"]
    /\ UNCHANGED <<limit, poll, left, running, enabled, stop>>

\* Mutant of TriggeredSyncEnds: the slot is not released.
TriggeredSyncEndsHolding(a) ==
    /\ task[a] = "sync"
    /\ task' = [task EXCEPT ![a] = "none"]
    /\ running' = [running EXCEPT ![a] = "no"]
    /\ UNCHANGED <<limit, active, poll, left, enabled, stop>>

TriggeredSyncEnds(a) ==
    /\ task[a] = "sync"
    /\ Release
    /\ task' = [task EXCEPT ![a] = "none"]
    /\ running' = [running EXCEPT ![a] = "no"]
    /\ UNCHANGED <<limit, poll, left, enabled, stop>>

----------------------------------------------------------------------------
SetLimit(n) ==
    /\ n \in Limits \ {limit}
    /\ limit' = n
    /\ UNCHANGED <<active, poll, left, task, running, enabled, stop>>

Disable(a) ==
    /\ a \in enabled
    /\ enabled' = enabled \ {a}
    /\ UNCHANGED <<limit, active, poll, left, task, running, stop>>

\* reconcile: r.stop() of one runner after the other.
Stop(a) ==
    /\ a \notin enabled /\ stop[a] = "no"
    /\ \A b \in Accounts : stop[b] # "cancelled"
    /\ stop' = [stop EXCEPT ![a] = "cancelled"]
    /\ UNCHANGED <<limit, active, poll, left, task, running, enabled>>

\* Mutant of RequestReturns: only a context that has ended before the call is
\* noticed, a request already submitted waits on.
RequestReturnsUnsubmitted(a) ==
    /\ stop[a] # "no" /\ running[a] = "taken"
    /\ running' = [running EXCEPT ![a] = "no"]
    /\ UNCHANGED <<limit, active, poll, left, task, enabled, stop>>

\* submitForeground returns when the runner's context ends.
RequestReturns(a) ==
    /\ stop[a] # "no" /\ running[a] # "no"
    /\ running' = [running EXCEPT ![a] = "no"]
    /\ UNCHANGED <<limit, active, poll, left, task, enabled, stop>>

\* loop looks at its context between two works only.
Exit(a) ==
    /\ stop[a] = "cancelled" /\ ~poll[a] /\ task[a] = "none"
    /\ stop' = [stop EXCEPT ![a] = "exited"]
    /\ UNCHANGED <<limit, active, poll, left, task, running, enabled>>

----------------------------------------------------------------------------
Next ==
    \/ \E a \in Accounts :
        \/ Trigger(a) \/ TakeTrigger(a) \/ TrySlot(a) \/ TriggeredSyncEnds(a)
        \/ PollBegins(a) \/ SyncFolder(a) \/ PollEnds(a) \/ PollFails(a)
        \/ Disable(a) \/ Stop(a) \/ RequestReturns(a) \/ Exit(a)
    \/ \E n \in Limits : SetLimit(n)

Spec == Init /\ [][Next]_vars

(* Runners and the reconcile loop are scheduled.  A slot is asked for every  *)
(* five seconds at moments unrelated to what other runners do, so one that   *)
(* is free again and again is got; of the cases of select that are ready     *)
(* again and again each is picked some time.                                 *)
FairSpec ==
    /\ Spec
    /\ \A a \in Accounts :
        /\ WF_vars(SyncFolder(a)) /\ WF_vars(PollEnds(a))
        /\ WF_vars(TriggeredSyncEnds(a)) /\ WF_vars(RequestReturns(a))
        /\ SF_vars(TakeTrigger(a)) /\ SF_vars(TrySlot(a))
        /\ WF_vars(Exit(a))

----------------------------------------------------------------------------
(* Properties *)

\* Types; the loop over the folders of a poll stays within its bounds.
TypeOK ==
    /\ limit \in Limits
    /\ active \in Nat
    /\ poll \in [Accounts -> BOOLEAN]
    /\ left \in [Accounts -> 0..Folders]
    /\ task \in [Accounts -> Tasks]
    /\ running \in [Accounts -> Requests]
    /\ enabled \subseteq Accounts
    /\ stop \in [Accounts -> Stops]

Polling == {a \in Accounts : poll[a]}
Triggered == {a \in Accounts : task[a] = "sync"}

\* The counter is exact: every slot that is taken belongs to a poll or to a
\* manual synchronisation that is going on (an account may hold two), whatever
\* way they end and however the setting moves in between.
SlotsAccounted == active = Cardinality(Polling) + Cardinality(Triggered)

\* No more synchronisations go on at once than some value of the setting
\* allows.
LimitKept == \E n \in Limits : Cardinality(Polling) + Cardinality(Triggered) <= n

\* A manual synchronisation that was accepted comes to an end, and with it
\* Service.running is cleared so that another one can be asked for (manager.go,
\* at TriggerSync: it blocks until it is done or its context ends).  It holds
\* when there are more slots than accounts; with fewer a run refutes it.
TriggersFinish == \A a \in Accounts : running[a] # "no" ~> running[a] = "no"

\* reconcile gets past every runner it stops: it is not left waiting for one.
ReconcileReturns == []<>(\A a \in Accounts : stop[a] # "cancelled")
=============================================================================
