------------------------------ MODULE Writeback ------------------------------
(***************************************************************************)
(* The persistent write-back queue of one account                          *)
(* (flymail/backend/modules/email/sync: mailops.go, writeback.go,          *)
(* wbstore.go, and the task queue of runner.go).                           *)
(*                                                                         *)
(* An HTTP handler that marks, moves or deletes mail changes the local     *)
(* rows first, then inserts one row into writeback_ops for the group of    *)
(* UIDs, then hands a task to the account's runner.  The runner is one     *)
(* goroutine; it executes rows either because a task names them or because *)
(* a poll (or the recovery task of a new runner) drains everything that is *)
(* due.  Each of these steps is an action of its own, so that handlers,    *)
(* the runner, the clock, database errors, IMAP errors and the death of    *)
(* the process interleave at the places where they do in the code.         *)
(*                                                                         *)
(* The messages are those of one folder.  What the server does with a      *)
(* command it does not confirm is unknown: any subset of the UIDs of the   *)
(* group may have been changed.                                            *)
(***************************************************************************)
EXTENDS Integers, Sequences, FiniteSets

CONSTANTS
    Msgs,                   \* messages of the folder (their UIDs)
    Handlers,               \* HTTP requests that can be in progress at once
    MaxOps,                 \* bound: rows ever inserted into writeback_ops
    MaxWritebackAttempts,   \* maxWritebackAttempts (8 in the code)
    BgCap,                  \* capacity of runner.bg (64 in the code)
    MaxFaults,              \* bound: failing IMAP commands and database errors
    MaxCrashes              \* bound: deaths of the process

ASSUME MaxOpsAssumption == MaxOps \in Nat
ASSUME AttemptsAssumption == MaxWritebackAttempts \in Nat \ {0}
ASSUME BgCapAssumption == BgCap \in Nat \ {0}
ASSUME BoundsAssumption == MaxFaults \in Nat /\ MaxCrashes \in Nat

OpIds == 1..MaxOps
DrainTask == 0              \* the recovery task; every other task names a row

Verbs == {"read", "unread", "remove"}    \* remove: move away or expunge
Values == {"unseen", "seen", "gone"}

\* What a verb does to a message; a message that is gone stays gone, and a
\* command that names its UID is a no-op.
Effect(verb, value) ==
    CASE value = "gone" -> "gone"
      [] value # "gone" /\ verb = "remove" -> "gone"
      [] value # "gone" /\ verb = "read" -> "seen"
      [] OTHER -> "unseen"

Groups == (SUBSET Msgs) \ {{}}
Payloads == [uids : Groups, verb : Verbs]
NoPayload == [uids |-> {}, verb |-> "read"]

VARIABLES
    server,     \* [Msgs -> Values]: the mailbox on the IMAP server
    local,      \* [Msgs -> Values]: the rows of the messages table
    req,        \* [Handlers -> ...]: progress of each HTTP request
    nextId,     \* next primary key of writeback_ops
    payload,    \* [OpIds -> Payloads]: columns folder_path/uids/op/target_path
    pending,    \* ids of the rows in writeback_ops
    due,        \* pending rows whose next_attempt_at has passed
    attempts,   \* [OpIds -> Nat]: column attempts
    up,         \* the account has a runner in Manager.runners
    bg,         \* runner.bg
    run,        \* what the runner goroutine is doing
    faults, crashes,        \* how many of each have happened
    \* history
    confirmed,  \* ids some attempt of which the server confirmed
    misses,     \* [OpIds -> Nat]: attempts of a row that failed
    abandoned,  \* ids given up, each with a notification to the user
    overlapped, \* messages asked to change while a change was on its way
    lost        \* messages whose change will never be sent

durable == <<server, local, nextId, payload, pending, attempts>>
history == <<confirmed, misses, abandoned, overlapped, lost>>
bounds == <<faults, crashes>>
vars == <<server, local, req, nextId, payload, pending, due, attempts,
          up, bg, run, bounds, history>>

RunnerIdle == [pc |-> "idle", todo |-> {}, cur |-> DrainTask, ok |-> FALSE]
HandlerIdle == [pc |-> "idle", job |-> NoPayload, id |-> DrainTask]

Requests == [pc : {"idle", "loaded", "written", "persisted"},
             job : Payloads \cup {NoPayload}, id : OpIds \cup {DrainTask}]
RunnerStates == [pc : {"idle", "call", "settle", "giveup"},
                 todo : SUBSET OpIds, cur : OpIds \cup {DrainTask}, ok : BOOLEAN]

Init ==
    /\ server \in [Msgs -> {"unseen", "seen"}]
    /\ local = server
    /\ req = [h \in Handlers |-> HandlerIdle]
    /\ nextId = 1
    /\ payload = [i \in OpIds |-> NoPayload]
    /\ pending = {}
    /\ due = {}
    /\ attempts = [i \in OpIds |-> 0]
    /\ up = FALSE
    /\ bg = <<>>
    /\ run = RunnerIdle
    /\ faults = 0
    /\ crashes = 0
    /\ confirmed = {}
    /\ misses = [i \in OpIds |-> 0]
    /\ abandoned = {}
    /\ overlapped = {}
    /\ lost = {}

----------------------------------------------------------------------------
(* The HTTP handlers *)

\* Requests that will still insert a row.
Promised == {h \in Handlers : req[h].pc \in {"loaded", "written"}}

\* A change of m has been asked for and is not settled yet.
Busy(m) ==
    \/ \E h \in Promised : m \in req[h].job.uids
    \/ \E i \in pending : m \in payload[i].uids

\* loadGrouped / GetByID: only rows that exist are taken into the group.
Load(h, job) ==
    /\ req[h].pc = "idle"
    /\ nextId + Cardinality(Promised) <= MaxOps
    /\ \A m \in job.uids : local[m] # "gone"
    /\ req' = [req EXCEPT ![h] = [pc |-> "loaded", job |-> job, id |-> DrainTask]]
    /\ overlapped' = overlapped \cup {m \in job.uids : Busy(m)}
    /\ UNCHANGED <<durable, due, up, bg, run, bounds, confirmed, misses,
                   abandoned, lost>>

\* applyLocal / DeleteByIDs: the local rows are changed at once.
WriteLocal(h) ==
    /\ req[h].pc = "loaded"
    /\ local' = [m \in Msgs |-> IF m \in req[h].job.uids
                                THEN Effect(req[h].job.verb, local[m]) ELSE local[m]]
    /\ req' = [req EXCEPT ![h].pc = "written"]
    /\ UNCHANGED <<server, nextId, payload, pending, attempts, due, up, bg, run,
                   bounds, history>>

\* wbStore.Enqueue: the row is due at once.
Persist(h) ==
    /\ req[h].pc = "written"
    /\ nextId \in OpIds
    /\ payload' = [payload EXCEPT ![nextId] = req[h].job]
    /\ pending' = pending \cup {nextId}
    /\ due' = due \cup {nextId}
    /\ nextId' = nextId + 1
    /\ req' = [req EXCEPT ![h].pc = "persisted", ![h].id = nextId]
    /\ UNCHANGED <<server, local, attempts, up, bg, run, bounds, history>>

\* The insertion fails: it is logged, the local change stays.
PersistFails(h) ==
    /\ req[h].pc = "written"
    /\ faults < MaxFaults
    /\ faults' = faults + 1
    /\ lost' = lost \cup req[h].job.uids
    /\ req' = [req EXCEPT ![h] = HandlerIdle]
    /\ UNCHANGED <<durable, due, up, bg, run, crashes, confirmed, misses,
                   abandoned, overlapped>>

\* Mutant of Submitted: the default branch of the select is missing.
SubmittedUnbounded(q, t) == Append(q, t)

\* submitBackground: a full queue drops the task.
Submitted(q, t) == IF Len(q) < BgCap THEN Append(q, t) ELSE q

\* ensureRunner, then submitBackground.
Submit(h) ==
    /\ req[h].pc = "persisted"
    /\ up' = TRUE
    /\ bg' = Submitted(bg, req[h].id)
    /\ req' = [req EXCEPT ![h] = HandlerIdle]
    /\ UNCHANGED <<durable, due, run, bounds, history>>

----------------------------------------------------------------------------
(* The runner *)

\* Mutant of DuePending: a row that failed once is not selected again.
DueUntried == {i \in due : attempts[i] = 0}

DuePending == due

\* reconcile starts a runner; a recovery task is posted if rows were left.
Reconcile ==
    /\ ~up
    /\ up' = TRUE
    /\ bg' = IF pending = {} THEN <<>> ELSE <<DrainTask>>
    /\ UNCHANGED <<durable, due, req, run, bounds, history>>

Working(todo) == IF todo = {} THEN RunnerIdle
                 ELSE [pc |-> "call", todo |-> todo, cur |-> DrainTask, ok |-> FALSE]

\* A task is taken: a drain selects what is due, another task re-reads its
\* row, which may have been settled meanwhile (processWriteback).
TakeTask ==
    /\ up /\ run.pc = "idle" /\ bg # <<>>
    /\ bg' = Tail(bg)
    /\ run' = Working(IF Head(bg) = DrainTask THEN DuePending ELSE {Head(bg)} \cap pending)
    /\ UNCHANGED <<durable, due, req, up, bounds, history>>

\* The task is refused (breaker open, dial backoff, authorisation throttled)
\* or the connection cannot be made: the task is dropped, the row stays.
RefuseTask ==
    /\ up /\ run.pc = "idle" /\ bg # <<>>
    /\ bg' = Tail(bg)
    /\ UNCHANGED <<durable, due, req, up, run, bounds, history>>

\* doPoll has a connection: DrainWriteback.
Poll ==
    /\ up /\ run.pc = "idle" /\ DuePending # {}
    /\ run' = Working(DuePending)
    /\ UNCHANGED <<durable, due, req, up, bg, bounds, history>>

\* Rows are executed in the order of their ids.
Oldest(i, S) == i \in S /\ \A j \in S : i <= j

\* Mutant of AppliedTo: both flag verbs set the flag (the argument of SetSeen
\* is not derived from the verb).
AppliedToIgnoringUnread(S, verb) ==
    [m \in Msgs |-> IF m \in S THEN Effect(IF verb = "remove" THEN verb ELSE "read", server[m])
                   ELSE server[m]]

AppliedTo(S, verb) == [m \in Msgs |-> IF m \in S THEN Effect(verb, server[m]) ELSE server[m]]

\* applyWriteback succeeds.
CallSucceeds ==
    /\ run.pc = "call"
    /\ \E i \in OpIds :
         /\ Oldest(i, run.todo)
         /\ server' = AppliedTo(payload[i].uids, payload[i].verb)
         /\ run' = [run EXCEPT !.pc = "settle", !.cur = i, !.ok = TRUE]
         /\ confirmed' = confirmed \cup {i}
    /\ UNCHANGED <<local, nextId, payload, pending, attempts, due, req, up, bg,
                   bounds,
                   misses, abandoned, overlapped, lost>>

\* applyWriteback returns an error; part of the command may have been done.
CallFails ==
    /\ run.pc = "call"
    /\ faults < MaxFaults
    /\ faults' = faults + 1
    /\ \E i \in OpIds :
         /\ Oldest(i, run.todo)
         /\ \E S \in SUBSET payload[i].uids : server' = AppliedTo(S, payload[i].verb)
         /\ run' = [run EXCEPT !.pc = "settle", !.cur = i, !.ok = FALSE]
         /\ misses' = [misses EXCEPT ![i] = @ + 1]
    /\ UNCHANGED <<local, nextId, payload, pending, attempts, due, req, up, bg,
                   crashes,
                   confirmed, abandoned, overlapped, lost>>

NextOp == Working(run.todo \ {run.cur})

\* Success: the row is deleted.
SettleSuccess ==
    /\ run.pc = "settle" /\ run.ok
    /\ pending' = pending \ {run.cur}
    /\ due' = due \ {run.cur}
    /\ run' = NextOp
    /\ UNCHANGED <<server, local, nextId, payload, attempts, req, up, bg,
                   bounds, history>>

\* Mutant of SettleFailure: the attempt is counted once more in the comparison.
SettleFailureCountsTwice ==
    /\ run.pc = "settle" /\ ~run.ok
    /\ attempts' = [attempts EXCEPT ![run.cur] = @ + 1]
    /\ due' = due \ {run.cur}
    /\ run' = IF attempts'[run.cur] + 1 >= MaxWritebackAttempts
              THEN [run EXCEPT !.pc = "giveup"] ELSE NextOp
    /\ UNCHANGED <<server, local, nextId, payload, pending, req, up, bg, bounds,
                   history>>

\* wbStore.Fail: one more attempt, next_attempt_at in the future.
SettleFailure ==
    /\ run.pc = "settle" /\ ~run.ok
    /\ attempts' = [attempts EXCEPT ![run.cur] = @ + 1]
    /\ due' = due \ {run.cur}
    /\ run' = IF attempts[run.cur] + 1 >= MaxWritebackAttempts
              THEN [run EXCEPT !.pc = "giveup"] ELSE NextOp
    /\ UNCHANGED <<server, local, nextId, payload, pending, req, up, bg, bounds,
                   history>>

\* The limit is reached: the row is deleted and the user is notified.
GiveUp ==
    /\ run.pc = "giveup"
    /\ pending' = pending \ {run.cur}
    /\ due' = due \ {run.cur}
    /\ abandoned' = abandoned \cup {run.cur}
    /\ lost' = lost \cup payload[run.cur].uids
    /\ run' = NextOp
    /\ UNCHANGED <<server, local, nextId, payload, attempts, req, up, bg, bounds,
                   confirmed, misses, overlapped>>

\* The database refuses the Delete or the Update: the error is dropped and the
\* row stays as it is.
SettleFails ==
    /\ run.pc \in {"settle", "giveup"}
    /\ faults < MaxFaults
    /\ faults' = faults + 1
    /\ run' = NextOp
    /\ UNCHANGED <<durable, due, req, up, bg, crashes, history>>

\* next_attempt_at passes.
BackoffElapses(i) ==
    /\ i \in pending \ due
    /\ due' = due \cup {i}
    /\ UNCHANGED <<durable, req, up, bg, run, bounds, history>>

\* The process dies: handlers, runner and tasks are gone, the database stays.
Crash ==
    /\ crashes < MaxCrashes
    /\ crashes' = crashes + 1
    /\ req' = [h \in Handlers |-> HandlerIdle]
    /\ up' = FALSE
    /\ bg' = <<>>
    /\ run' = RunnerIdle
    /\ lost' = lost \cup UNION {req[h].job.uids : h \in {g \in Handlers : req[g].pc = "written"}}
    /\ UNCHANGED <<durable, due, faults, confirmed, misses, abandoned, overlapped>>

----------------------------------------------------------------------------
HandlerStep ==
    \E h \in Handlers :
        \/ \E job \in Payloads : Load(h, job)
        \/ WriteLocal(h) \/ Persist(h) \/ PersistFails(h) \/ Submit(h)

Call == CallSucceeds \/ CallFails
Settle == SettleSuccess \/ SettleFailure \/ GiveUp \/ SettleFails

Next ==
    \/ HandlerStep
    \/ Reconcile \/ TakeTask \/ RefuseTask \/ Poll
    \/ CallSucceeds \/ CallFails
    \/ SettleSuccess \/ SettleFailure \/ GiveUp \/ SettleFails
    \/ \E i \in OpIds : BackoffElapses(i)
    \/ Crash

(* The runner goroutine is scheduled, the poll timer fires again and again   *)
(* (Go's select chooses at random among ready channels, so a poll that is    *)
(* due is not passed over for ever by tasks), clocks advance and reconcile   *)
(* runs every 30 seconds.  Nothing is assumed of the handlers' callers.      *)
Fairness ==
    /\ WF_vars(Reconcile)
    /\ WF_vars(Poll)
    /\ WF_vars(Call)
    /\ WF_vars(Settle)
    /\ \A i \in OpIds : WF_vars(BackoffElapses(i))

Spec == Init /\ [][Next]_vars

FairSpec == Spec /\ Fairness

----------------------------------------------------------------------------
(* Properties *)

\* Types, and the facts about them that the code relies on: the task queue
\* never exceeds its capacity, only rows that exist are due, and every id in
\* use has been handed out by the database.
TypeOK ==
    /\ server \in [Msgs -> Values]
    /\ local \in [Msgs -> Values]
    /\ req \in [Handlers -> Requests]
    /\ nextId \in 1..(MaxOps + 1)
    /\ payload \in [OpIds -> Payloads \cup {NoPayload}]
    /\ pending \subseteq 1..(nextId - 1)
    /\ due \subseteq pending
    /\ attempts \in [OpIds -> Nat]
    /\ up \in BOOLEAN
    /\ bg \in Seq(OpIds \cup {DrainTask})
    /\ Len(bg) <= BgCap
    /\ run \in RunnerStates
    /\ faults \in 0..MaxFaults
    /\ crashes \in 0..MaxCrashes
    /\ confirmed \subseteq OpIds
    /\ misses \in [OpIds -> Nat]
    /\ abandoned \subseteq OpIds
    /\ overlapped \subseteq Msgs
    /\ lost \subseteq Msgs

\* An operation that was inserted into writeback_ops is still there, or the
\* server has confirmed it, or it was given up with a notification after
\* MaxWritebackAttempts failed commands: dropped tasks, refused tasks, database
\* errors and restarts never lose one silently.
NoAcceptedOpLost ==
    \A i \in 1..(nextId - 1) :
        \/ i \in pending
        \/ i \in confirmed
        \/ i \in abandoned /\ misses[i] >= MaxWritebackAttempts

\* The local copy and the server agree on every message for which nothing is
\* on its way, if no two changes of it ever overlapped and none was lost:
\* neither a command whose reply was lost, nor its repetition after a restart
\* or a database error, nor a batch done by half leaves the two apart.
QuietAgreement ==
    \A m \in Msgs \ (overlapped \cup lost) : ~Busy(m) => server[m] = local[m]

\* The queue as its users see it.
Stage(i) ==
    IF i \in pending THEN "pending"
    ELSE IF i >= nextId THEN "absent"
    ELSE IF i \in abandoned THEN "abandoned"
    ELSE "done"

Promise == INSTANCE DurableQueue WITH
              st <- [i \in OpIds |-> Stage(i)], hit <- confirmed

\* Writeback implements DurableQueue: at-least-once delivery, give-up only
\* after the allowed number of failures, and no operation waits for ever.
ImplementsDurableQueue == Promise!Spec
=============================================================================
