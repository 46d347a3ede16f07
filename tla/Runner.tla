------------------------------- MODULE Runner -------------------------------
(***************************************************************************)
(* The runner of one account: one goroutine, one IMAP connection           *)
(* (flymail/backend/modules/email/sync: runner.go, breaker.go, and         *)
(* fullSyncMessages of manager.go seen from the connection).               *)
(*                                                                         *)
(* Foreground requests (callers) block until the runner takes their task;  *)
(* background tasks wait in a bounded queue.  A poll walks through the     *)
(* folders on the connection it was given and lets foreground tasks run at *)
(* every folder boundary; those tasks may close that connection and dial a *)
(* new one.  Connections die at any moment without anybody being told.     *)
(* Timers are not counted: each of the periods (staleness, backoff,        *)
(* cool-down, throttle) has begun or has passed.                           *)
(***************************************************************************)
EXTENDS Integers, FiniteSets

CONSTANTS
    Callers,            \* foreground requests, each issued at most once
    Folders,            \* selectable folders of the account
    BgCap,              \* capacity of runner.bg (64 in the code)
    BreakerThreshold,   \* breakerThreshold (5 in the code)
    CanIDLE,            \* the server has IDLE and the account a quota for it
    MaxFaults           \* bound: failing dials and commands, dying connections

ASSUME FoldersAssumption == Folders \in Nat \ {0}
ASSUME BgCapAssumption == BgCap \in Nat \ {0}
ASSUME ThresholdAssumption == BreakerThreshold \in Nat \ {0}
ASSUME CanIDLEAssumption == CanIDLE \in BOOLEAN
ASSUME FaultsAssumption == MaxFaults \in Nat

\* Names of connections.  The runner and a poll remember one each, so a name
\* is always free for the next.
Conns == 1..3
NoConn == 0
Nobody == "nobody"
Background == "background"
ASSUME CallersAssumption == {Nobody, Background} \cap Callers = {}

VARIABLES
    \* the connection
    sess,       \* the variable sess of loop: a connection or nil
    open,       \* connections dialled and not closed by the runner
    dead,       \* connections the other side has dropped
    lastUsed,   \* lastUsedAt: "zero", "recent" or "stale"
    idle,       \* idleHandle # nil
    woken,      \* idleCh holds an event
    \* the gates of background work
    failures,   \* breaker.failures, counted up to the threshold
    brk,        \* the breaker is in its cool-down
    backoff,    \* now is before nextDialAt
    throttled,  \* now is before needsReauthUntil
    \* the work
    pc,         \* where the goroutine is
    cur,        \* whose task it executes
    held,       \* a background task taken by execPreferFG, not yet run
    poll,       \* the poll in progress
    call,       \* [Callers -> ...]: progress of each request
    bg,         \* background tasks in the queue
    faults

conn == <<sess, open, dead, lastUsed, idle, woken>>
gates == <<failures, brk, backoff, throttled>>
work == <<pc, cur, held, poll>>
vars == <<conn, gates, work, call, bg, faults>>

Pcs == {"select", "prefer", "exec", "run", "connect", "list", "folder", "yield", "panicked"}
NoPoll == [on |-> FALSE, conn |-> NoConn, left |-> 0, failed |-> 0]
Polls == [on : BOOLEAN, conn : Conns \cup {NoConn}, left : 0..Folders, failed : 0..Folders]

Init ==
    /\ sess = NoConn /\ open = {} /\ dead = {} /\ lastUsed = "zero"
    /\ idle = FALSE /\ woken = FALSE
    /\ failures = 0 /\ brk = FALSE /\ backoff = FALSE /\ throttled = FALSE
    /\ pc = "select" /\ cur = Nobody /\ held = FALSE /\ poll = NoPoll
    /\ call = [c \in Callers |-> "new"]
    /\ bg = 0 /\ faults = 0

Waiting == {c \in Callers : call[c] = "waiting"}
Live == open \ dead

Fault == faults < MaxFaults /\ faults' = faults + 1
RecordSuccess == failures' = 0 /\ brk' = FALSE
RecordFailure ==
    IF failures + 1 >= BreakerThreshold
    THEN failures' = BreakerThreshold /\ brk' = TRUE
    ELSE failures' = failures + 1 /\ brk' = brk
\* Mutant of AllowBackground: no half-open trial after the cool-down.
AllowBelowThreshold == failures < BreakerThreshold

AllowBackground == ~brk

\* sess.Close(); sess = nil; lastUsedAt as the caller says.
CloseSession(used) ==
    /\ open' = open \ {sess}
    /\ sess' = NoConn
    /\ lastUsed' = used

\* stopIdle: on a dead connection it may report an error, and the connection
\* is closed; lastUsedAt is left as it is.
StopIdle ==
    /\ idle' = FALSE
    /\ \/ UNCHANGED <<sess, open, lastUsed>>
       \/ idle /\ sess \in dead /\ CloseSession(lastUsed)

----------------------------------------------------------------------------
(* Requests *)

Call(c) ==
    /\ call[c] = "new"
    /\ call' = [call EXCEPT ![c] = "waiting"]
    /\ UNCHANGED <<conn, gates, work, bg, faults>>

\* The request's context ends; a task that was taken is executed all the same.
CallerLeaves(c) ==
    /\ call[c] \in {"waiting", "running"}
    /\ call' = [call EXCEPT ![c] = "gone"]
    /\ UNCHANGED <<conn, gates, work, bg, faults>>

\* Mutant of SubmitBackground: the full queue is not noticed.
SubmitUnbounded ==
    /\ bg' = bg + 1
    /\ UNCHANGED <<conn, gates, work, call, faults>>

SubmitBackground ==
    /\ bg < BgCap
    /\ bg' = bg + 1
    /\ UNCHANGED <<conn, gates, work, call, faults>>

Reply(result) ==
    call' = IF cur \in Callers /\ call[cur] = "running"
            THEN [call EXCEPT ![cur] = result] ELSE call

----------------------------------------------------------------------------
(* loop: one case of the select statement *)

Take(c) ==
    /\ call[c] = "waiting"
    /\ call' = [call EXCEPT ![c] = "running"]
    /\ cur' = c
    /\ pc' = "exec"

TakeForeground(c) ==
    /\ pc = "select"
    /\ Take(c)
    /\ StopIdle
    /\ UNCHANGED <<dead, woken, gates, held, poll, bg, faults>>

TakeBackground ==
    /\ pc = "select" /\ bg > 0
    /\ bg' = bg - 1
    /\ StopIdle
    /\ held' = TRUE
    /\ pc' = "prefer"
    /\ UNCHANGED <<dead, woken, gates, cur, poll, call, faults>>

\* execPreferFG: foreground tasks that are ready go first.
PreferForeground(c) ==
    /\ pc = "prefer"
    /\ Take(c)
    /\ UNCHANGED <<conn, gates, held, poll, bg, faults>>

RunHeld ==
    /\ pc = "prefer" /\ Waiting = {}
    /\ held' = FALSE
    /\ cur' = Background
    /\ pc' = "exec"
    /\ UNCHANGED <<conn, gates, poll, call, bg, faults>>

\* The IDLE callback has posted an event: InboxSync on the connection.
WakeUp ==
    /\ pc = "select" /\ woken
    /\ woken' = FALSE
    /\ idle' = FALSE
    /\ \/ sess = NoConn /\ UNCHANGED <<sess, open, lastUsed, gates, faults>>
       \/ idle /\ sess \in dead /\ CloseSession(lastUsed) /\ UNCHANGED <<gates, faults>>
       \/ sess \in Live /\ RecordSuccess
          /\ UNCHANGED <<sess, open, lastUsed, backoff, throttled, faults>>
       \/ sess \in dead /\ CloseSession(lastUsed) /\ RecordFailure
          /\ UNCHANGED <<backoff, throttled, faults>>
       \/ sess \in Live /\ Fault /\ CloseSession(lastUsed) /\ RecordFailure
          /\ UNCHANGED <<backoff, throttled>>
    /\ UNCHANGED <<dead, work, call, bg>>

EnterIdle ==
    /\ pc = "select" /\ CanIDLE /\ ~idle /\ sess \in Live
    /\ idle' = TRUE
    /\ UNCHANGED <<sess, open, dead, lastUsed, woken, gates, work, call, bg,
                   faults>>

\* 29 minutes of IDLE; an error of Stop is ignored here.
RefreshIdle ==
    /\ pc = "select" /\ idle
    /\ idle' = FALSE
    /\ UNCHANGED <<sess, open, dead, lastUsed, woken, gates, work, call, bg,
                   faults>>

IdleDropped ==
    /\ pc = "select" /\ idle /\ sess \in dead
    /\ idle' = FALSE
    /\ CloseSession(lastUsed)
    /\ RecordFailure
    /\ UNCHANGED <<dead, woken, backoff, throttled, work, call, bg, faults>>

\* 60 seconds without IDLE and without work.
CloseUnused ==
    /\ pc = "select" /\ sess # NoConn /\ ~idle
    /\ CloseSession(lastUsed)
    /\ UNCHANGED <<dead, idle, woken, gates, work, call, bg, faults>>

\* Mutant of PollTick: the gate of the breaker is missing.
PollTickUngated ==
    /\ pc = "select"
    /\ StopIdle
    /\ pc' = IF ~throttled THEN "connect" ELSE "select"
    /\ UNCHANGED <<dead, woken, gates, cur, held, poll, call, bg, faults>>

\* The poll timer, with the two gates of doPoll.
PollTick ==
    /\ pc = "select"
    /\ StopIdle
    /\ pc' = IF AllowBackground /\ ~throttled THEN "connect" ELSE "select"
    /\ UNCHANGED <<dead, woken, gates, cur, held, poll, call, bg, faults>>

----------------------------------------------------------------------------
(* exec and the connecting part of doPoll *)

After == IF held THEN "prefer" ELSE IF poll.on THEN "yield" ELSE "select"

ForBackground == pc = "connect" \/ (pc = "exec" /\ cur = Background)
Admitted ==
    pc = "exec" /\ cur = Background => AllowBackground /\ ~throttled

\* A background task is turned away.
Refuse ==
    /\ pc = "exec" /\ cur = Background
    /\ ~AllowBackground \/ throttled \/ (backoff /\ sess = NoConn)
    /\ cur' = Nobody
    /\ pc' = After
    /\ UNCHANGED <<conn, gates, held, poll, call, bg, faults>>

StartPoll(n) == [on |-> TRUE, conn |-> n, left |-> Folders, failed |-> 0]

\* There is a connection: the task runs, or the poll begins.
Proceed(n) ==
    IF pc = "exec" THEN pc' = "run" /\ poll' = poll
    ELSE pc' = "list" /\ poll' = StartPoll(n)

\* ensureAlive finds nothing wrong: used recently, or NOOP answered.
Reuse ==
    /\ pc \in {"exec", "connect"} /\ Admitted
    /\ sess # NoConn
    /\ lastUsed = "stale" => sess \in Live
    /\ lastUsed' = IF lastUsed = "stale" THEN "recent" ELSE lastUsed
    /\ Proceed(sess)
    /\ UNCHANGED <<sess, open, dead, idle, woken, gates, cur, held, call, bg,
                   faults>>

\* ensureAlive: NOOP fails on a connection that was unused for long.
ProbeFails ==
    /\ pc \in {"exec", "connect"} /\ Admitted
    /\ sess \in dead /\ lastUsed = "stale"
    /\ CloseSession("zero")
    /\ UNCHANGED <<dead, idle, woken, gates, work, call, bg, faults>>

MayDial ==
    /\ pc \in {"exec", "connect"} /\ Admitted
    /\ sess = NoConn
    /\ ForBackground => ~backoff

\* The next free name.
FreshName(n) ==
    LET free == Conns \ (open \cup {poll.conn})
    IN  n \in free /\ \A m \in free : n <= m

DialSucceeds ==
    /\ MayDial
    /\ \E n \in Conns :
         /\ FreshName(n)
         /\ sess' = n
         /\ open' = open \cup {n}
         /\ dead' = dead \ {n}
         /\ Proceed(n)
    /\ lastUsed' = "recent"
    /\ backoff' = FALSE /\ throttled' = FALSE
    /\ UNCHANGED <<idle, woken, failures, brk, cur, held, call, bg, faults>>

\* Mutant of DialFails: only a task that ran gets a reply.
DialFailsSilently ==
    /\ MayDial
    /\ Fault
    /\ RecordFailure
    /\ backoff' = TRUE
    /\ throttled' \in {throttled, TRUE}
    /\ cur' = Nobody
    /\ pc' = IF pc = "exec" THEN After ELSE "select"
    /\ UNCHANGED <<conn, held, poll, call, bg>>

\* onDialFailure, markNeedsReauthThrottle.
DialFails ==
    /\ MayDial
    /\ Fault
    /\ RecordFailure
    /\ backoff' = TRUE
    /\ throttled' \in {throttled, TRUE}
    /\ Reply("failed")
    /\ cur' = Nobody
    /\ pc' = IF pc = "exec" THEN After ELSE "select"
    /\ UNCHANGED <<conn, held, poll, bg>>

PollBacksOff ==
    /\ pc = "connect" /\ sess = NoConn /\ backoff
    /\ pc' = "select"
    /\ UNCHANGED <<conn, gates, cur, held, poll, call, bg, faults>>

----------------------------------------------------------------------------
(* The task *)

\* A write-back task swallows its errors, so it succeeds on a dead connection.
TaskSucceeds ==
    /\ pc = "run"
    /\ cur = Background \/ sess \in Live
    /\ RecordSuccess
    /\ lastUsed' = "recent"
    /\ Reply("answered")
    /\ cur' = Nobody
    /\ pc' = After
    /\ UNCHANGED <<sess, open, dead, idle, woken, backoff, throttled, held,
                   poll, bg,
                   faults>>

\* Mutant of TaskFails: the connection is dropped without being closed.
TaskFailsLeaking ==
    /\ pc = "run" /\ cur # Background
    /\ \/ sess \in dead /\ UNCHANGED faults
       \/ sess \in Live /\ Fault
    /\ sess' = NoConn /\ lastUsed' = "zero"
    /\ Reply("failed")
    /\ cur' = Nobody
    /\ pc' = After
    /\ UNCHANGED <<open, dead, idle, woken, gates, held, poll, bg>>

\* The connection is closed, whatever the error was.
TaskFails ==
    /\ pc = "run" /\ cur # Background
    /\ \/ sess \in dead /\ UNCHANGED faults
       \/ sess \in Live /\ Fault
    /\ CloseSession("zero")
    /\ Reply("failed")
    /\ cur' = Nobody
    /\ pc' = After
    /\ UNCHANGED <<dead, idle, woken, gates, held, poll, bg>>

----------------------------------------------------------------------------
(* doPoll, once it has a connection *)

\* No slot is free: the poll ends, the connection stays.
PollDeferred ==
    /\ pc = "list"
    /\ poll' = NoPoll
    /\ pc' = "select"
    /\ UNCHANGED <<conn, gates, cur, held, call, bg, faults>>

ListSucceeds ==
    /\ pc = "list" /\ poll.conn \in Live
    /\ pc' = "folder"
    /\ UNCHANGED <<conn, gates, cur, held, poll, call, bg, faults>>

\* FullSync has returned an error: (*sess).Close() on whatever sess is now.
PollFails ==
    /\ poll' = NoPoll
    /\ IF sess = NoConn
       THEN pc' = "panicked" /\ UNCHANGED <<sess, open, lastUsed, failures, brk, backoff>>
       ELSE /\ pc' = "select"
            /\ CloseSession("zero")
            /\ RecordFailure
            /\ backoff' = TRUE
    /\ UNCHANGED <<dead, idle, woken, throttled, cur, held, call, bg>>

ListFails ==
    /\ pc = "list"
    /\ \/ poll.conn \notin Live /\ UNCHANGED faults
       \/ poll.conn \in Live /\ Fault
    /\ PollFails

SyncFolder ==
    /\ pc = "folder" /\ poll.conn \in Live
    /\ poll' = [poll EXCEPT !.left = @ - 1]
    /\ pc' = "yield"
    /\ UNCHANGED <<conn, gates, cur, held, call, bg, faults>>

\* The error of one folder is counted, the next folder is tried.
SyncFolderFails ==
    /\ pc = "folder"
    /\ \/ poll.conn \notin Live /\ UNCHANGED faults
       \/ poll.conn \in Live /\ Fault
    /\ poll' = [poll EXCEPT !.left = @ - 1, !.failed = @ + 1]
    /\ pc' = "yield"
    /\ UNCHANGED <<conn, gates, cur, held, call, bg>>

\* drainForeground.
YieldTo(c) ==
    /\ pc = "yield"
    /\ Take(c)
    /\ UNCHANGED <<conn, gates, held, poll, bg, faults>>

NextFolder ==
    /\ pc = "yield" /\ Waiting = {} /\ poll.left > 0
    /\ pc' = "folder"
    /\ UNCHANGED <<conn, gates, cur, held, poll, call, bg, faults>>

PollSucceeds ==
    /\ pc = "yield" /\ Waiting = {} /\ poll.left = 0 /\ poll.failed < Folders
    /\ RecordSuccess
    /\ lastUsed' = "recent"
    /\ poll' = NoPoll
    /\ pc' = "select"
    /\ UNCHANGED <<sess, open, dead, idle, woken, backoff, throttled, cur, held,
                   call, bg,
                   faults>>

AllFoldersFailed ==
    /\ pc = "yield" /\ Waiting = {} /\ poll.left = 0 /\ poll.failed = Folders
    /\ UNCHANGED faults
    /\ PollFails

----------------------------------------------------------------------------
(* The outside world *)

ConnectionDies ==
    /\ sess \in Live
    /\ Fault
    /\ dead' = dead \cup {sess}
    /\ UNCHANGED <<sess, open, lastUsed, idle, woken, gates, work, call, bg>>

MailArrives ==
    /\ idle /\ sess \in Live
    /\ woken' = TRUE
    /\ UNCHANGED <<sess, open, dead, lastUsed, idle, gates, work, call, bg, faults>>

TimePasses ==
    /\ lastUsed = "recent"
    /\ lastUsed' = "stale"
    /\ UNCHANGED <<sess, open, dead, idle, woken, gates, work, call, bg, faults>>

BackoffEnds ==
    /\ backoff
    /\ backoff' = FALSE
    /\ UNCHANGED <<conn, failures, brk, throttled, work, call, bg, faults>>

CooldownEnds ==
    /\ brk
    /\ brk' = FALSE
    /\ UNCHANGED <<conn, failures, backoff, throttled, work, call, bg, faults>>

ThrottleEnds ==
    /\ throttled
    /\ throttled' = FALSE
    /\ UNCHANGED <<conn, failures, brk, backoff, work, call, bg, faults>>

----------------------------------------------------------------------------
Execute ==
    \/ \E c \in Callers : PreferForeground(c)
    \/ RunHeld \/ Refuse \/ Reuse \/ ProbeFails \/ DialSucceeds \/ DialFails
    \/ PollBacksOff \/ TaskSucceeds \/ TaskFails

PollStep ==
    \/ PollDeferred \/ ListSucceeds \/ ListFails
    \/ SyncFolder \/ SyncFolderFails
    \/ \E c \in Callers : YieldTo(c)
    \/ NextFolder \/ PollSucceeds \/ AllFoldersFailed

Next ==
    \/ \E c \in Callers : Call(c) \/ CallerLeaves(c) \/ TakeForeground(c)
    \/ SubmitBackground
    \/ TakeBackground \/ WakeUp \/ PollTick
    \/ EnterIdle \/ RefreshIdle \/ IdleDropped \/ CloseUnused
    \/ Execute \/ PollStep
    \/ ConnectionDies \/ MailArrives \/ TimePasses
    \/ BackoffEnds \/ CooldownEnds \/ ThrottleEnds

Spec == Init /\ [][Next]_vars

(* The goroutine does not stop inside a task or a poll.  Go's select picks    *)
(* at random among the cases that are ready, so a case that is ready again    *)
(* and again is picked some time; the poll timer fires for ever; the periods  *)
(* end; a slot for the poll is free some time.  Faults are bounded; nothing   *)
(* is assumed of callers.                                                     *)
FairSpec ==
    /\ Spec
    /\ WF_vars(Execute) /\ WF_vars(PollStep)
    /\ SF_vars(PollTick) /\ SF_vars(ListSucceeds \/ ListFails)
    /\ \A c \in Callers : SF_vars(TakeForeground(c))
    /\ WF_vars(BackoffEnds) /\ WF_vars(CooldownEnds) /\ WF_vars(ThrottleEnds)

----------------------------------------------------------------------------
(* Properties *)

\* Types, and what the code relies on without testing it: the runner idles on
\* a connection only, its current connection is one it has not closed, the
\* breaker is open only after enough failures.
TypeOK ==
    /\ sess \in Conns \cup {NoConn}
    /\ open \subseteq Conns
    /\ dead \subseteq Conns
    /\ lastUsed \in {"zero", "recent", "stale"}
    /\ idle \in BOOLEAN /\ woken \in BOOLEAN
    /\ failures \in 0..BreakerThreshold
    /\ brk \in BOOLEAN /\ backoff \in BOOLEAN /\ throttled \in BOOLEAN
    /\ pc \in Pcs
    /\ cur \in Callers \cup {Nobody, Background}
    /\ held \in BOOLEAN
    /\ poll \in Polls
    /\ call \in [Callers -> {"new", "waiting", "running", "answered", "failed", "gone"}]
    /\ bg \in 0..BgCap
    /\ faults \in 0..MaxFaults

\* The account never has a second connection and never loses track of one:
\* whatever sequence of failing tasks, probes, IDLE ends and polls has closed
\* and dialled, the connections not closed are exactly the current one.
OneConnection == open = {sess} \ {NoConn}

\* A connection the runner has is out of the backoff period, so no background
\* task is refused for want of a connection while there is one.
BackoffOnlyUnconnected == sess # NoConn => ~backoff

\* A request whose task was taken is the one being executed: no path through
\* exec, the failing dial included, forgets to reply.
TakenIsExecuted == \A c \in Callers : call[c] = "running" => cur = c

\* Background work never dials during the breaker's cool-down, the backoff or
\* the throttling, even though they are checked steps before the dial.
GatesRespected ==
    [][sess = NoConn /\ sess' # NoConn /\ ForBackground
         => ~brk /\ ~backoff /\ ~throttled]_vars

\* A request that waits is answered, fails or leaves, however polls, background
\* tasks and failures interleave with it (or the process is gone).
Answered ==
    \A c \in Callers :
        call[c] = "waiting" ~> call[c] \in {"answered", "failed", "gone"} \/ pc = "panicked"

\* When failures stop, polls succeed again for ever: breaker, backoff and
\* throttling always let go (or the process is gone).
PollsResume == []<><<PollSucceeds>>_vars \/ <>(pc = "panicked")

----------------------------------------------------------------------------
(* What comments and documents of the code say, and the model refutes.      *)

\* runner.go, at exec: a task that fails closes the connection, to be built
\* anew later; it does not bring the process down.  At a folder boundary of a
\* poll that fails afterwards it does.
NeverPanics == pc # "panicked"
=============================================================================
