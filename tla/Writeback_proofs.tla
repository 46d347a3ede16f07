-------------------------- MODULE Writeback_proofs --------------------------
(***************************************************************************)
(* Proofs about the write-back queue, for every set of messages and of     *)
(* handlers, every number of operations, every attempt limit, every queue  *)
(* capacity and any number of faults and crashes.                          *)
(***************************************************************************)
EXTENDS Writeback, TLAPS

----------------------------------------------------------------------------
(* Type correctness *)

\* Every verb maps values to values.
LEMMA EffectType ==
    ASSUME NEW verb, NEW value \in Values
    PROVE  Effect(verb, value) \in Values
  BY DEF Effect, Values

\* Doing a verb twice is doing it once: the reason a repeated command is safe.
LEMMA EffectIdempotent ==
    ASSUME NEW verb \in Verbs, NEW value \in Values
    PROVE  Effect(verb, Effect(verb, value)) = Effect(verb, value)
  BY DEF Effect, Values, Verbs

\* The runner's state when it goes on with the rows it has selected.
LEMMA WorkingType ==
    ASSUME NEW todo \in SUBSET OpIds
    PROVE  Working(todo) \in RunnerStates
  BY DEF Working, RunnerStates, RunnerIdle, DrainTask

\* Messages the server changed are still messages with a value.
LEMMA AppliedToType ==
    ASSUME TypeOK, NEW S, NEW verb
    PROVE  AppliedTo(S, verb) \in [Msgs -> Values]
  <1>1. \A m \in Msgs : server[m] \in Values
    BY DEF TypeOK
  <1> QED  BY <1>1, EffectType DEF AppliedTo

\* A task queue stays a queue of tasks within its capacity.
LEMMA SubmittedType ==
    ASSUME NEW q \in Seq(OpIds \cup {DrainTask}), Len(q) <= BgCap,
           NEW t \in OpIds \cup {DrainTask}
    PROVE  /\ Submitted(q, t) \in Seq(OpIds \cup {DrainTask})
           /\ Len(Submitted(q, t)) <= BgCap
  <1>1. CASE Len(q) < BgCap
    <2>1. Append(q, t) \in Seq(OpIds \cup {DrainTask}) /\ Len(Append(q, t)) = Len(q) + 1
      OBVIOUS
    <2> QED  BY <1>1, <2>1, BgCapAssumption DEF Submitted
  <1>2. CASE ~(Len(q) < BgCap)
    BY <1>2 DEF Submitted
  <1> QED  BY <1>1, <1>2

LEMMA InitType == Init => TypeOK
  <1> SUFFICES ASSUME Init PROVE TypeOK
    OBVIOUS
  <1>1. HandlerIdle \in Requests
    BY DEF HandlerIdle, Requests
  <1>2. RunnerIdle \in RunnerStates
    BY DEF RunnerIdle, RunnerStates
  <1>3. nextId \in 1..(MaxOps + 1) /\ pending \subseteq 1..(nextId - 1)
    BY MaxOpsAssumption DEF Init
  <1>4. bg \in Seq(OpIds \cup {DrainTask}) /\ Len(bg) <= BgCap
    BY BgCapAssumption DEF Init
  <1>5. server \in [Msgs -> Values] /\ local \in [Msgs -> Values]
    BY DEF Init, Values
  <1>6. req \in [Handlers -> Requests] /\ run \in RunnerStates
    BY <1>1, <1>2 DEF Init
  <1>7. payload \in [OpIds -> Payloads \cup {NoPayload}]
    BY DEF Init
  <1>8. attempts \in [OpIds -> Nat] /\ misses \in [OpIds -> Nat]
    BY DEF Init
  <1>9. faults \in 0..MaxFaults /\ crashes \in 0..MaxCrashes
    BY BoundsAssumption DEF Init
  <1> QED
    BY <1>3, <1>4, <1>5, <1>6, <1>7, <1>8, <1>9 DEF Init, TypeOK

\* What the runner knows of the rows it works on: they are in the table (nobody
\* else deletes rows), and the one it settles is one of them.
RunnerOK ==
    /\ run.todo \subseteq pending
    /\ run.pc = "idle" => run.todo = {}
    /\ run.pc \in {"settle", "giveup"} => run.cur \in run.todo

\* The rows of the table have ids the database may hand out.
LEMMA PendingIds ==
    ASSUME TypeOK PROVE pending \subseteq OpIds /\ due \subseteq OpIds
  <1>1. nextId \in 1..(MaxOps + 1) /\ pending \subseteq 1..(nextId - 1) /\ due \subseteq pending
    BY DEF TypeOK
  <1> QED  BY <1>1, MaxOpsAssumption DEF OpIds

\* Every row is older than the next id.
LEMMA OlderRows ==
    ASSUME TypeOK PROVE nextId \in Nat /\ nextId \notin pending /\ \A i \in pending : i < nextId
  <1>1. nextId \in 1..(MaxOps + 1) /\ pending \subseteq 1..(nextId - 1)
    BY DEF TypeOK
  <1>2. nextId \in Nat
    BY <1>1, MaxOpsAssumption
  <1> QED  BY <1>1, <1>2

LEMMA CurrentId ==
    ASSUME TypeOK, RunnerOK, run.pc \in {"settle", "giveup"} PROVE run.cur \in OpIds
  BY PendingIds DEF RunnerOK

LEMMA HandlerType ==
    ASSUME TypeOK, HandlerStep PROVE TypeOK'
  <1> USE DEF TypeOK, OpIds
  <1>0. PICK h \in Handlers : \/ \E job \in Payloads : Load(h, job)
                              \/ WriteLocal(h) \/ Persist(h) \/ PersistFails(h) \/ Submit(h)
    BY DEF HandlerStep
  <1>1. ASSUME NEW job \in Payloads, Load(h, job) PROVE TypeOK'
    <2>1. req' \in [Handlers -> Requests]
      BY <1>1 DEF Load, Requests
    <2>2. overlapped' \subseteq Msgs
      BY <1>1 DEF Load, Payloads, Groups
    <2> QED  BY <1>1, <2>1, <2>2 DEF Load, durable, bounds
  <1>2. CASE WriteLocal(h)
    <2>1. req' \in [Handlers -> Requests]
      BY <1>2 DEF WriteLocal, Requests
    <2>2. \A m \in Msgs : local[m] \in Values
      OBVIOUS
    <2>3. local' \in [Msgs -> Values]
      BY <1>2, <2>2, EffectType DEF WriteLocal
    <2> QED  BY <1>2, <2>1, <2>3 DEF WriteLocal, bounds, history
  <1>3. CASE Persist(h)
    <2>1. req[h].job \in Payloads \cup {NoPayload}
      BY DEF Requests
    <2>2. req' \in [Handlers -> Requests]
      BY <1>3, MaxOpsAssumption DEF Persist, Requests
    <2>3. payload' \in [OpIds -> Payloads \cup {NoPayload}]
      BY <1>3, <2>1 DEF Persist
    <2>4. nextId' \in 1..(MaxOps + 1) /\ pending' \subseteq 1..(nextId' - 1) /\ due' \subseteq pending'
      BY <1>3, MaxOpsAssumption DEF Persist
    <2> QED  BY <1>3, <2>2, <2>3, <2>4 DEF Persist, bounds, history
  <1>4. CASE PersistFails(h)
    <2>1. HandlerIdle \in Requests
      BY DEF HandlerIdle, Requests
    <2>2. req[h].job.uids \subseteq Msgs
      BY DEF Requests, Payloads, NoPayload, Groups
    <2>3. faults' \in 0..MaxFaults
      BY <1>4, BoundsAssumption DEF PersistFails
    <2> QED  BY <1>4, <2>1, <2>2, <2>3 DEF PersistFails, durable
  <1>5. CASE Submit(h)
    <2>1. HandlerIdle \in Requests
      BY DEF HandlerIdle, Requests
    <2>2. req[h].id \in OpIds \cup {DrainTask}
      BY DEF Requests
    <2>3. bg' \in Seq(OpIds \cup {DrainTask}) /\ Len(bg') <= BgCap
      BY <1>5, <2>2, SubmittedType DEF Submit
    <2> QED  BY <1>5, <2>1, <2>3 DEF Submit, durable, bounds, history
  <1> QED  BY <1>0, <1>1, <1>2, <1>3, <1>4, <1>5

LEMMA RunnerTakesType ==
    ASSUME TypeOK, Reconcile \/ TakeTask \/ RefuseTask \/ Poll PROVE TypeOK'
  <1> USE DEF TypeOK
  <1>0. pending \subseteq OpIds /\ due \subseteq OpIds
    BY PendingIds
  <1>1. CASE Reconcile
    <2>1. CASE pending = {}
      <3>1. bg' = <<>>
        BY <1>1, <2>1 DEF Reconcile
      <3> QED  BY <1>1, <3>1, BgCapAssumption DEF Reconcile, durable, bounds, history
    <2>2. CASE pending # {}
      <3>1. bg' = <<DrainTask>>
        BY <1>1, <2>2 DEF Reconcile
      <3>2. bg' \in Seq(OpIds \cup {DrainTask}) /\ Len(bg') = 1
        BY <3>1
      <3> QED  BY <1>1, <3>2, BgCapAssumption DEF Reconcile, durable, bounds, history
    <2> QED  BY <2>1, <2>2
  <1>2. ASSUME bg # <<>>, bg' = Tail(bg)
        PROVE  bg' \in Seq(OpIds \cup {DrainTask}) /\ Len(bg') <= BgCap
    BY <1>2, BgCapAssumption
  <1>3. CASE TakeTask
    <2>1. run' \in RunnerStates
      BY <1>0, <1>3, WorkingType DEF TakeTask, DuePending
    <2> QED  BY <1>2, <1>3, <2>1 DEF TakeTask, durable, bounds, history
  <1>4. CASE RefuseTask
    BY <1>2, <1>4 DEF RefuseTask, durable, bounds, history
  <1>5. CASE Poll
    <2>1. run' \in RunnerStates
      BY <1>0, <1>5, WorkingType DEF Poll, DuePending
    <2> QED  BY <1>5, <2>1 DEF Poll, durable, bounds, history
  <1> QED  BY <1>1, <1>3, <1>4, <1>5

LEMMA CallType ==
    ASSUME TypeOK, Call PROVE TypeOK'
  <1> USE DEF TypeOK
  <1>1. CASE CallSucceeds
    <2>1. PICK i \in OpIds : /\ server' = AppliedTo(payload[i].uids, payload[i].verb)
                             /\ run' = [run EXCEPT !.pc = "settle", !.cur = i, !.ok = TRUE]
                             /\ confirmed' = confirmed \cup {i}
      BY <1>1 DEF CallSucceeds
    <2>2. run' \in RunnerStates
      BY <2>1 DEF RunnerStates
    <2>3. server' \in [Msgs -> Values]
      BY <2>1, AppliedToType
    <2> QED  BY <1>1, <2>1, <2>2, <2>3 DEF CallSucceeds, bounds
  <1>2. CASE CallFails
    <2>1. PICK i \in OpIds : /\ \E S \in SUBSET payload[i].uids : server' = AppliedTo(S, payload[i].verb)
                             /\ run' = [run EXCEPT !.pc = "settle", !.cur = i, !.ok = FALSE]
                             /\ misses' = [misses EXCEPT ![i] = @ + 1]
      BY <1>2 DEF CallFails
    <2>2. run' \in RunnerStates
      BY <2>1 DEF RunnerStates
    <2>3. server' \in [Msgs -> Values]
      BY <2>1, AppliedToType
    <2>4. misses' \in [OpIds -> Nat]
      BY <2>1
    <2>5. faults' \in 0..MaxFaults
      BY <1>2, BoundsAssumption DEF CallFails
    <2> QED  BY <1>2, <2>2, <2>3, <2>4, <2>5 DEF CallFails
  <1> QED  BY <1>1, <1>2 DEF Call

LEMMA SettleType ==
    ASSUME TypeOK, RunnerOK, Settle PROVE TypeOK'
  <1> USE DEF TypeOK
  <1>0. NextOp \in RunnerStates
    <2>1. run.todo \ {run.cur} \in SUBSET OpIds
      BY DEF RunnerStates
    <2> QED  BY <2>1, WorkingType DEF NextOp
  <1>00. run.pc \in {"settle", "giveup"} => run.cur \in OpIds
    BY CurrentId
  <1>1. CASE SettleSuccess
    BY <1>0, <1>1 DEF SettleSuccess, bounds, history
  <1>2. CASE SettleFailure
    <2>1. run' \in RunnerStates
      BY <1>0, <1>2 DEF SettleFailure, RunnerStates
    <2>2. attempts' \in [OpIds -> Nat]
      BY <1>00, <1>2 DEF SettleFailure
    <2>3. due' \subseteq pending'
      BY <1>2 DEF SettleFailure
    <2> QED  BY <1>2, <2>1, <2>2, <2>3 DEF SettleFailure, bounds, history
  <1>3. CASE GiveUp
    <2>1. run.cur \in OpIds
      BY <1>3, <1>00 DEF GiveUp
    <2>2. payload[run.cur] \in Payloads \cup {NoPayload}
      BY <2>1
    <2>3. payload[run.cur].uids \subseteq Msgs
      BY <2>2 DEF Payloads, NoPayload, Groups
    <2> QED  BY <1>0, <1>3, <2>1, <2>3 DEF GiveUp, bounds
  <1>4. CASE SettleFails
    <2>1. faults' \in 0..MaxFaults
      BY <1>4, BoundsAssumption DEF SettleFails
    <2> QED  BY <1>0, <1>4, <2>1 DEF SettleFails, durable, history
  <1> QED  BY <1>1, <1>2, <1>3, <1>4 DEF Settle

LEMMA ClockAndCrashType ==
    ASSUME TypeOK, Crash \/ \E i \in OpIds : BackoffElapses(i) PROVE TypeOK'
  <1> USE DEF TypeOK
  <1>1. ASSUME NEW i \in OpIds, BackoffElapses(i) PROVE TypeOK'
    BY <1>1 DEF BackoffElapses, durable, bounds, history
  <1>2. CASE Crash
    <2>1. HandlerIdle \in Requests /\ RunnerIdle \in RunnerStates
      BY DEF HandlerIdle, Requests, RunnerIdle, RunnerStates
    <2>2. \A h \in Handlers : req[h] \in Requests
      OBVIOUS
    <2>3. \A h \in Handlers : req[h].job.uids \subseteq Msgs
      BY <2>2 DEF Requests, Payloads, NoPayload, Groups
    <2>4. lost' \subseteq Msgs
      BY <1>2, <2>3 DEF Crash
    <2>5. crashes' \in 0..MaxCrashes
      BY <1>2, BoundsAssumption DEF Crash
    <2>6. bg' \in Seq(OpIds \cup {DrainTask}) /\ Len(bg') <= BgCap
      BY <1>2, BgCapAssumption DEF Crash
    <2>7. req' \in [Handlers -> Requests] /\ run' \in RunnerStates
      BY <1>2, <2>1 DEF Crash
    <2> QED  BY <1>2, <2>4, <2>5, <2>6, <2>7 DEF Crash, durable
  <1> QED  BY <1>1, <1>2

\* How the runner's state looks when it goes on.
LEMMA WorkingShape ==
    ASSUME NEW todo
    PROVE  /\ Working(todo).todo = todo
           /\ Working(todo).pc = "idle" => todo = {}
           /\ Working(todo).pc \in {"idle", "call"}
  BY DEF Working, RunnerIdle

LEMMA RunnerStep ==
    ASSUME TypeOK, RunnerOK, [Next]_vars PROVE RunnerOK'
  <1> USE DEF RunnerOK
  <1>0. run \in RunnerStates
    BY DEF TypeOK
  <1>1. ASSUME run' = run, pending \subseteq pending' PROVE RunnerOK'
    BY <1>1
  <1>2. CASE HandlerStep
    BY <1>1, <1>2 DEF HandlerStep, Load, WriteLocal, Persist, PersistFails, Submit, durable
  <1>3. CASE Reconcile \/ RefuseTask \/ UNCHANGED vars
    BY <1>1, <1>3 DEF Reconcile, RefuseTask, vars, durable
  <1>4. ASSUME NEW i \in OpIds, BackoffElapses(i) PROVE RunnerOK'
    BY <1>1, <1>4 DEF BackoffElapses, durable
  <1>5. ASSUME NEW todo \in SUBSET pending', run' = Working(todo) PROVE RunnerOK'
    BY <1>5, WorkingShape
  <1>6. CASE TakeTask
    BY <1>5, <1>6 DEF TakeTask, durable, DuePending, TypeOK
  <1>7. CASE Poll
    BY <1>5, <1>7 DEF Poll, durable, DuePending, TypeOK
  <1>8. CASE CallSucceeds
    <2>1. PICK i \in OpIds : /\ i \in run.todo
                             /\ run' = [run EXCEPT !.pc = "settle", !.cur = i, !.ok = TRUE]
      BY <1>8 DEF CallSucceeds, Oldest
    <2> QED  BY <1>0, <1>8, <2>1 DEF CallSucceeds, RunnerStates
  <1>9. CASE CallFails
    <2>1. PICK i \in OpIds : /\ i \in run.todo
                             /\ run' = [run EXCEPT !.pc = "settle", !.cur = i, !.ok = FALSE]
      BY <1>9 DEF CallFails, Oldest
    <2> QED  BY <1>0, <1>9, <2>1 DEF CallFails, RunnerStates
  <1>10. CASE SettleSuccess
    BY <1>5, <1>10 DEF SettleSuccess, NextOp
  <1>11. CASE SettleFailure
    <2>1. CASE run' = NextOp
      BY <1>5, <1>11, <2>1 DEF SettleFailure, NextOp
    <2>2. CASE run' = [run EXCEPT !.pc = "giveup"]
      BY <1>0, <1>11, <2>2 DEF SettleFailure, RunnerStates
    <2> QED  BY <1>11, <2>1, <2>2 DEF SettleFailure
  <1>12. CASE GiveUp
    BY <1>5, <1>12 DEF GiveUp, NextOp
  <1>13. CASE SettleFails
    BY <1>5, <1>13 DEF SettleFails, NextOp, durable
  <1>14. CASE Crash
    BY <1>14 DEF Crash, RunnerIdle
  <1> QED  BY <1>2, <1>3, <1>4, <1>6, <1>7, <1>8, <1>9, <1>10, <1>11, <1>12, <1>13, <1>14 DEF Next

\* The runner's bookkeeping and the types are an inductive invariant together.
LEMMA TypeStep ==
    ASSUME TypeOK, RunnerOK, [Next]_vars PROVE TypeOK'
  <1>1. CASE UNCHANGED vars
    BY <1>1 DEF TypeOK, vars, durable, bounds, history
  <1>2. CASE Next
    BY <1>2, HandlerType, RunnerTakesType, CallType, SettleType, ClockAndCrashType
       DEF Next, Call, Settle
  <1> QED  BY <1>1, <1>2

LEMMA RunnerInit == Init => RunnerOK
  BY DEF Init, RunnerOK, RunnerIdle

LEMMA Typing == Spec => [](TypeOK /\ RunnerOK)
  <1>1. Init => TypeOK /\ RunnerOK
    BY InitType, RunnerInit
  <1>2. (TypeOK /\ RunnerOK) /\ [Next]_vars => (TypeOK /\ RunnerOK)'
    BY TypeStep, RunnerStep
  <1> QED  BY <1>1, <1>2, PTL DEF Spec

\* The state of handlers, queue, table and runner is always of its type; the
\* task queue never exceeds runner.bg's capacity and only rows that exist are
\* due or in use.
THEOREM TypeCorrect == Spec => []TypeOK
  BY Typing, PTL

----------------------------------------------------------------------------
(* No operation is lost *)

\* The column attempts never runs ahead of the commands that really failed;
\* what the runner is about to conclude about its row is true of the history.
LedgerOK ==
    /\ NoAcceptedOpLost
    /\ \A i \in OpIds : attempts[i] <= misses[i]
    /\ run.pc = "settle" /\ run.ok => run.cur \in confirmed
    /\ run.pc = "settle" /\ ~run.ok => attempts[run.cur] < misses[run.cur]
    /\ run.pc = "giveup" => attempts[run.cur] >= MaxWritebackAttempts

LEMMA LedgerInit == Init => LedgerOK
  <1> SUFFICES ASSUME Init PROVE LedgerOK
    OBVIOUS
  <1>1. NoAcceptedOpLost
    BY DEF Init, NoAcceptedOpLost
  <1>2. \A i \in OpIds : attempts[i] <= misses[i]
    BY DEF Init
  <1>3. run.pc = "idle"
    BY DEF Init, RunnerIdle
  <1> QED  BY <1>1, <1>2, <1>3 DEF LedgerOK

LEMMA LedgerStep ==
    ASSUME TypeOK, RunnerOK, LedgerOK, [Next]_vars PROVE LedgerOK'
  <1> USE DEF LedgerOK, NoAcceptedOpLost
  <1>0. /\ run \in RunnerStates /\ nextId \in Nat /\ MaxWritebackAttempts \in Nat
        /\ attempts \in [OpIds -> Nat] /\ misses \in [OpIds -> Nat]
        /\ 1..(nextId - 1) \subseteq OpIds
    BY MaxOpsAssumption, AttemptsAssumption DEF TypeOK, OpIds
  <1>1. ASSUME UNCHANGED <<nextId, pending, attempts, confirmed, misses, abandoned>>,
               run' = run \/ run'.pc \in {"idle", "call"}
        PROVE  LedgerOK'
    BY <1>1
  <1>2. \A todo : Working(todo).pc \in {"idle", "call"}
    BY WorkingShape
  <1>3. CASE HandlerStep
    <2>0. PICK h \in Handlers : \/ \E job \in Payloads : Load(h, job)
                                \/ WriteLocal(h) \/ Persist(h) \/ PersistFails(h) \/ Submit(h)
      BY <1>3 DEF HandlerStep
    <2>1. CASE Persist(h)
      BY <1>0, <2>1 DEF Persist, history
    <2>2. CASE ~Persist(h)
      BY <1>1, <2>0, <2>2 DEF Load, WriteLocal, PersistFails, Submit, durable, history
    <2> QED  BY <2>1, <2>2
  <1>4. CASE Reconcile \/ RefuseTask \/ UNCHANGED vars
    BY <1>1, <1>4 DEF Reconcile, RefuseTask, vars, durable, history
  <1>5. ASSUME NEW i \in OpIds, BackoffElapses(i) PROVE LedgerOK'
    BY <1>1, <1>5 DEF BackoffElapses, durable, history
  <1>6. CASE TakeTask \/ Poll
    BY <1>1, <1>2, <1>6 DEF TakeTask, Poll, durable, history
  <1>7. CASE CallSucceeds
    <2>1. PICK i \in OpIds : /\ run' = [run EXCEPT !.pc = "settle", !.cur = i, !.ok = TRUE]
                             /\ confirmed' = confirmed \cup {i}
      BY <1>7 DEF CallSucceeds
    <2>2. run'.pc = "settle" /\ run'.ok /\ run'.cur = i
      BY <1>0, <2>1 DEF RunnerStates
    <2> QED  BY <1>7, <2>1, <2>2 DEF CallSucceeds
  <1>8. CASE CallFails
    <2>1. PICK i \in OpIds : /\ run' = [run EXCEPT !.pc = "settle", !.cur = i, !.ok = FALSE]
                             /\ misses' = [misses EXCEPT ![i] = @ + 1]
      BY <1>8 DEF CallFails
    <2>2. run'.pc = "settle" /\ ~run'.ok /\ run'.cur = i
      BY <1>0, <2>1 DEF RunnerStates
    <2>3. \A j \in OpIds : misses'[j] >= misses[j]
      BY <1>0, <2>1
    <2>4. misses'[i] = misses[i] + 1
      BY <1>0, <2>1
    <2>5. UNCHANGED <<nextId, pending, attempts, confirmed, abandoned>>
      BY <1>8 DEF CallFails
    <2>6. \A j \in OpIds : misses'[j] \in Nat
      BY <1>0, <2>1
    <2>7. NoAcceptedOpLost'
      BY <1>0, <2>3, <2>5, <2>6
    <2> QED  BY <1>0, <2>2, <2>3, <2>4, <2>5, <2>6, <2>7
  <1>9. CASE SettleSuccess
    <2>1. run.cur \in confirmed
      BY <1>9 DEF SettleSuccess
    <2>2. run'.pc \in {"idle", "call"}
      BY <1>2, <1>9 DEF SettleSuccess, NextOp
    <2> QED  BY <1>9, <2>1, <2>2 DEF SettleSuccess, history
  <1>10. CASE SettleFailure
    <2>0. run.cur \in OpIds
      BY <1>10, CurrentId DEF SettleFailure
    <2>1. /\ attempts'[run.cur] = attempts[run.cur] + 1
          /\ \A j \in OpIds \ {run.cur} : attempts'[j] = attempts[j]
      BY <1>0, <1>10, <2>0 DEF SettleFailure
    <2>2. UNCHANGED <<nextId, pending, confirmed, misses, abandoned>>
      BY <1>10 DEF SettleFailure, history
    <2>3. attempts[run.cur] < misses[run.cur]
      BY <1>10 DEF SettleFailure
    <2>4. \A j \in OpIds : attempts'[j] <= misses'[j]
      BY <1>0, <2>0, <2>1, <2>2, <2>3
    <2>5. \/ run'.pc \in {"idle", "call"}
          \/ run'.pc = "giveup" /\ run'.cur = run.cur /\ attempts[run.cur] + 1 >= MaxWritebackAttempts
      BY <1>0, <1>2, <1>10 DEF SettleFailure, NextOp, RunnerStates
    <2> QED  BY <2>1, <2>2, <2>4, <2>5
  <1>11. CASE GiveUp
    <2>0. run.cur \in OpIds
      BY <1>11, CurrentId DEF GiveUp
    <2>1. misses[run.cur] >= MaxWritebackAttempts
      BY <1>0, <1>11, <2>0 DEF GiveUp
    <2>2. run'.pc \in {"idle", "call"}
      BY <1>2, <1>11 DEF GiveUp, NextOp
    <2> QED  BY <1>11, <2>1, <2>2 DEF GiveUp
  <1>12. CASE SettleFails
    BY <1>1, <1>2, <1>12 DEF SettleFails, NextOp, durable, history
  <1>13. CASE Crash
    BY <1>1, <1>13 DEF Crash, RunnerIdle, durable
  <1> QED  BY <1>3, <1>4, <1>5, <1>6, <1>7, <1>8, <1>9, <1>10, <1>11, <1>12, <1>13 DEF Next

LEMMA Ledger == Spec => []LedgerOK
  <1>1. Init => LedgerOK
    BY LedgerInit
  <1>2. (TypeOK /\ RunnerOK) /\ LedgerOK /\ [Next]_vars => LedgerOK'
    BY LedgerStep
  <1> QED  BY <1>1, <1>2, Typing, PTL DEF Spec

\* Whatever handlers, tasks, database errors, IMAP errors and restarts do, an
\* operation that reached writeback_ops is still there, confirmed by the
\* server, or given up after MaxWritebackAttempts failed commands.
THEOREM NothingAcceptedIsLost == Spec => []NoAcceptedOpLost
  <1>1. LedgerOK => NoAcceptedOpLost
    BY DEF LedgerOK
  <1> QED  BY <1>1, Ledger, PTL

----------------------------------------------------------------------------
(* The local copy and the server agree *)

\* The inductive form of QuietAgreement for one message: at most one change of
\* m is on its way, carried either by a handler or by a row; before the local
\* write the two sides are equal, after it the local value is what the verb
\* makes of the server's, and it stays so however often the command is done.
\* At most one handler, or one row, and not both, is about m.
OneChange(m) ==
    /\ \A g, h \in Promised : m \in req[g].job.uids /\ m \in req[h].job.uids => g = h
    /\ \A i, j \in pending : m \in payload[i].uids /\ m \in payload[j].uids => i = j
    /\ \A h \in Promised, i \in pending : ~(m \in req[h].job.uids /\ m \in payload[i].uids)

\* What the carrier of that change says about the two sides.
InTransit(m) ==
    /\ \A h \in Promised : req[h].pc = "loaded" /\ m \in req[h].job.uids => server[m] = local[m]
    /\ \A h \in Promised : req[h].pc = "written" /\ m \in req[h].job.uids
                           => local[m] = Effect(req[h].job.verb, server[m])
    /\ \A i \in pending : m \in payload[i].uids => local[m] = Effect(payload[i].verb, server[m])
    /\ run.pc = "settle" /\ run.ok /\ m \in payload[run.cur].uids => server[m] = local[m]

Agree(m) == OneChange(m) /\ InTransit(m) /\ (~Busy(m) => server[m] = local[m])

AgreeInv == \A m \in Msgs \ (overlapped \cup lost) : Agree(m)

\* Nothing that Agree mentions has changed.
LEMMA AgreeStable ==
    ASSUME NEW m \in Msgs, Agree(m),
           UNCHANGED <<server, local, req, payload, pending>>,
           run' = run \/ run'.pc # "settle"
    PROVE  Agree(m)'
  BY DEF Agree, OneChange, InTransit, Promised, Busy

LEMMA AgreeLoad ==
    ASSUME TypeOK, NEW m \in Msgs, Agree(m), NEW h \in Handlers, NEW job \in Payloads,
           Load(h, job), m \notin overlapped'
    PROVE  Agree(m)'
  <1>1. m \in job.uids => ~Busy(m)
    BY DEF Load
  <1>2. /\ UNCHANGED <<server, local, payload, pending, run>>
        /\ req[h].pc = "idle"
        /\ req' = [req EXCEPT ![h] = [pc |-> "loaded", job |-> job, id |-> DrainTask]]
    BY DEF Load, durable
  <1>3. req \in [Handlers -> Requests]
    BY DEF TypeOK
  <1>4. /\ req'[h].pc = "loaded" /\ req'[h].job = job
        /\ \A g \in Handlers \ {h} : req'[g] = req[g]
    BY <1>2, <1>3
  <1>5. Promised' = Promised \cup {h}
    BY <1>2, <1>4 DEF Promised
  <1>6. CASE m \in job.uids
    BY <1>1, <1>2, <1>4, <1>5, <1>6 DEF Agree, OneChange, InTransit, Busy, Promised
  <1>7. CASE m \notin job.uids
    <2>1. Busy(m)' <=> Busy(m)
      BY <1>2, <1>4, <1>5, <1>7 DEF Busy, Promised
    <2> QED  BY <1>2, <1>4, <1>5, <1>7, <2>1 DEF Agree, OneChange, InTransit, Promised
  <1> QED  BY <1>6, <1>7

LEMMA AgreeWriteLocal ==
    ASSUME TypeOK, RunnerOK, NEW m \in Msgs, Agree(m), NEW h \in Handlers, WriteLocal(h)
    PROVE  Agree(m)'
  <1>1. /\ UNCHANGED <<server, payload, pending, run>>
        /\ req[h].pc = "loaded"
        /\ req' = [req EXCEPT ![h].pc = "written"]
        /\ local'[m] = IF m \in req[h].job.uids THEN Effect(req[h].job.verb, local[m]) ELSE local[m]
    BY DEF WriteLocal
  <1>2. req \in [Handlers -> Requests]
    BY DEF TypeOK
  <1>3. /\ req'[h].pc = "written" /\ req'[h].job = req[h].job
        /\ \A g \in Handlers \ {h} : req'[g] = req[g]
    BY <1>1, <1>2 DEF Requests
  <1>4. Promised' = Promised /\ h \in Promised /\ \A g \in Handlers : req'[g].job = req[g].job
    BY <1>1, <1>3 DEF Promised
  <1>5. Busy(m)' <=> Busy(m)
    BY <1>1, <1>4 DEF Busy, Promised
  <1>6. CASE m \in req[h].job.uids
    <2>1. server[m] = local[m] /\ Busy(m)
      BY <1>1, <1>4, <1>6 DEF Agree, OneChange, InTransit, Busy
    <2>2. local'[m] = Effect(req[h].job.verb, server[m])
      BY <1>1, <1>6, <2>1
    <2>3. \A g \in Promised : m \in req[g].job.uids => g = h
      BY <1>4, <1>6 DEF Agree, OneChange, InTransit
    <2>4. \A i \in pending : m \notin payload[i].uids
      BY <1>4, <1>6 DEF Agree, OneChange, InTransit
    <2>5. \A g \in Handlers : req'[g].pc = "loaded" => m \notin req'[g].job.uids
      BY <1>3, <2>3 DEF Promised
    <2>6. \A g \in Handlers : req'[g].pc = "written" /\ m \in req'[g].job.uids => g = h
      BY <1>3, <2>3 DEF Promised
    <2>7. run.pc = "settle" => m \notin payload[run.cur].uids
      BY <2>4 DEF RunnerOK
    <2>8. Busy(m)'
      BY <1>5, <2>1
    <2> QED  BY <1>1, <1>3, <1>4, <2>2, <2>4, <2>5, <2>6, <2>7, <2>8 DEF Agree, OneChange, InTransit
  <1>7. CASE m \notin req[h].job.uids
    <2>1. local'[m] = local[m]
      BY <1>1, <1>7
    <2> QED  BY <1>1, <1>3, <1>4, <1>5, <1>7, <2>1 DEF Agree, OneChange, InTransit
  <1> QED  BY <1>6, <1>7

LEMMA AgreePersist ==
    ASSUME TypeOK, RunnerOK, NEW m \in Msgs, Agree(m), NEW h \in Handlers, Persist(h)
    PROVE  Agree(m)'
  <1>1. /\ UNCHANGED <<server, local, run>>
        /\ req[h].pc = "written" /\ nextId \in OpIds
        /\ payload' = [payload EXCEPT ![nextId] = req[h].job]
        /\ pending' = pending \cup {nextId}
        /\ req' = [req EXCEPT ![h].pc = "persisted", ![h].id = nextId]
    BY DEF Persist
  <1>2. req \in [Handlers -> Requests] /\ payload \in [OpIds -> Payloads \cup {NoPayload}]
    BY DEF TypeOK
  <1>3. nextId \notin pending /\ pending \subseteq OpIds
    BY PendingIds, MaxOpsAssumption DEF TypeOK
  <1>4. /\ req'[h].pc = "persisted" /\ req'[h].job = req[h].job
        /\ \A g \in Handlers \ {h} : req'[g] = req[g]
    BY <1>1, <1>2 DEF Requests
  <1>5. payload'[nextId] = req[h].job /\ \A i \in pending : payload'[i] = payload[i]
    BY <1>1, <1>2, <1>3
  <1>6. h \in Promised /\ Promised' = Promised \ {h} /\ Promised \subseteq Handlers
    BY <1>1, <1>4 DEF Promised
  <1>7. Busy(m)' <=> Busy(m)
    BY <1>1, <1>4, <1>5, <1>6 DEF Busy, Promised
  <1>8. run.pc = "settle" => run.cur \in pending
    BY DEF RunnerOK
  <1>9. CASE m \in req[h].job.uids
    <2>1. local[m] = Effect(req[h].job.verb, server[m])
      BY <1>1, <1>6, <1>9 DEF Agree, InTransit
    <2>2. \A g \in Promised' : m \notin req'[g].job.uids
      <3>1. ASSUME NEW g \in Promised, g # h, m \in req[g].job.uids PROVE FALSE
        <4>1. \A g1, g2 \in Promised :
                 m \in req[g1].job.uids /\ m \in req[g2].job.uids => g1 = g2
          BY DEF Agree, OneChange
        <4> QED  BY <1>6, <1>9, <3>1, <4>1
      <3> QED  BY <1>4, <1>6, <3>1
    <2>3. \A i \in pending : m \notin payload[i].uids
      BY <1>6, <1>9 DEF Agree, OneChange, InTransit
    <2>4. \A i \in pending' : m \in payload'[i].uids => i = nextId
      BY <1>1, <1>5, <2>3
    <2>5. \A g \in Handlers : req'[g].pc \in {"loaded", "written"} => m \notin req'[g].job.uids
      BY <2>2 DEF Promised
    <2>6. run.pc = "settle" => m \notin payload'[run.cur].uids
      BY <1>5, <1>8, <2>3
    <2>7. Busy(m)'
      BY <1>6, <1>7, <1>9 DEF Busy
    <2> QED  BY <1>1, <1>5, <2>1, <2>2, <2>4, <2>5, <2>6, <2>7 DEF Agree, OneChange, InTransit
  <1>10. CASE m \notin req[h].job.uids
    <2>1. \A i \in pending' : m \in payload'[i].uids => i \in pending /\ payload'[i] = payload[i]
      BY <1>1, <1>5, <1>10
    <2>2. \A g \in Handlers : req'[g].pc \in {"loaded", "written"} => req'[g] = req[g]
      BY <1>4
    <2>3. run.pc = "settle" => payload'[run.cur] = payload[run.cur]
      BY <1>5, <1>8
    <2>4. \A g \in Promised' : g \in Promised /\ req'[g] = req[g]
      BY <1>4, <1>6
    <2>5. OneChange(m)'
      BY <2>1, <2>4 DEF Agree, OneChange
    <2>6. InTransit(m)'
      BY <1>1, <2>1, <2>3, <2>4 DEF Agree, InTransit
    <2> QED  BY <1>1, <1>7, <2>5, <2>6 DEF Agree
  <1> QED  BY <1>9, <1>10

LEMMA AgreeHandlerEnds ==
    ASSUME TypeOK, NEW m \in Msgs, Agree(m), NEW h \in Handlers,
           (PersistFails(h) /\ m \notin lost') \/ Submit(h)
    PROVE  Agree(m)'
  <1>1. /\ UNCHANGED <<server, local, payload, pending, run>>
        /\ req' = [req EXCEPT ![h] = HandlerIdle]
    BY DEF PersistFails, Submit, durable
  <1>2. req \in [Handlers -> Requests]
    BY DEF TypeOK
  <1>3. /\ req'[h].pc = "idle"
        /\ \A g \in Handlers \ {h} : req'[g] = req[g]
    BY <1>1, <1>2 DEF HandlerIdle
  <1>4. Promised' = Promised \ {h}
    BY <1>1, <1>3 DEF Promised
  <1>5. m \notin req[h].job.uids \/ h \notin Promised
    BY DEF PersistFails, Submit, Promised
  <1>6. Busy(m)' <=> Busy(m)
    BY <1>1, <1>3, <1>4, <1>5 DEF Busy, Promised
  <1>7. \A g \in Promised' : g \in Promised /\ req'[g] = req[g]
    BY <1>3, <1>4 DEF Promised
  <1>8. OneChange(m)'
    BY <1>1, <1>7 DEF Agree, OneChange
  <1>9. InTransit(m)'
    BY <1>1, <1>7 DEF Agree, InTransit
  <1> QED  BY <1>1, <1>6, <1>8, <1>9 DEF Agree

LEMMA AgreeCallSucceeds ==
    ASSUME TypeOK, RunnerOK, NEW m \in Msgs, Agree(m), CallSucceeds
    PROVE  Agree(m)'
  <1>1. PICK i \in OpIds : /\ i \in run.todo
                           /\ server' = AppliedTo(payload[i].uids, payload[i].verb)
                           /\ run' = [run EXCEPT !.pc = "settle", !.cur = i, !.ok = TRUE]
    BY DEF CallSucceeds, Oldest
  <1>2. UNCHANGED <<local, req, payload, pending>>
    BY DEF CallSucceeds
  <1>3. i \in pending /\ run'.pc = "settle" /\ run'.cur = i
    BY <1>1 DEF RunnerOK, TypeOK, RunnerStates
  <1>4. Promised' = Promised /\ (Busy(m)' <=> Busy(m))
    BY <1>2 DEF Promised, Busy
  <1>5. CASE m \in payload[i].uids
    <2>1. server'[m] = Effect(payload[i].verb, server[m])
      BY <1>1, <1>5 DEF AppliedTo
    <2>2. server'[m] = local[m]
      BY <1>3, <1>5, <2>1 DEF Agree, OneChange, InTransit
    <2>3. payload[i].verb \in Verbs /\ server[m] \in Values
      BY DEF TypeOK, Payloads, NoPayload, Verbs
    <2>4. local[m] = Effect(payload[i].verb, server'[m])
      BY <2>1, <2>2, <2>3, EffectIdempotent
    <2>5. \A j \in pending : m \in payload[j].uids => j = i
      BY <1>3, <1>5 DEF Agree, OneChange, InTransit
    <2>6. \A h \in Handlers : req[h].pc \in {"loaded", "written"} => m \notin req[h].job.uids
      BY <1>3, <1>5 DEF Agree, OneChange, InTransit, Promised
    <2> QED  BY <1>2, <1>4, <2>2, <2>4, <2>5, <2>6 DEF Agree, OneChange, InTransit, Promised
  <1>6. CASE m \notin payload[i].uids
    <2>1. server'[m] = server[m]
      BY <1>1, <1>6 DEF AppliedTo
    <2> QED  BY <1>2, <1>3, <1>4, <1>6, <2>1 DEF Agree, OneChange, InTransit
  <1> QED  BY <1>5, <1>6

LEMMA AgreeCallFails ==
    ASSUME TypeOK, RunnerOK, NEW m \in Msgs, Agree(m), CallFails
    PROVE  Agree(m)'
  <1>0. PICK i \in OpIds : /\ i \in run.todo
                           /\ \E S \in SUBSET payload[i].uids :
                                 server' = AppliedTo(S, payload[i].verb)
                           /\ run' = [run EXCEPT !.pc = "settle", !.cur = i, !.ok = FALSE]
    BY DEF CallFails, Oldest
  <1>1. PICK S \in SUBSET payload[i].uids : server' = AppliedTo(S, payload[i].verb)
    BY <1>0
  <1>2. UNCHANGED <<local, req, payload, pending>>
    BY DEF CallFails
  <1>3. i \in pending /\ run'.pc = "settle" /\ ~run'.ok
    BY <1>0 DEF RunnerOK, TypeOK, RunnerStates
  <1>4. Promised' = Promised /\ (Busy(m)' <=> Busy(m))
    BY <1>2 DEF Promised, Busy
  <1>5. CASE m \in S
    <2>1. server'[m] = Effect(payload[i].verb, server[m])
      BY <1>1, <1>5 DEF AppliedTo
    <2>2. server'[m] = local[m]
      BY <1>1, <1>3, <1>5, <2>1 DEF Agree, OneChange, InTransit
    <2>3. payload[i].verb \in Verbs /\ server[m] \in Values
      BY DEF TypeOK, Payloads, NoPayload, Verbs
    <2>4. local[m] = Effect(payload[i].verb, server'[m])
      BY <2>1, <2>2, <2>3, EffectIdempotent
    <2>5. \A j \in pending : m \in payload[j].uids => j = i
      BY <1>1, <1>3, <1>5 DEF Agree, OneChange, InTransit
    <2>6. \A h \in Handlers : req[h].pc \in {"loaded", "written"} => m \notin req[h].job.uids
      BY <1>1, <1>3, <1>5 DEF Agree, OneChange, InTransit, Promised
    <2> QED  BY <1>2, <1>3, <1>4, <2>2, <2>4, <2>5, <2>6 DEF Agree, OneChange, InTransit, Promised
  <1>6. CASE m \notin S
    <2>1. server'[m] = server[m]
      BY <1>1, <1>6 DEF AppliedTo
    <2> QED  BY <1>2, <1>3, <1>4, <2>1 DEF Agree, OneChange, InTransit
  <1> QED  BY <1>5, <1>6

LEMMA AgreeSettles ==
    ASSUME TypeOK, RunnerOK, NEW m \in Msgs, Agree(m),
           SettleSuccess \/ SettleFailure \/ SettleFails \/ (GiveUp /\ m \notin lost')
    PROVE  Agree(m)'
  <1>1. UNCHANGED <<server, local, req, payload>>
    BY DEF SettleSuccess, SettleFailure, SettleFails, GiveUp, durable
  <1>2. /\ pending' \subseteq pending /\ pending \ {run.cur} \subseteq pending'
        /\ pending' # pending /\ m \in payload[run.cur].uids => server[m] = local[m]
    BY DEF SettleSuccess, SettleFailure, SettleFails, GiveUp, durable, Agree, InTransit
  <1>3. run'.pc # "settle"
    BY WorkingShape DEF SettleSuccess, SettleFailure, SettleFails, GiveUp, NextOp,
                        TypeOK, RunnerStates
  <1>4. Promised' = Promised
    BY <1>1 DEF Promised
  <1>5. OneChange(m)'
    BY <1>1, <1>2, <1>4 DEF Agree, OneChange
  <1>6. InTransit(m)'
    BY <1>1, <1>2, <1>3, <1>4 DEF Agree, InTransit
  <1>7. ASSUME ~Busy(m)' PROVE server[m] = local[m]
    <2>1. CASE Busy(m)
      <3>1. PICK i \in pending : m \in payload[i].uids /\ i \notin pending'
        BY <1>1, <1>4, <1>7, <2>1 DEF Busy
      <3>2. i = run.cur
        BY <1>2, <3>1
      <3> QED  BY <1>2, <3>1, <3>2
    <2> QED  BY <2>1 DEF Agree
  <1> QED  BY <1>1, <1>5, <1>6, <1>7 DEF Agree

LEMMA AgreeCrash ==
    ASSUME TypeOK, NEW m \in Msgs, Agree(m), Crash, m \notin lost'
    PROVE  Agree(m)'
  <1>1. UNCHANGED <<server, local, payload, pending>> /\ run' = RunnerIdle
    BY DEF Crash, durable
  <1>2. Promised' = {}
    BY DEF Crash, Promised, HandlerIdle
  <1>3. \A h \in Handlers : req[h].pc = "written" => m \notin req[h].job.uids
    BY DEF Crash
  <1>4. OneChange(m)'
    BY <1>1, <1>2 DEF Agree, OneChange
  <1>5. InTransit(m)'
    BY <1>1, <1>2 DEF Agree, InTransit, RunnerIdle
  <1>6. ASSUME ~Busy(m)' PROVE server[m] = local[m]
    <2>1. CASE Busy(m)
      <3>1. PICK h \in Promised : m \in req[h].job.uids
        BY <1>1, <1>6, <2>1 DEF Busy
      <3>2. req[h].pc = "loaded"
        BY <1>3, <3>1 DEF Promised
      <3> QED  BY <3>1, <3>2 DEF Agree, InTransit
    <2> QED  BY <2>1 DEF Agree
  <1> QED  BY <1>1, <1>4, <1>5, <1>6 DEF Agree

LEMMA AgreeInit == Init => AgreeInv
  <1> SUFFICES ASSUME Init, NEW m \in Msgs PROVE Agree(m)
    BY DEF AgreeInv
  <1>1. Promised = {} /\ pending = {} /\ run.pc = "idle" /\ server = local
    BY DEF Init, Promised, HandlerIdle, RunnerIdle
  <1> QED  BY <1>1 DEF Agree, OneChange, InTransit

LEMMA AgreeStep ==
    ASSUME TypeOK, RunnerOK, AgreeInv, [Next]_vars PROVE AgreeInv'
  <1> SUFFICES ASSUME NEW m \in Msgs, m \notin overlapped' \cup lost' PROVE Agree(m)'
    BY DEF AgreeInv
  <1>0. overlapped \subseteq overlapped' /\ lost \subseteq lost'
    BY DEF Next, HandlerStep, Load, WriteLocal, Persist, PersistFails, Submit, Reconcile,
           TakeTask, RefuseTask, Poll, CallSucceeds, CallFails, SettleSuccess, SettleFailure,
           GiveUp, SettleFails, BackoffElapses, Crash, vars, history
  <1>1. Agree(m)
    BY <1>0 DEF AgreeInv
  <1>2. CASE HandlerStep
    <2>0. PICK h \in Handlers : \/ \E job \in Payloads : Load(h, job)
                                \/ WriteLocal(h) \/ Persist(h) \/ PersistFails(h) \/ Submit(h)
      BY <1>2 DEF HandlerStep
    <2>1. ASSUME NEW job \in Payloads, Load(h, job) PROVE Agree(m)'
      BY <1>1, <2>1, AgreeLoad
    <2> QED  BY <1>1, <2>0, <2>1, AgreeWriteLocal, AgreePersist, AgreeHandlerEnds
  <1>3. CASE Reconcile \/ RefuseTask \/ UNCHANGED vars
    BY <1>1, <1>3, AgreeStable DEF Reconcile, RefuseTask, vars, durable
  <1>4. CASE TakeTask \/ Poll
    <2>1. run'.pc # "settle"
      BY <1>4, WorkingShape DEF TakeTask, Poll
    <2> QED  BY <1>1, <1>4, <2>1, AgreeStable DEF TakeTask, Poll, durable
  <1>5. ASSUME NEW i \in OpIds, BackoffElapses(i) PROVE Agree(m)'
    BY <1>1, <1>5, AgreeStable DEF BackoffElapses, durable
  <1>6. CASE CallSucceeds
    BY <1>1, <1>6, AgreeCallSucceeds
  <1>7. CASE CallFails
    BY <1>1, <1>7, AgreeCallFails
  <1>8. CASE SettleSuccess \/ SettleFailure \/ GiveUp \/ SettleFails
    BY <1>1, <1>8, AgreeSettles
  <1>9. CASE Crash
    BY <1>1, <1>9, AgreeCrash
  <1> QED  BY <1>2, <1>3, <1>4, <1>5, <1>6, <1>7, <1>8, <1>9 DEF Next

\* A message no two changes of which ever overlapped and no change of which was
\* lost is the same on both sides whenever nothing is on its way, however often
\* commands were repeated, half done, or cut off by the death of the process.
THEOREM SidesAgree == Spec => []QuietAgreement
  <1>1. AgreeInv => QuietAgreement
    BY DEF AgreeInv, Agree, QuietAgreement
  <1>2. Init => AgreeInv
    BY AgreeInit
  <1>3. (TypeOK /\ RunnerOK) /\ AgreeInv /\ [Next]_vars => AgreeInv'
    BY AgreeStep
  <1> QED  BY <1>1, <1>2, <1>3, Typing, PTL DEF Spec

----------------------------------------------------------------------------
(* Writeback implements DurableQueue (its safety part; that no operation     *)
(* waits for ever is checked by TLC)                                         *)

StageOf == [i \in OpIds |-> Stage(i)]

\* Nothing the abstract queue sees has changed.
LEMMA StageStable ==
    ASSUME UNCHANGED <<nextId, pending, abandoned>> PROVE UNCHANGED StageOf
  BY DEF StageOf, Stage

\* One row leaves the table: only its stage changes.
LEMMA StageLeaves ==
    ASSUME TypeOK, RunnerOK, nextId' = nextId, run.pc \in {"settle", "giveup"},
           pending' = pending \ {run.cur},
           NEW gone \in {"done", "abandoned"},
           gone = "done" => abandoned' = abandoned /\ run.cur \notin abandoned,
           gone = "abandoned" => abandoned' = abandoned \cup {run.cur}
    PROVE  /\ run.cur \in OpIds
           /\ StageOf[run.cur] = "pending"
           /\ StageOf' = [StageOf EXCEPT ![run.cur] = gone]
  <1>1. PICK c \in OpIds : c = run.cur
    BY CurrentId
  <1>2. c \in pending /\ c < nextId /\ c \in Nat /\ nextId \in Nat
    BY <1>1, OlderRows DEF RunnerOK, OpIds
  <1>3. \A i \in OpIds : i # c => Stage(i)' = Stage(i)
    BY <1>1 DEF Stage
  <1>4. Stage(c) = "pending" /\ Stage(c)' = gone
    BY <1>1, <1>2 DEF Stage
  <1>5. StageOf' = [StageOf EXCEPT ![c] = gone]
    BY <1>3, <1>4 DEF StageOf
  <1> QED  BY <1>1, <1>4, <1>5 DEF StageOf

\* A row given up has left the table for good.
GivenUpOK == abandoned \cap pending = {} /\ \A i \in abandoned : i < nextId

LEMMA GivenUpStep ==
    ASSUME TypeOK, RunnerOK, GivenUpOK, [Next]_vars PROVE GivenUpOK'
  <1> USE DEF GivenUpOK
  <1>0. nextId \in Nat /\ abandoned \subseteq OpIds /\ OpIds \subseteq Nat
        /\ (run.pc \in {"settle", "giveup"} => run.cur \in pending /\ run.cur < nextId)
    <2>1. nextId \in Nat /\ \A i \in pending : i < nextId
      BY OlderRows
    <2>2. abandoned \subseteq OpIds
      BY DEF TypeOK
    <2>3. OpIds \subseteq Nat
      BY MaxOpsAssumption DEF OpIds
    <2>4. run.pc \in {"settle", "giveup"} => run.cur \in pending
      BY DEF RunnerOK
    <2> QED  BY <2>1, <2>2, <2>3, <2>4
  <1>1. ASSUME UNCHANGED <<nextId, pending, abandoned>> PROVE GivenUpOK'
    BY <1>1
  <1>2. ASSUME NEW h \in Handlers, Persist(h) PROVE GivenUpOK'
    <2>1. nextId \notin abandoned /\ nextId' = nextId + 1 /\ abandoned' = abandoned
      BY <1>0, <1>2 DEF Persist, history
    <2> QED  BY <1>0, <1>2, <2>1 DEF Persist
  <1>3. ASSUME NEW h \in Handlers, NEW job \in Payloads,
               Load(h, job) \/ WriteLocal(h) \/ PersistFails(h) \/ Submit(h) PROVE GivenUpOK'
    BY <1>1, <1>3 DEF Load, WriteLocal, PersistFails, Submit, durable, history
  <1>4. CASE HandlerStep
    <2>0. PICK h \in Handlers : \/ \E job \in Payloads : Load(h, job)
                                \/ WriteLocal(h) \/ Persist(h) \/ PersistFails(h) \/ Submit(h)
      BY <1>4 DEF HandlerStep
    <2>1. ASSUME WriteLocal(h) \/ PersistFails(h) \/ Submit(h) PROVE GivenUpOK'
      BY <1>1, <2>1 DEF WriteLocal, PersistFails, Submit, durable, history
    <2> QED  BY <1>2, <1>3, <2>0, <2>1
  <1>5. CASE Reconcile \/ RefuseTask \/ TakeTask \/ Poll \/ CallSucceeds \/ CallFails
             \/ SettleFailure \/ SettleFails \/ Crash \/ UNCHANGED vars
    BY <1>1, <1>5 DEF Reconcile, RefuseTask, TakeTask, Poll, CallSucceeds, CallFails,
                      SettleFailure, SettleFails, Crash, vars, durable, history
  <1>6. ASSUME NEW i \in OpIds, BackoffElapses(i) PROVE GivenUpOK'
    BY <1>1, <1>6 DEF BackoffElapses, durable, history
  <1>7. CASE SettleSuccess
    BY <1>7 DEF SettleSuccess, history
  <1>8. CASE GiveUp
    BY <1>0, <1>8 DEF GiveUp
  <1> QED  BY <1>4, <1>5, <1>6, <1>7, <1>8 DEF Next

LEMMA GivenUp == Spec => []GivenUpOK
  <1>1. Init => GivenUpOK
    BY DEF Init, GivenUpOK
  <1>2. (TypeOK /\ RunnerOK) /\ GivenUpOK /\ [Next]_vars => GivenUpOK'
    BY GivenUpStep
  <1> QED  BY <1>1, <1>2, Typing, PTL DEF Spec

LEMMA PromiseInit == Init => Promise!Init
  <1> SUFFICES ASSUME Init PROVE Promise!Init
    OBVIOUS
  <1>1. \A i \in OpIds : Stage(i) = "absent"
    BY MaxOpsAssumption DEF Init, Stage, OpIds
  <1>2. confirmed = {} /\ misses = [i \in OpIds |-> 0]
    BY DEF Init
  <1> QED  BY <1>1, <1>2 DEF Promise!Init

\* Every step of the queue is a step of DurableQueue or one it does not see.
LEMMA PromiseStep ==
    ASSUME TypeOK, RunnerOK, LedgerOK, GivenUpOK, [Next]_vars
    PROVE  [Promise!Next]_(Promise!vars)
  <1> USE DEF Promise!Next, Promise!vars, Promise!Attempt, Promise!Leave
  <1>0. run \in RunnerStates /\ misses \in [OpIds -> Nat] /\ nextId \in Nat /\ pending \subseteq OpIds
    BY PendingIds, MaxOpsAssumption DEF TypeOK
  <1>1. ASSUME UNCHANGED <<nextId, pending, abandoned, confirmed, misses>>
        PROVE  UNCHANGED Promise!vars
    <2>1. UNCHANGED StageOf
      BY <1>1, StageStable
    <2> QED  BY <1>1, <2>1 DEF StageOf
  <1>2. ASSUME NEW h \in Handlers, Persist(h) PROVE Promise!Next
    <2>1. nextId \in OpIds /\ nextId' = nextId + 1 /\ pending' = pending \cup {nextId}
          /\ UNCHANGED <<abandoned, confirmed, misses>>
      BY <1>2 DEF Persist, history
    <2>2. PICK k \in OpIds : k = nextId
      BY <2>1
    <2>3. Stage(k) = "absent" /\ Stage(k)' = "pending"
      BY <1>0, <2>1, <2>2, OlderRows DEF Stage
    <2>4. \A i \in OpIds : i # k => Stage(i)' = Stage(i)
      BY <1>0, <2>1, <2>2 DEF Stage, OpIds
    <2>5. StageOf' = [StageOf EXCEPT ![k] = "pending"]
      BY <2>3, <2>4 DEF StageOf
    <2>6. Promise!Accept(k)
      BY <2>1, <2>3, <2>5 DEF Promise!Accept, StageOf
    <2> QED  BY <2>6
  <1>3. CASE HandlerStep
    <2>0. PICK h \in Handlers : \/ \E job \in Payloads : Load(h, job)
                                \/ WriteLocal(h) \/ Persist(h) \/ PersistFails(h) \/ Submit(h)
      BY <1>3 DEF HandlerStep
    <2>1. ASSUME NEW job \in Payloads, Load(h, job) PROVE UNCHANGED Promise!vars
      BY <1>1, <2>1 DEF Load, durable
    <2>2. ASSUME WriteLocal(h) \/ PersistFails(h) \/ Submit(h) PROVE UNCHANGED Promise!vars
      BY <1>1, <2>2 DEF WriteLocal, PersistFails, Submit, durable, history
    <2> QED  BY <1>2, <2>0, <2>1, <2>2
  <1>4. CASE Reconcile \/ RefuseTask \/ TakeTask \/ Poll \/ SettleFailure \/ SettleFails
             \/ Crash \/ UNCHANGED vars
    <2>1. UNCHANGED Promise!vars
      BY <1>1, <1>4 DEF Reconcile, RefuseTask, TakeTask, Poll, SettleFailure, SettleFails,
                        Crash, vars, durable, history
    <2> QED  BY <2>1
  <1>5. ASSUME NEW i \in OpIds, BackoffElapses(i) PROVE UNCHANGED Promise!vars
    BY <1>1, <1>5 DEF BackoffElapses, durable, history
  <1>6. CASE CallSucceeds
    <2>1. PICK i \in OpIds : i \in run.todo /\ confirmed' = confirmed \cup {i}
      BY <1>6 DEF CallSucceeds, Oldest
    <2>2. UNCHANGED <<StageOf, misses>> /\ i \in pending
      BY <1>6, <2>1, StageStable DEF CallSucceeds, RunnerOK
    <2>3. Promise!Deliver(i)
      BY <2>1, <2>2 DEF Promise!Deliver, StageOf, Stage
    <2> QED  BY <2>1, <2>3
  <1>7. CASE CallFails
    <2>1. PICK i \in OpIds : i \in run.todo /\ misses' = [misses EXCEPT ![i] = @ + 1]
      BY <1>7 DEF CallFails, Oldest
    <2>2. UNCHANGED <<StageOf, confirmed>> /\ i \in pending
      BY <1>7, <2>1, StageStable DEF CallFails, RunnerOK
    <2>3. Promise!Miss(i)
      BY <2>1, <2>2 DEF Promise!Miss, StageOf, Stage
    <2> QED  BY <2>1, <2>3
  <1>8. CASE SettleSuccess
    <2>1. run.cur \in confirmed /\ run.cur \notin abandoned
      BY <1>8 DEF SettleSuccess, LedgerOK, GivenUpOK, RunnerOK
    <2>2. UNCHANGED <<nextId, abandoned, confirmed, misses>> /\ pending' = pending \ {run.cur}
      BY <1>8 DEF SettleSuccess, history
    <2>3. /\ run.cur \in OpIds /\ StageOf[run.cur] = "pending"
          /\ StageOf' = [StageOf EXCEPT ![run.cur] = "done"]
      BY <1>8, <2>1, <2>2, StageLeaves DEF SettleSuccess
    <2>4. Promise!Finish(run.cur)
      BY <2>1, <2>2, <2>3 DEF Promise!Finish, StageOf
    <2> QED  BY <2>3, <2>4
  <1>9. CASE GiveUp
    <2>1. UNCHANGED <<nextId, confirmed, misses>> /\ pending' = pending \ {run.cur}
          /\ abandoned' = abandoned \cup {run.cur}
      BY <1>9 DEF GiveUp
    <2>2. /\ run.cur \in OpIds /\ StageOf[run.cur] = "pending"
          /\ StageOf' = [StageOf EXCEPT ![run.cur] = "abandoned"]
      BY <1>9, <2>1, StageLeaves DEF GiveUp
    <2>3. misses[run.cur] >= MaxWritebackAttempts
      <3>1. attempts[run.cur] >= MaxWritebackAttempts /\ attempts[run.cur] <= misses[run.cur]
        BY <1>9, <2>2 DEF GiveUp, LedgerOK
      <3> QED  BY <2>2, <3>1, AttemptsAssumption DEF TypeOK
    <2>4. Promise!Abandon(run.cur)
      BY <2>1, <2>2, <2>3 DEF Promise!Abandon, StageOf
    <2> QED  BY <2>2, <2>4
  <1> QED  BY <1>3, <1>4, <1>5, <1>6, <1>7, <1>8, <1>9 DEF Next

\* The detailed queue, with its handlers, runner, clock, faults and crashes,
\* implements the abstract at-least-once queue.
THEOREM Refinement == Spec => Promise!SafeSpec
  <1>1. Init => Promise!Init
    BY PromiseInit
  <1>2. (TypeOK /\ RunnerOK) /\ LedgerOK /\ GivenUpOK /\ [Next]_vars
          => [Promise!Next]_(Promise!vars)
    BY PromiseStep
  <1> QED  BY <1>1, <1>2, Typing, Ledger, GivenUp, PTL DEF Spec, Promise!SafeSpec
=============================================================================
