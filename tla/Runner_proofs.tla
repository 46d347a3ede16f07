---------------------------- MODULE Runner_proofs ----------------------------
(***************************************************************************)
(* Safety of the runner for every number of requests, folders and faults,  *)
(* every capacity of the queue and every threshold of the breaker.         *)
(*                                                                         *)
(* The types need PollOK, the loop over the folders.  OneConnection and    *)
(* BackoffOnlyUnconnected are inductive with the types.  TakenIsExecuted   *)
(* needs CurOK: a task is being executed exactly where the program counter *)
(* says so.  GatesRespected needs ConnectOK: between the gates of doPoll   *)
(* and the dial nothing closes them again.                                 *)
(***************************************************************************)
EXTENDS Runner, TLAPS

\* The loop over the folders: where the poll is and what it has left.
PollOK ==
    /\ pc = "list" => poll.left = Folders /\ poll.failed = 0
    /\ pc = "folder" => poll.left > 0
    /\ poll.left + poll.failed <= Folders

\* There is a current task exactly in exec.
CurOK == cur # Nobody <=> pc \in {"exec", "run"}

\* The gates that were open at the poll timer are open at the dial.
ConnectOK == pc = "connect" => ~brk /\ ~throttled

\* The two halves of TypeOK: flags, and everything else.
BoolOK ==
    /\ idle \in BOOLEAN /\ woken \in BOOLEAN /\ held \in BOOLEAN
    /\ brk \in BOOLEAN /\ backoff \in BOOLEAN /\ throttled \in BOOLEAN

SessOK == sess \in Conns \cup {NoConn}

CurTypes ==
    /\ cur \in Callers \cup {Nobody, Background}
    /\ call \in [Callers -> {"new", "waiting", "running", "answered", "failed", "gone"}]

DataOK ==
    /\ SessOK
    /\ open \subseteq Conns
    /\ dead \subseteq Conns
    /\ lastUsed \in {"zero", "recent", "stale"}
    /\ failures \in 0..BreakerThreshold
    /\ pc \in Pcs
    /\ CurTypes
    /\ poll \in Polls
    /\ bg \in 0..BgCap
    /\ faults \in 0..MaxFaults

LEMMA TypeSplit == TypeOK <=> BoolOK /\ DataOK
  BY Zenon DEF TypeOK, BoolOK, DataOK, SessOK, CurTypes

IInv ==
    /\ BoolOK /\ DataOK /\ PollOK /\ CurOK /\ ConnectOK
    /\ OneConnection /\ BackoffOnlyUnconnected /\ TakenIsExecuted

LEMMA InitOK == Init => IInv
  <1> SUFFICES ASSUME Init PROVE IInv
    OBVIOUS
  <1>1. BoolOK
    BY DEF Init, BoolOK
  <1>2. DataOK
    BY FoldersAssumption, ThresholdAssumption, BgCapAssumption, FaultsAssumption
       DEF Init, DataOK, SessOK, CurTypes, Pcs, Polls, NoPoll
  <1>3. PollOK /\ CurOK /\ ConnectOK
    BY FoldersAssumption DEF Init, PollOK, CurOK, ConnectOK, NoPoll
  <1>4. OneConnection /\ BackoffOnlyUnconnected /\ TakenIsExecuted
    BY DEF Init, OneConnection, BackoffOnlyUnconnected, TakenIsExecuted
  <1> QED  BY <1>1, <1>2, <1>3, <1>4 DEF IInv

----------------------------------------------------------------------------
(* Types *)

LEMMA ProceedTypes ==
    ASSUME poll \in Polls, NEW n \in Conns, Proceed(n)
    PROVE  poll' \in Polls /\ pc' \in Pcs
  <1>1. StartPoll(n) \in Polls
    BY FoldersAssumption DEF StartPoll, Polls
  <1> QED  BY <1>1 DEF Proceed, Pcs

LEMMA PollFailsTypes ==
    ASSUME DataOK, PollFails, faults' \in 0..MaxFaults
    PROVE  DataOK'
  <1> USE DEF DataOK, SessOK, CurTypes
  <1>1. NoPoll \in Polls
    BY FoldersAssumption DEF NoPoll, Polls
  <1>2. /\ poll' \in Polls /\ pc' \in Pcs /\ cur' = cur /\ call' = call /\ bg' = bg
        /\ dead' = dead /\ sess' = NoConn /\ open' \subseteq open
        /\ lastUsed' \in {lastUsed, "zero"}
    BY <1>1 DEF PollFails, CloseSession, Pcs, conn
  <1>3. failures' \in 0..BreakerThreshold
    BY ThresholdAssumption DEF PollFails, RecordFailure
  <1> QED  BY <1>2, <1>3

LEMMA StepBools == BoolOK /\ [Next]_vars => BoolOK'
  <1> SUFFICES ASSUME BoolOK, [Next]_vars PROVE BoolOK'
    OBVIOUS
  <1> USE DEF BoolOK, conn, gates, work
  <1>1. CASE \/ \E c \in Callers : Call(c) \/ CallerLeaves(c) \/ PreferForeground(c) \/ YieldTo(c)
             \/ SubmitBackground \/ CloseUnused \/ Refuse \/ Reuse \/ ProbeFails
             \/ PollBacksOff \/ TaskFails \/ PollDeferred \/ ListSucceeds \/ SyncFolder
             \/ SyncFolderFails \/ NextFolder \/ ConnectionDies \/ TimePasses
             \/ UNCHANGED vars
    <2>1. UNCHANGED <<idle, woken, held, brk, backoff, throttled>>
      BY <1>1 DEF vars, Call, CallerLeaves, PreferForeground, YieldTo, SubmitBackground,
                  CloseUnused, Refuse, Reuse, ProbeFails, PollBacksOff, TaskFails,
                  PollDeferred, ListSucceeds, SyncFolder, SyncFolderFails, NextFolder,
                  ConnectionDies, TimePasses
    <2> QED  BY <2>1, Zenon
  <1>2. ASSUME NEW c \in Callers, TakeForeground(c) PROVE BoolOK'
    BY <1>2, Zenon DEF TakeForeground, Take, StopIdle, CloseSession
  <1>3. ASSUME TakeBackground PROVE BoolOK'
    BY <1>3, Zenon DEF TakeBackground, StopIdle, CloseSession
  <1>4. ASSUME WakeUp PROVE BoolOK'
    BY <1>4, Zenon DEF WakeUp, CloseSession, RecordFailure, RecordSuccess, Fault
  <1>5. ASSUME PollTick PROVE BoolOK'
    BY <1>5, Zenon DEF PollTick, StopIdle, CloseSession
  <1>6. ASSUME EnterIdle PROVE BoolOK'
    BY <1>6, Zenon DEF EnterIdle
  <1>7. ASSUME RefreshIdle PROVE BoolOK'
    BY <1>7, Zenon DEF RefreshIdle
  <1>8. ASSUME IdleDropped PROVE BoolOK'
    BY <1>8, Zenon DEF IdleDropped, CloseSession, RecordFailure
  <1>9. ASSUME RunHeld PROVE BoolOK'
    BY <1>9, Zenon DEF RunHeld
  <1>10. ASSUME DialSucceeds PROVE BoolOK'
    BY <1>10, Zenon DEF DialSucceeds, Proceed, StartPoll, MayDial
  <1>11. ASSUME DialFails PROVE BoolOK'
    BY <1>11, Zenon DEF DialFails, Fault, RecordFailure, Reply, After, MayDial
  <1>12. ASSUME TaskSucceeds PROVE BoolOK'
    BY <1>12, Zenon DEF TaskSucceeds, RecordSuccess, Reply, After
  <1>13. ASSUME ListFails PROVE BoolOK'
    BY <1>13, Zenon DEF ListFails, Fault, PollFails, CloseSession, RecordFailure, NoPoll
  <1>14. ASSUME PollSucceeds PROVE BoolOK'
    BY <1>14, Zenon DEF PollSucceeds, RecordSuccess, NoPoll
  <1>15. ASSUME AllFoldersFailed PROVE BoolOK'
    BY <1>15, Zenon DEF AllFoldersFailed, PollFails, CloseSession, RecordFailure, NoPoll
  <1>16. ASSUME MailArrives PROVE BoolOK'
    BY <1>16, Zenon DEF MailArrives
  <1>17. ASSUME BackoffEnds PROVE BoolOK'
    BY <1>17, Zenon DEF BackoffEnds
  <1>18. ASSUME CooldownEnds PROVE BoolOK'
    BY <1>18, Zenon DEF CooldownEnds
  <1>19. ASSUME ThrottleEnds PROVE BoolOK'
    BY <1>19, Zenon DEF ThrottleEnds
  <1> QED  BY Zenon, <1>1, <1>2, <1>3, <1>4, <1>5, <1>6, <1>7, <1>8, <1>9, <1>10, <1>11,
              <1>12, <1>13, <1>14, <1>15, <1>16, <1>17, <1>18, <1>19 DEF Next, Execute,
              PollStep

LEMMA StepData == DataOK /\ PollOK /\ [Next]_vars => DataOK'
  <1> SUFFICES ASSUME DataOK, PollOK, [Next]_vars PROVE DataOK'
    OBVIOUS
  <1> USE FoldersAssumption, ThresholdAssumption, FaultsAssumption, BgCapAssumption
      DEF DataOK, SessOK, CurTypes, PollOK, Pcs, Polls, Conns, NoConn, conn, gates, work
  <1>1. ASSUME NEW c \in Callers, Call(c) PROVE DataOK'
    BY <1>1 DEF Call
  <1>2. ASSUME NEW c \in Callers, CallerLeaves(c) PROVE DataOK'
    BY <1>2 DEF CallerLeaves
  <1>3. ASSUME NEW c \in Callers, TakeForeground(c) PROVE DataOK'
    BY <1>3 DEF TakeForeground, Take, StopIdle, CloseSession
  <1>4. ASSUME NEW c \in Callers, PreferForeground(c) PROVE DataOK'
    BY <1>4 DEF PreferForeground, Take
  <1>5. ASSUME NEW c \in Callers, YieldTo(c) PROVE DataOK'
    BY <1>5 DEF YieldTo, Take
  <1>6. ASSUME SubmitBackground PROVE DataOK'
    BY <1>6 DEF SubmitBackground
  <1>7. ASSUME TakeBackground PROVE DataOK'
    <2>1. /\ bg' = bg - 1 /\ bg > 0 /\ pc' = "prefer"
          /\ failures' = failures /\ cur' = cur /\ poll' = poll /\ call' = call
          /\ faults' = faults /\ dead' = dead
      BY <1>7 DEF TakeBackground
    <2>2. sess' \in {sess, NoConn} /\ open' \subseteq open /\ lastUsed' = lastUsed
      BY <1>7 DEF TakeBackground, StopIdle, CloseSession
    <2> QED  BY <2>1, <2>2
  <1>8. ASSUME WakeUp PROVE DataOK'
    <2>1. /\ pc' = pc /\ cur' = cur /\ poll' = poll /\ call' = call /\ bg' = bg /\ dead' = dead
          /\ sess' \in {sess, NoConn} /\ open' \subseteq open /\ lastUsed' = lastUsed
      BY <1>8 DEF WakeUp, CloseSession
    <2>2. faults' \in 0..MaxFaults
      BY <1>8 DEF WakeUp, Fault
    <2>3. failures' \in 0..BreakerThreshold
      BY <1>8 DEF WakeUp, RecordFailure, RecordSuccess
    <2> QED  BY <2>1, <2>2, <2>3
  <1>9. ASSUME PollTick PROVE DataOK'
    BY <1>9 DEF PollTick, StopIdle, CloseSession
  <1>10. ASSUME EnterIdle PROVE DataOK'
    BY <1>10 DEF EnterIdle
  <1>11. ASSUME RefreshIdle PROVE DataOK'
    BY <1>11 DEF RefreshIdle
  <1>12. ASSUME IdleDropped PROVE DataOK'
    BY <1>12 DEF IdleDropped, CloseSession, RecordFailure
  <1>13. ASSUME CloseUnused PROVE DataOK'
    BY <1>13 DEF CloseUnused, CloseSession
  <1>14. ASSUME RunHeld PROVE DataOK'
    BY <1>14 DEF RunHeld
  <1>15. ASSUME Refuse PROVE DataOK'
    BY <1>15 DEF Refuse, After
  <1>16. ASSUME Reuse PROVE DataOK'
    <2>1. /\ failures' = failures /\ cur' = cur /\ call' = call /\ bg' = bg /\ faults' = faults
          /\ dead' = dead /\ sess' = sess /\ open' = open /\ lastUsed' \in {lastUsed, "recent"}
      BY <1>16 DEF Reuse
    <2>2. sess \in Conns /\ Proceed(sess)
      BY <1>16 DEF Reuse
    <2>3. poll' \in Polls /\ pc' \in Pcs
      BY <2>2, ProceedTypes
    <2> QED  BY <2>1, <2>3
  <1>17. ASSUME ProbeFails PROVE DataOK'
    BY <1>17 DEF ProbeFails, CloseSession
  <1>18. ASSUME DialSucceeds PROVE DataOK'
    <2>1. /\ failures' = failures /\ cur' = cur /\ call' = call /\ bg' = bg /\ faults' = faults
          /\ lastUsed' = "recent"
      BY <1>18 DEF DialSucceeds
    <2>2. PICK n \in Conns : /\ sess' = n /\ open' = open \cup {n} /\ dead' = dead \ {n}
                             /\ Proceed(n)
      BY <1>18 DEF DialSucceeds
    <2>3. poll' \in Polls /\ pc' \in Pcs
      BY <2>2, ProceedTypes
    <2> QED  BY <2>1, <2>2, <2>3
  <1>19. ASSUME DialFails PROVE DataOK'
    BY <1>19 DEF DialFails, Fault, RecordFailure, Reply, After, MayDial
  <1>20. ASSUME PollBacksOff PROVE DataOK'
    BY <1>20 DEF PollBacksOff
  <1>21. ASSUME TaskSucceeds PROVE DataOK'
    BY <1>21 DEF TaskSucceeds, RecordSuccess, Reply, After
  <1>22. ASSUME TaskFails PROVE DataOK'
    BY <1>22 DEF TaskFails, Fault, CloseSession, Reply, After
  <1>23. ASSUME PollDeferred PROVE DataOK'
    BY <1>23 DEF PollDeferred, NoPoll
  <1>24. ASSUME ListSucceeds PROVE DataOK'
    BY <1>24 DEF ListSucceeds
  <1>25. ASSUME ListFails PROVE DataOK'
    <2>1. PollFails /\ faults' \in 0..MaxFaults
      BY <1>25 DEF ListFails, Fault
    <2> QED  BY <2>1, PollFailsTypes
  <1>26. ASSUME SyncFolder PROVE DataOK'
    BY <1>26 DEF SyncFolder
  <1>27. ASSUME SyncFolderFails PROVE DataOK'
    <2>1. /\ failures' = failures /\ cur' = cur /\ call' = call /\ bg' = bg
          /\ sess' = sess /\ open' = open /\ dead' = dead /\ lastUsed' = lastUsed
          /\ pc' = "yield"
      BY <1>27 DEF SyncFolderFails
    <2>2. faults' \in 0..MaxFaults
      BY <1>27 DEF SyncFolderFails, Fault
    <2>3. poll' = [poll EXCEPT !.left = @ - 1, !.failed = @ + 1] /\ pc = "folder"
      BY <1>27 DEF SyncFolderFails
    <2>4. poll.left - 1 \in 0..Folders /\ poll.failed + 1 \in 0..Folders
      BY <2>3
    <2>5. poll' \in Polls
      BY <2>3, <2>4
    <2> QED  BY <2>1, <2>2, <2>5
  <1>28. ASSUME NextFolder PROVE DataOK'
    BY <1>28 DEF NextFolder
  <1>29. ASSUME PollSucceeds PROVE DataOK'
    BY <1>29 DEF PollSucceeds, RecordSuccess, NoPoll
  <1>30. ASSUME AllFoldersFailed PROVE DataOK'
    <2>1. PollFails /\ faults' \in 0..MaxFaults
      BY <1>30 DEF AllFoldersFailed
    <2> QED  BY <2>1, PollFailsTypes
  <1>31. ASSUME ConnectionDies PROVE DataOK'
    BY <1>31 DEF ConnectionDies, Fault, Live
  <1>32. ASSUME MailArrives PROVE DataOK'
    BY <1>32 DEF MailArrives
  <1>33. ASSUME TimePasses PROVE DataOK'
    BY <1>33 DEF TimePasses
  <1>34. ASSUME BackoffEnds PROVE DataOK'
    BY <1>34 DEF BackoffEnds
  <1>35. ASSUME CooldownEnds PROVE DataOK'
    BY <1>35 DEF CooldownEnds
  <1>36. ASSUME ThrottleEnds PROVE DataOK'
    BY <1>36 DEF ThrottleEnds
  <1>37. ASSUME UNCHANGED vars PROVE DataOK'
    BY <1>37 DEF vars
  <1> QED  BY <1>1, <1>2, <1>3, <1>4, <1>5, <1>6, <1>7, <1>8, <1>9, <1>10, <1>11, <1>12,
              <1>13, <1>14, <1>15, <1>16, <1>17, <1>18, <1>19, <1>20, <1>21, <1>22, <1>23,
              <1>24, <1>25, <1>26, <1>27, <1>28, <1>29, <1>30, <1>31, <1>32, <1>33, <1>34,
              <1>35, <1>36, <1>37 DEF Next, Execute, PollStep

LEMMA StepPoll == DataOK /\ PollOK /\ [Next]_vars => PollOK'
  <1> SUFFICES ASSUME DataOK, PollOK, [Next]_vars PROVE PollOK'
    OBVIOUS
  <1> USE FoldersAssumption DEF DataOK, PollOK, Polls, conn, gates, work
  <1>1. CASE \/ \E c \in Callers : Call(c) \/ CallerLeaves(c)
             \/ SubmitBackground \/ EnterIdle \/ RefreshIdle \/ CloseUnused
             \/ ProbeFails \/ ConnectionDies \/ MailArrives \/ TimePasses \/ WakeUp
             \/ IdleDropped \/ BackoffEnds \/ CooldownEnds \/ ThrottleEnds
             \/ UNCHANGED vars
    <2>1. UNCHANGED <<pc, poll>>
      BY <1>1 DEF vars, Call, CallerLeaves, SubmitBackground, EnterIdle, RefreshIdle,
                  CloseUnused, ProbeFails, ConnectionDies, MailArrives, TimePasses, WakeUp,
                  IdleDropped, BackoffEnds, CooldownEnds, ThrottleEnds
    <2> QED  BY <2>1
  <1>2. ASSUME NEW c \in Callers, TakeForeground(c) PROVE PollOK'
    BY <1>2 DEF TakeForeground, Take, StopIdle, CloseSession
  <1>3. ASSUME NEW c \in Callers, PreferForeground(c) PROVE PollOK'
    BY <1>3 DEF PreferForeground, Take
  <1>4. ASSUME NEW c \in Callers, YieldTo(c) PROVE PollOK'
    BY <1>4 DEF YieldTo, Take
  <1>5. ASSUME TakeBackground PROVE PollOK'
    BY <1>5 DEF TakeBackground, StopIdle, CloseSession
  <1>6. ASSUME PollTick PROVE PollOK'
    BY <1>6 DEF PollTick, StopIdle, CloseSession
  <1>7. ASSUME RunHeld PROVE PollOK'
    BY <1>7 DEF RunHeld
  <1>8. ASSUME Refuse PROVE PollOK'
    BY <1>8 DEF Refuse, After
  <1>9. ASSUME Reuse PROVE PollOK'
    BY <1>9 DEF Reuse, Proceed, StartPoll
  <1>10. ASSUME DialSucceeds PROVE PollOK'
    BY <1>10 DEF DialSucceeds, Proceed, StartPoll, MayDial
  <1>11. ASSUME DialFails PROVE PollOK'
    BY <1>11 DEF DialFails, Fault, RecordFailure, Reply, After, MayDial
  <1>12. ASSUME PollBacksOff PROVE PollOK'
    BY <1>12 DEF PollBacksOff
  <1>13. ASSUME TaskSucceeds PROVE PollOK'
    BY <1>13 DEF TaskSucceeds, RecordSuccess, Reply, After
  <1>14. ASSUME TaskFails PROVE PollOK'
    BY <1>14 DEF TaskFails, Fault, CloseSession, Reply, After
  <1>15. ASSUME PollDeferred PROVE PollOK'
    BY <1>15 DEF PollDeferred, NoPoll
  <1>16. ASSUME ListSucceeds PROVE PollOK'
    BY <1>16 DEF ListSucceeds
  <1>17. ASSUME ListFails PROVE PollOK'
    BY <1>17 DEF ListFails, Fault, PollFails, CloseSession, RecordFailure, NoPoll
  <1>18. ASSUME SyncFolder PROVE PollOK'
    BY <1>18 DEF SyncFolder
  <1>19. ASSUME SyncFolderFails PROVE PollOK'
    BY <1>19 DEF SyncFolderFails, Fault
  <1>20. ASSUME NextFolder PROVE PollOK'
    BY <1>20 DEF NextFolder
  <1>21. ASSUME PollSucceeds PROVE PollOK'
    BY <1>21 DEF PollSucceeds, RecordSuccess, NoPoll
  <1>22. ASSUME AllFoldersFailed PROVE PollOK'
    BY <1>22 DEF AllFoldersFailed, PollFails, CloseSession, RecordFailure, NoPoll
  <1> QED  BY <1>1, <1>2, <1>3, <1>4, <1>5, <1>6, <1>7, <1>8, <1>9, <1>10, <1>11, <1>12,
              <1>13, <1>14, <1>15, <1>16, <1>17, <1>18, <1>19, <1>20, <1>21, <1>22 DEF Next,
              Execute, PollStep

----------------------------------------------------------------------------
(* The connection and the gates *)

LEMMA StepConn == SessOK /\ OneConnection /\ [Next]_vars => OneConnection'
  <1> SUFFICES ASSUME SessOK, OneConnection, [Next]_vars PROVE OneConnection'
    OBVIOUS
  <1> USE DEF SessOK, OneConnection, Conns, NoConn, conn, gates, work
  <1>1. CASE \/ \E c \in Callers : Call(c) \/ CallerLeaves(c) \/ PreferForeground(c) \/ YieldTo(c)
             \/ SubmitBackground \/ EnterIdle \/ RefreshIdle \/ RunHeld \/ Refuse
             \/ Reuse \/ DialFails \/ PollBacksOff \/ TaskSucceeds \/ PollDeferred
             \/ ListSucceeds \/ SyncFolder \/ SyncFolderFails \/ NextFolder
             \/ PollSucceeds \/ ConnectionDies \/ MailArrives \/ TimePasses
             \/ BackoffEnds \/ CooldownEnds \/ ThrottleEnds \/ UNCHANGED vars
    <2>1. UNCHANGED <<sess, open>>
      BY <1>1 DEF vars, Call, CallerLeaves, PreferForeground, YieldTo, SubmitBackground,
                  EnterIdle, RefreshIdle, RunHeld, Refuse, Reuse, DialFails, PollBacksOff,
                  TaskSucceeds, PollDeferred, NoPoll, ListSucceeds, SyncFolder,
                  SyncFolderFails, NextFolder, PollSucceeds, ConnectionDies, MailArrives,
                  TimePasses, BackoffEnds, CooldownEnds, ThrottleEnds
    <2> QED  BY <2>1
  <1>2. ASSUME NEW c \in Callers, TakeForeground(c) PROVE OneConnection'
    BY <1>2 DEF TakeForeground, Take, StopIdle, CloseSession
  <1>3. ASSUME TakeBackground PROVE OneConnection'
    BY <1>3 DEF TakeBackground, StopIdle, CloseSession
  <1>4. ASSUME WakeUp PROVE OneConnection'
    BY <1>4 DEF WakeUp, CloseSession, RecordFailure, RecordSuccess, Fault
  <1>5. ASSUME PollTick PROVE OneConnection'
    BY <1>5 DEF PollTick, StopIdle, CloseSession
  <1>6. ASSUME IdleDropped PROVE OneConnection'
    BY <1>6 DEF IdleDropped, CloseSession, RecordFailure
  <1>7. ASSUME CloseUnused PROVE OneConnection'
    BY <1>7 DEF CloseUnused, CloseSession
  <1>8. ASSUME ProbeFails PROVE OneConnection'
    BY <1>8 DEF ProbeFails, CloseSession
  <1>9. ASSUME DialSucceeds PROVE OneConnection'
    BY <1>9 DEF DialSucceeds, Proceed, StartPoll, MayDial
  <1>10. ASSUME TaskFails PROVE OneConnection'
    BY <1>10 DEF TaskFails, Fault, CloseSession, Reply, After
  <1>11. ASSUME ListFails PROVE OneConnection'
    BY <1>11 DEF ListFails, Fault, PollFails, CloseSession, RecordFailure, NoPoll
  <1>12. ASSUME AllFoldersFailed PROVE OneConnection'
    BY <1>12 DEF AllFoldersFailed, PollFails, CloseSession, RecordFailure, NoPoll
  <1> QED  BY Zenon, <1>1, <1>2, <1>3, <1>4, <1>5, <1>6, <1>7, <1>8, <1>9, <1>10, <1>11,
              <1>12 DEF Next, Execute, PollStep

LEMMA StepBackoff ==
    SessOK /\ BackoffOnlyUnconnected /\ [Next]_vars => BackoffOnlyUnconnected'
  <1> SUFFICES ASSUME SessOK, BackoffOnlyUnconnected, [Next]_vars
               PROVE  BackoffOnlyUnconnected'
    OBVIOUS
  <1> USE DEF BackoffOnlyUnconnected, SessOK, NoConn, Conns, conn, gates, work
  <1>1. CASE \/ \E c \in Callers : Call(c) \/ CallerLeaves(c) \/ PreferForeground(c) \/ YieldTo(c)
             \/ SubmitBackground \/ EnterIdle \/ RefreshIdle \/ RunHeld \/ Refuse
             \/ Reuse \/ PollBacksOff \/ TaskSucceeds \/ PollDeferred \/ ListSucceeds
             \/ SyncFolder \/ SyncFolderFails \/ NextFolder \/ PollSucceeds
             \/ ConnectionDies \/ MailArrives \/ TimePasses \/ CooldownEnds
             \/ ThrottleEnds \/ UNCHANGED vars
    <2>1. UNCHANGED <<sess, backoff>>
      BY <1>1 DEF vars, Call, CallerLeaves, PreferForeground, YieldTo, SubmitBackground,
                  EnterIdle, RefreshIdle, RunHeld, Refuse, Reuse, PollBacksOff,
                  TaskSucceeds, PollDeferred, ListSucceeds, SyncFolder, SyncFolderFails,
                  NextFolder, PollSucceeds, ConnectionDies, MailArrives, TimePasses,
                  CooldownEnds, ThrottleEnds
    <2> QED  BY <2>1
  <1>2. ASSUME NEW c \in Callers, TakeForeground(c) PROVE BackoffOnlyUnconnected'
    BY <1>2 DEF TakeForeground, Take, StopIdle, CloseSession
  <1>3. ASSUME TakeBackground PROVE BackoffOnlyUnconnected'
    BY <1>3 DEF TakeBackground, StopIdle, CloseSession
  <1>4. ASSUME WakeUp PROVE BackoffOnlyUnconnected'
    BY <1>4 DEF WakeUp, CloseSession, RecordFailure, RecordSuccess, Fault
  <1>5. ASSUME PollTick PROVE BackoffOnlyUnconnected'
    BY <1>5 DEF PollTick, StopIdle, CloseSession
  <1>6. ASSUME IdleDropped PROVE BackoffOnlyUnconnected'
    BY <1>6 DEF IdleDropped, CloseSession, RecordFailure
  <1>7. ASSUME CloseUnused PROVE BackoffOnlyUnconnected'
    BY <1>7 DEF CloseUnused, CloseSession
  <1>8. ASSUME ProbeFails PROVE BackoffOnlyUnconnected'
    BY <1>8 DEF ProbeFails, CloseSession
  <1>9. ASSUME DialSucceeds PROVE BackoffOnlyUnconnected'
    BY <1>9 DEF DialSucceeds, Proceed, StartPoll, MayDial
  <1>10. ASSUME DialFails PROVE BackoffOnlyUnconnected'
    BY <1>10 DEF DialFails, Fault, RecordFailure, Reply, After, MayDial
  <1>11. ASSUME TaskFails PROVE BackoffOnlyUnconnected'
    BY <1>11 DEF TaskFails, Fault, CloseSession, Reply, After
  <1>12. ASSUME ListFails PROVE BackoffOnlyUnconnected'
    BY <1>12 DEF ListFails, Fault, PollFails, CloseSession, RecordFailure, NoPoll
  <1>13. ASSUME AllFoldersFailed PROVE BackoffOnlyUnconnected'
    BY <1>13 DEF AllFoldersFailed, PollFails, CloseSession, RecordFailure, NoPoll
  <1>14. ASSUME BackoffEnds PROVE BackoffOnlyUnconnected'
    BY <1>14 DEF BackoffEnds
  <1> QED  BY Zenon, <1>1, <1>2, <1>3, <1>4, <1>5, <1>6, <1>7, <1>8, <1>9, <1>10, <1>11,
              <1>12, <1>13, <1>14 DEF Next, Execute, PollStep

LEMMA StepConnect == ConnectOK /\ [Next]_vars => ConnectOK'
  <1> SUFFICES ASSUME ConnectOK, [Next]_vars PROVE ConnectOK'
    OBVIOUS
  <1> USE DEF ConnectOK, AllowBackground, conn, gates, work
  <1>1. CASE \/ \E c \in Callers : Call(c) \/ CallerLeaves(c)
             \/ SubmitBackground \/ EnterIdle \/ RefreshIdle \/ CloseUnused
             \/ ProbeFails \/ ConnectionDies \/ MailArrives \/ TimePasses
             \/ BackoffEnds \/ UNCHANGED vars
    <2>1. UNCHANGED <<pc, brk, throttled>>
      BY <1>1 DEF vars, Call, CallerLeaves, SubmitBackground, EnterIdle, RefreshIdle,
                  CloseUnused, ProbeFails, ConnectionDies, MailArrives, TimePasses,
                  BackoffEnds
    <2> QED  BY <2>1
  <1>2. ASSUME NEW c \in Callers, TakeForeground(c) PROVE ConnectOK'
    BY <1>2 DEF TakeForeground, Take, StopIdle, CloseSession
  <1>3. ASSUME NEW c \in Callers, PreferForeground(c) PROVE ConnectOK'
    BY <1>3 DEF PreferForeground, Take
  <1>4. ASSUME NEW c \in Callers, YieldTo(c) PROVE ConnectOK'
    BY <1>4 DEF YieldTo, Take
  <1>5. ASSUME TakeBackground PROVE ConnectOK'
    BY <1>5 DEF TakeBackground, StopIdle, CloseSession
  <1>6. ASSUME WakeUp PROVE ConnectOK'
    BY <1>6 DEF WakeUp, CloseSession, RecordFailure, RecordSuccess, Fault
  <1>7. ASSUME PollTick PROVE ConnectOK'
    BY <1>7 DEF PollTick, StopIdle, CloseSession
  <1>8. ASSUME IdleDropped PROVE ConnectOK'
    BY <1>8 DEF IdleDropped, CloseSession, RecordFailure
  <1>9. ASSUME RunHeld PROVE ConnectOK'
    BY <1>9 DEF RunHeld
  <1>10. ASSUME Refuse PROVE ConnectOK'
    BY <1>10 DEF Refuse, After
  <1>11. ASSUME Reuse PROVE ConnectOK'
    BY <1>11 DEF Reuse, Proceed, StartPoll
  <1>12. ASSUME DialSucceeds PROVE ConnectOK'
    BY <1>12 DEF DialSucceeds, Proceed, StartPoll, MayDial
  <1>13. ASSUME DialFails PROVE ConnectOK'
    BY <1>13 DEF DialFails, Fault, RecordFailure, Reply, After, MayDial
  <1>14. ASSUME PollBacksOff PROVE ConnectOK'
    BY <1>14 DEF PollBacksOff
  <1>15. ASSUME TaskSucceeds PROVE ConnectOK'
    BY <1>15 DEF TaskSucceeds, RecordSuccess, Reply, After
  <1>16. ASSUME TaskFails PROVE ConnectOK'
    BY <1>16 DEF TaskFails, Fault, CloseSession, Reply, After
  <1>17. ASSUME PollDeferred PROVE ConnectOK'
    BY <1>17 DEF PollDeferred, NoPoll
  <1>18. ASSUME ListSucceeds PROVE ConnectOK'
    BY <1>18 DEF ListSucceeds
  <1>19. ASSUME ListFails PROVE ConnectOK'
    BY <1>19 DEF ListFails, Fault, PollFails, CloseSession, RecordFailure, NoPoll
  <1>20. ASSUME SyncFolder PROVE ConnectOK'
    BY <1>20 DEF SyncFolder
  <1>21. ASSUME SyncFolderFails PROVE ConnectOK'
    BY <1>21 DEF SyncFolderFails, Fault
  <1>22. ASSUME NextFolder PROVE ConnectOK'
    BY <1>22 DEF NextFolder
  <1>23. ASSUME PollSucceeds PROVE ConnectOK'
    BY <1>23 DEF PollSucceeds, RecordSuccess, NoPoll
  <1>24. ASSUME AllFoldersFailed PROVE ConnectOK'
    BY <1>24 DEF AllFoldersFailed, PollFails, CloseSession, RecordFailure, NoPoll
  <1>25. ASSUME CooldownEnds PROVE ConnectOK'
    BY <1>25 DEF CooldownEnds
  <1>26. ASSUME ThrottleEnds PROVE ConnectOK'
    BY <1>26 DEF ThrottleEnds
  <1> QED  BY Zenon, <1>1, <1>2, <1>3, <1>4, <1>5, <1>6, <1>7, <1>8, <1>9, <1>10, <1>11,
              <1>12, <1>13, <1>14, <1>15, <1>16, <1>17, <1>18, <1>19, <1>20, <1>21, <1>22,
              <1>23, <1>24, <1>25, <1>26 DEF Next, Execute, PollStep

\* What GatesRespected says of one step.
GateStep ==
    sess = NoConn /\ sess' # NoConn /\ ForBackground => ~brk /\ ~backoff /\ ~throttled

LEMMA StepGates == ConnectOK /\ [Next]_vars => GateStep
  <1> SUFFICES ASSUME ConnectOK, [Next]_vars PROVE GateStep
    OBVIOUS
  <1> USE DEF ConnectOK, GateStep, ForBackground, AllowBackground, Admitted, conn, gates, work
  <1>1. CASE \/ \E c \in Callers : \/ Call(c) \/ CallerLeaves(c) \/ TakeForeground(c)
                                    \/ PreferForeground(c) \/ YieldTo(c)
             \/ SubmitBackground \/ TakeBackground \/ WakeUp \/ PollTick \/ EnterIdle
             \/ RefreshIdle \/ IdleDropped \/ CloseUnused \/ RunHeld \/ Refuse \/ Reuse
             \/ ProbeFails \/ DialFails \/ PollBacksOff \/ TaskSucceeds \/ TaskFails
             \/ PollDeferred \/ ListSucceeds \/ ListFails \/ SyncFolder
             \/ SyncFolderFails \/ NextFolder \/ PollSucceeds \/ AllFoldersFailed
             \/ ConnectionDies \/ MailArrives \/ TimePasses \/ BackoffEnds
             \/ CooldownEnds \/ ThrottleEnds \/ UNCHANGED vars
    <2>1. sess' \in {sess, NoConn}
      BY <1>1 DEF vars, Take, StopIdle, CloseSession, PollFails, Call, CallerLeaves,
                  TakeForeground, PreferForeground, YieldTo, SubmitBackground,
                  TakeBackground, WakeUp, PollTick, EnterIdle, RefreshIdle, IdleDropped,
                  CloseUnused, RunHeld, Refuse, Reuse, ProbeFails, DialFails, PollBacksOff,
                  TaskSucceeds, TaskFails, PollDeferred, ListSucceeds, ListFails,
                  SyncFolder, SyncFolderFails, NextFolder, PollSucceeds, AllFoldersFailed,
                  ConnectionDies, MailArrives, TimePasses, BackoffEnds, CooldownEnds,
                  ThrottleEnds
    <2> QED  BY <2>1
  <1>2. ASSUME DialSucceeds PROVE GateStep
    BY <1>2 DEF DialSucceeds, MayDial
  <1> QED  BY Zenon, <1>1, <1>2 DEF Next, Execute, PollStep

----------------------------------------------------------------------------
(* The requests *)

LEMMA StepCur == CurTypes /\ CurOK /\ [Next]_vars => CurOK'
  <1> SUFFICES ASSUME CurTypes, CurOK, [Next]_vars PROVE CurOK'
    OBVIOUS
  <1> USE CallersAssumption DEF CurTypes, CurOK, Nobody, Background, conn, gates, work
  <1>1. CASE \/ \E c \in Callers : Call(c) \/ CallerLeaves(c)
             \/ SubmitBackground \/ EnterIdle \/ RefreshIdle \/ CloseUnused
             \/ ProbeFails \/ ConnectionDies \/ MailArrives \/ TimePasses \/ WakeUp
             \/ IdleDropped \/ BackoffEnds \/ CooldownEnds \/ ThrottleEnds
             \/ UNCHANGED vars
    <2>1. UNCHANGED <<pc, cur>>
      BY <1>1 DEF vars, Call, CallerLeaves, SubmitBackground, EnterIdle, RefreshIdle,
                  CloseUnused, ProbeFails, ConnectionDies, MailArrives, TimePasses, WakeUp,
                  IdleDropped, BackoffEnds, CooldownEnds, ThrottleEnds
    <2> QED  BY <2>1
  <1>2. ASSUME NEW c \in Callers, TakeForeground(c) PROVE CurOK'
    BY <1>2 DEF TakeForeground, Take, StopIdle, CloseSession
  <1>3. ASSUME NEW c \in Callers, PreferForeground(c) PROVE CurOK'
    BY <1>3 DEF PreferForeground, Take
  <1>4. ASSUME NEW c \in Callers, YieldTo(c) PROVE CurOK'
    BY <1>4 DEF YieldTo, Take
  <1>5. ASSUME TakeBackground PROVE CurOK'
    BY <1>5 DEF TakeBackground, StopIdle, CloseSession
  <1>6. ASSUME PollTick PROVE CurOK'
    BY <1>6 DEF PollTick, StopIdle, CloseSession
  <1>7. ASSUME RunHeld PROVE CurOK'
    BY <1>7 DEF RunHeld
  <1>8. ASSUME Refuse PROVE CurOK'
    BY <1>8 DEF Refuse, After
  <1>9. ASSUME Reuse PROVE CurOK'
    BY <1>9 DEF Reuse, Proceed, StartPoll
  <1>10. ASSUME DialSucceeds PROVE CurOK'
    BY <1>10 DEF DialSucceeds, Proceed, StartPoll, MayDial
  <1>11. ASSUME DialFails PROVE CurOK'
    BY <1>11 DEF DialFails, Fault, RecordFailure, Reply, After, MayDial
  <1>12. ASSUME PollBacksOff PROVE CurOK'
    BY <1>12 DEF PollBacksOff
  <1>13. ASSUME TaskSucceeds PROVE CurOK'
    BY <1>13 DEF TaskSucceeds, RecordSuccess, Reply, After
  <1>14. ASSUME TaskFails PROVE CurOK'
    BY <1>14 DEF TaskFails, Fault, CloseSession, Reply, After
  <1>15. ASSUME PollDeferred PROVE CurOK'
    BY <1>15 DEF PollDeferred, NoPoll
  <1>16. ASSUME ListSucceeds PROVE CurOK'
    BY <1>16 DEF ListSucceeds
  <1>17. ASSUME ListFails PROVE CurOK'
    BY <1>17 DEF ListFails, Fault, PollFails, CloseSession, RecordFailure, NoPoll
  <1>18. ASSUME SyncFolder PROVE CurOK'
    BY <1>18 DEF SyncFolder
  <1>19. ASSUME SyncFolderFails PROVE CurOK'
    BY <1>19 DEF SyncFolderFails, Fault
  <1>20. ASSUME NextFolder PROVE CurOK'
    BY <1>20 DEF NextFolder
  <1>21. ASSUME PollSucceeds PROVE CurOK'
    BY <1>21 DEF PollSucceeds, RecordSuccess, NoPoll
  <1>22. ASSUME AllFoldersFailed PROVE CurOK'
    BY <1>22 DEF AllFoldersFailed, PollFails, CloseSession, RecordFailure, NoPoll
  <1> QED  BY Zenon, <1>1, <1>2, <1>3, <1>4, <1>5, <1>6, <1>7, <1>8, <1>9, <1>10, <1>11,
              <1>12, <1>13, <1>14, <1>15, <1>16, <1>17, <1>18, <1>19, <1>20, <1>21, <1>22
              DEF Next, Execute, PollStep

LEMMA StepTaken == CurTypes /\ CurOK /\ TakenIsExecuted /\ [Next]_vars => TakenIsExecuted'
  <1> SUFFICES ASSUME CurTypes, CurOK, TakenIsExecuted, [Next]_vars PROVE TakenIsExecuted'
    OBVIOUS
  <1> USE CallersAssumption
      DEF CurTypes, CurOK, TakenIsExecuted, Nobody, Background, conn, gates, work
  <1>1. CASE \/ SubmitBackground \/ TakeBackground \/ WakeUp \/ PollTick \/ EnterIdle
             \/ RefreshIdle \/ IdleDropped \/ CloseUnused \/ Reuse \/ ProbeFails
             \/ DialSucceeds \/ PollBacksOff \/ PollDeferred \/ ListSucceeds
             \/ ListFails \/ SyncFolder \/ SyncFolderFails \/ NextFolder
             \/ PollSucceeds \/ AllFoldersFailed \/ ConnectionDies \/ MailArrives
             \/ TimePasses \/ BackoffEnds \/ CooldownEnds \/ ThrottleEnds
             \/ UNCHANGED vars
    <2>1. UNCHANGED <<cur, call>>
      BY <1>1 DEF vars, SubmitBackground, TakeBackground, WakeUp, PollTick, EnterIdle,
                  RefreshIdle, IdleDropped, CloseUnused, Reuse, ProbeFails, DialSucceeds,
                  PollBacksOff, PollDeferred, ListSucceeds, ListFails, Fault, PollFails,
                  CloseSession, RecordFailure, NoPoll, SyncFolder, SyncFolderFails,
                  NextFolder, PollSucceeds, AllFoldersFailed, ConnectionDies, MailArrives,
                  TimePasses, BackoffEnds, CooldownEnds, ThrottleEnds
    <2> QED  BY <2>1
  <1>2. ASSUME NEW c \in Callers, Call(c) PROVE TakenIsExecuted'
    BY <1>2 DEF Call
  <1>3. ASSUME NEW c \in Callers, CallerLeaves(c) PROVE TakenIsExecuted'
    BY <1>3 DEF CallerLeaves
  <1>4. ASSUME NEW c \in Callers, TakeForeground(c) PROVE TakenIsExecuted'
    BY <1>4 DEF TakeForeground, Take, StopIdle, CloseSession
  <1>5. ASSUME NEW c \in Callers, PreferForeground(c) PROVE TakenIsExecuted'
    BY <1>5 DEF PreferForeground, Take
  <1>6. ASSUME NEW c \in Callers, YieldTo(c) PROVE TakenIsExecuted'
    BY <1>6 DEF YieldTo, Take
  <1>7. ASSUME RunHeld PROVE TakenIsExecuted'
    BY <1>7 DEF RunHeld
  <1>8. ASSUME Refuse PROVE TakenIsExecuted'
    BY <1>8 DEF Refuse, After
  <1>9. ASSUME DialFails PROVE TakenIsExecuted'
    BY <1>9 DEF DialFails, Fault, RecordFailure, Reply, After, MayDial
  <1>10. ASSUME TaskSucceeds PROVE TakenIsExecuted'
    BY <1>10 DEF TaskSucceeds, RecordSuccess, Reply, After
  <1>11. ASSUME TaskFails PROVE TakenIsExecuted'
    BY <1>11 DEF TaskFails, Fault, CloseSession, Reply, After
  <1> QED  BY Zenon, <1>1, <1>2, <1>3, <1>4, <1>5, <1>6, <1>7, <1>8, <1>9, <1>10, <1>11 DEF
              Next, Execute, PollStep

----------------------------------------------------------------------------
LEMMA StepOK == IInv /\ [Next]_vars => IInv'
  <1> SUFFICES ASSUME IInv, [Next]_vars PROVE IInv'
    OBVIOUS
  <1>1. SessOK /\ CurTypes
    BY DEF IInv, DataOK
  <1>2. BoolOK' /\ DataOK' /\ PollOK'
    BY StepBools, StepData, StepPoll DEF IInv
  <1>3. OneConnection' /\ BackoffOnlyUnconnected' /\ ConnectOK'
    BY <1>1, StepConn, StepBackoff, StepConnect DEF IInv
  <1>4. CurOK' /\ TakenIsExecuted'
    BY <1>1, StepCur, StepTaken DEF IInv
  <1> QED  BY <1>2, <1>3, <1>4 DEF IInv

LEMMA Inductive == Spec => []IInv
  BY InitOK, StepOK, PTL DEF Spec

\* The types: queue and counters stay within their bounds, and so does the
\* loop of a poll over its folders, whatever runs at its boundaries.
THEOREM TypeCorrect == Spec => []TypeOK
  <1>1. IInv => TypeOK
    BY TypeSplit DEF IInv
  <1> QED  BY <1>1, Inductive, PTL

\* runner.go never leaks a connection and never has two: every path that
\* drops the session closes it, and dials happen only without one.
THEOREM OneConnectionOnly == Spec => []OneConnection
  <1>1. IInv => OneConnection
    BY DEF IInv
  <1> QED  BY <1>1, Inductive, PTL

\* A runner with a connection is never in the backoff period of exec.
THEOREM BackoffMeansUnconnected == Spec => []BackoffOnlyUnconnected
  <1>1. IInv => BackoffOnlyUnconnected
    BY DEF IInv
  <1> QED  BY <1>1, Inductive, PTL

\* A foreground task that was taken is the one being executed: exec replies on
\* every way out, the failing dial included, before it takes another.
THEOREM NoReplyForgotten == Spec => []TakenIsExecuted
  <1>1. IInv => TakenIsExecuted
    BY DEF IInv
  <1> QED  BY <1>1, Inductive, PTL

\* Polls and background tasks dial only when breaker, backoff and throttle are
\* open at that moment, though they are looked at in earlier steps.
THEOREM GatesHold == Spec => GatesRespected
  <1>1. IInv => ConnectOK
    BY DEF IInv
  <1> QED  BY <1>1, Inductive, StepGates, PTL DEF Spec, GatesRespected, GateStep
=============================================================================
