--------------------------- MODULE SyncSlots_proofs ---------------------------
(***************************************************************************)
(* The slot counter for every number of accounts and folders and every     *)
(* range of the setting: types, exactness of the counter, and the limit.   *)
(***************************************************************************)
EXTENDS SyncSlots, FiniteSetTheorems, TLAPS

\* What a step does to the counter and to the two sets it counts.
SlotsKept == UNCHANGED <<active, poll>> /\ Triggered' = Triggered

LEMMA InitTypes == Init => TypeOK
  BY FoldersAssumption DEF Init, TypeOK, Tasks, Requests, Stops

\* The counter stays a number.
LEMMA ReleaseIsNat == ASSUME active \in Nat, Release PROVE active' \in Nat
  BY DEF Release

LEMMA AcquireIsNat == ASSUME active \in Nat, Acquire PROVE active' \in Nat
  BY DEF Acquire

LEMMA StepTypes == TypeOK /\ [Next]_vars => TypeOK'
  <1> SUFFICES ASSUME TypeOK, [Next]_vars PROVE TypeOK'
    OBVIOUS
  <1> USE DEF TypeOK, Tasks, Requests, Stops
  <1>1. ASSUME NEW a \in Accounts, Trigger(a) PROVE TypeOK'
    BY <1>1 DEF Trigger
  <1>2. ASSUME NEW a \in Accounts, TakeTrigger(a) PROVE TypeOK'
    BY <1>2 DEF TakeTrigger
  <1>3. ASSUME NEW a \in Accounts, TrySlot(a) PROVE TypeOK'
    BY <1>3, AcquireIsNat DEF TrySlot
  <1>4. ASSUME NEW a \in Accounts, TriggeredSyncEnds(a) PROVE TypeOK'
    BY <1>4, ReleaseIsNat DEF TriggeredSyncEnds
  <1>5. ASSUME NEW a \in Accounts, PollBegins(a) PROVE TypeOK'
    BY <1>5, AcquireIsNat, FoldersAssumption DEF PollBegins
  <1>6. ASSUME NEW a \in Accounts, SyncFolder(a) PROVE TypeOK'
    <2>1. left[a] \in 0..Folders /\ left[a] > 0
      BY <1>6 DEF SyncFolder
    <2>2. left[a] - 1 \in 0..Folders
      BY <2>1, FoldersAssumption
    <2> QED  BY <1>6, <2>2 DEF SyncFolder
  <1>7. ASSUME NEW a \in Accounts, PollEnds(a) PROVE TypeOK'
    BY <1>7, ReleaseIsNat DEF PollEnds
  <1>8. ASSUME NEW a \in Accounts, PollFails(a) PROVE TypeOK'
    BY <1>8, ReleaseIsNat, FoldersAssumption DEF PollFails
  <1>9. ASSUME NEW a \in Accounts, Disable(a) PROVE TypeOK'
    BY <1>9 DEF Disable
  <1>10. ASSUME NEW a \in Accounts, Stop(a) PROVE TypeOK'
    BY <1>10 DEF Stop
  <1>11. ASSUME NEW a \in Accounts, RequestReturns(a) PROVE TypeOK'
    BY <1>11 DEF RequestReturns
  <1>12. ASSUME NEW a \in Accounts, Exit(a) PROVE TypeOK'
    BY <1>12 DEF Exit
  <1>13. ASSUME NEW n \in Limits, SetLimit(n) PROVE TypeOK'
    BY <1>13 DEF SetLimit
  <1>14. CASE UNCHANGED vars
    BY <1>14 DEF vars
  <1> QED  BY <1>1, <1>2, <1>3, <1>4, <1>5, <1>6, <1>7, <1>8, <1>9, <1>10, <1>11, <1>12,
              <1>13, <1>14 DEF Next

\* The types hold for every set of accounts, folders and limits; in particular
\* the loop of a poll over its folders stays within its bounds.
THEOREM TypeCorrect == Spec => []TypeOK
  BY InitTypes, StepTypes, PTL DEF Spec

----------------------------------------------------------------------------
LEMMA CountedAreFinite ==
    /\ IsFiniteSet(Polling) /\ Cardinality(Polling) \in Nat
    /\ IsFiniteSet(Triggered) /\ Cardinality(Triggered) \in Nat
  BY AccountsAssumption, FS_Subset, FS_CardinalityType DEF Polling, Triggered

\* An account joins or leaves the set of accounts that poll.
LEMMA PollJoins ==
    ASSUME NEW a \in Accounts, poll \in [Accounts -> BOOLEAN], ~poll[a],
           poll' = [poll EXCEPT ![a] = TRUE]
    PROVE  Cardinality(Polling') = Cardinality(Polling) + 1
  <1>1. Polling' = Polling \cup {a} /\ a \notin Polling
    BY DEF Polling
  <1> QED  BY <1>1, CountedAreFinite, FS_AddElement

LEMMA PollLeaves ==
    ASSUME NEW a \in Accounts, poll \in [Accounts -> BOOLEAN], poll[a],
           poll' = [poll EXCEPT ![a] = FALSE]
    PROVE  /\ Cardinality(Polling') = Cardinality(Polling) - 1
           /\ Cardinality(Polling) > 0
  <1>1. Polling' = Polling \ {a} /\ a \in Polling
    BY DEF Polling
  <1>2. Cardinality(Polling) # 0
    BY <1>1, CountedAreFinite, FS_EmptySet
  <1>3. Cardinality(Polling \ {a}) = Cardinality(Polling) - 1
    BY <1>1, CountedAreFinite, FS_RemoveElement
  <1> QED  BY <1>1, <1>2, <1>3, CountedAreFinite

\* The same for the manual synchronisations.
LEMMA TriggeredJoins ==
    ASSUME NEW a \in Accounts, task \in [Accounts -> Tasks], task[a] # "sync",
           task' = [task EXCEPT ![a] = "sync"]
    PROVE  Cardinality(Triggered') = Cardinality(Triggered) + 1
  <1>1. Triggered' = Triggered \cup {a} /\ a \notin Triggered
    BY DEF Triggered
  <1> QED  BY <1>1, CountedAreFinite, FS_AddElement

LEMMA TriggeredLeaves ==
    ASSUME NEW a \in Accounts, task \in [Accounts -> Tasks], task[a] = "sync",
           task' = [task EXCEPT ![a] = "none"]
    PROVE  /\ Cardinality(Triggered') = Cardinality(Triggered) - 1
           /\ Cardinality(Triggered) > 0
  <1>1. Triggered' = Triggered \ {a} /\ a \in Triggered
    BY DEF Triggered
  <1>2. Cardinality(Triggered) # 0
    BY <1>1, CountedAreFinite, FS_EmptySet
  <1>3. Cardinality(Triggered \ {a}) = Cardinality(Triggered) - 1
    BY <1>1, CountedAreFinite, FS_RemoveElement
  <1> QED  BY <1>1, <1>2, <1>3, CountedAreFinite

\* The steps that take or give back no slot: no poll begins or ends, and no
\* manual synchronisation does.
LEMMA SlotsUntouched ==
    ASSUME TypeOK,
           \/ UNCHANGED vars
           \/ \E n \in Limits : SetLimit(n)
           \/ \E a \in Accounts :
                \/ Trigger(a) \/ TakeTrigger(a) \/ SyncFolder(a) \/ Disable(a)
                \/ Stop(a) \/ RequestReturns(a) \/ Exit(a)
    PROVE  SlotsKept
  <1>1. CASE \E a \in Accounts : TakeTrigger(a)
    <2>1. PICK a \in Accounts : TakeTrigger(a)
      BY <1>1
    <2>2. /\ task \in [Accounts -> Tasks]
          /\ task[a] = "none"
          /\ task' = [task EXCEPT ![a] = "retry"]
          /\ UNCHANGED <<active, poll>>
      BY <2>1 DEF TakeTrigger, TypeOK
    <2> QED  BY <2>2 DEF SlotsKept, Triggered
  <1>2. CASE \/ UNCHANGED vars
             \/ \E n \in Limits : SetLimit(n)
             \/ \E a \in Accounts :
                  \/ Trigger(a) \/ SyncFolder(a) \/ Disable(a)
                  \/ Stop(a) \/ RequestReturns(a) \/ Exit(a)
    <2>1. UNCHANGED <<active, poll, task>>
      BY <1>2 DEF vars, SetLimit, Trigger, SyncFolder, Disable, Stop, RequestReturns, Exit
    <2> QED  BY <2>1 DEF SlotsKept, Triggered
  <1> QED  BY <1>1, <1>2

\* The steps that take a slot, and those that give one back.
Takes(a) == PollBegins(a) \/ TrySlot(a)
Gives(a) == PollEnds(a) \/ PollFails(a) \/ TriggeredSyncEnds(a)

InUse == Cardinality(Polling) + Cardinality(Triggered)

LEMMA TakesOne ==
    ASSUME TypeOK, NEW a \in Accounts, Takes(a)
    PROVE  InUse' = InUse + 1 /\ Acquire
  <1>1. CASE PollBegins(a)
    <2>1. /\ poll \in [Accounts -> BOOLEAN] /\ ~poll[a]
          /\ poll' = [poll EXCEPT ![a] = TRUE]
          /\ task' = task /\ Acquire
      BY <1>1 DEF PollBegins, TypeOK
    <2>2. Triggered' = Triggered
      BY <2>1 DEF Triggered
    <2>3. Cardinality(Polling') = Cardinality(Polling) + 1
      BY <2>1, PollJoins
    <2> QED  BY <2>1, <2>2, <2>3, CountedAreFinite DEF InUse
  <1>2. CASE TrySlot(a)
    <2>1. /\ task \in [Accounts -> Tasks] /\ task[a] # "sync"
          /\ task' = [task EXCEPT ![a] = "sync"]
          /\ poll' = poll /\ Acquire
      BY <1>2 DEF TrySlot, TypeOK
    <2>2. Polling' = Polling
      BY <2>1 DEF Polling
    <2>3. Cardinality(Triggered') = Cardinality(Triggered) + 1
      BY <2>1, TriggeredJoins
    <2> QED  BY <2>1, <2>2, <2>3, CountedAreFinite DEF InUse
  <1> QED  BY <1>1, <1>2 DEF Takes

LEMMA GivesOne ==
    ASSUME TypeOK, NEW a \in Accounts, Gives(a)
    PROVE  InUse' = InUse - 1 /\ InUse > 0 /\ Release
  <1>1. CASE PollEnds(a) \/ PollFails(a)
    <2>1. /\ poll \in [Accounts -> BOOLEAN] /\ poll[a]
          /\ poll' = [poll EXCEPT ![a] = FALSE]
          /\ task' = task /\ Release
      BY <1>1 DEF PollEnds, PollFails, TypeOK
    <2>2. Triggered' = Triggered
      BY <2>1 DEF Triggered
    <2>3. Cardinality(Polling') = Cardinality(Polling) - 1 /\ Cardinality(Polling) > 0
      BY <2>1, PollLeaves
    <2> QED  BY <2>1, <2>2, <2>3, CountedAreFinite DEF InUse
  <1>2. CASE TriggeredSyncEnds(a)
    <2>1. /\ task \in [Accounts -> Tasks] /\ task[a] = "sync"
          /\ task' = [task EXCEPT ![a] = "none"]
          /\ poll' = poll /\ Release
      BY <1>2 DEF TriggeredSyncEnds, TypeOK
    <2>2. Polling' = Polling
      BY <2>1 DEF Polling
    <2>3. Cardinality(Triggered') = Cardinality(Triggered) - 1 /\ Cardinality(Triggered) > 0
      BY <2>1, TriggeredLeaves
    <2> QED  BY <2>1, <2>2, <2>3, CountedAreFinite DEF InUse
  <1> QED  BY <1>1, <1>2 DEF Gives

\* Every step takes one slot, gives one back, or leaves them alone.
LEMMA StepKinds ==
    ASSUME TypeOK, [Next]_vars
    PROVE  SlotsKept \/ \E a \in Accounts : Takes(a) \/ Gives(a)
  <1>1. CASE \E a \in Accounts : Takes(a) \/ Gives(a)
    BY <1>1
  <1>2. CASE ~ \E a \in Accounts : Takes(a) \/ Gives(a)
    BY <1>2, SlotsUntouched DEF Next, Takes, Gives
  <1> QED  BY <1>1, <1>2

LEMMA StepCounter == TypeOK /\ SlotsAccounted /\ [Next]_vars => SlotsAccounted'
  <1> SUFFICES ASSUME TypeOK, SlotsAccounted, [Next]_vars PROVE SlotsAccounted'
    OBVIOUS
  <1>1. active = InUse
    BY DEF SlotsAccounted, InUse
  <1>2. CASE SlotsKept
    BY <1>1, <1>2 DEF SlotsKept, SlotsAccounted, Polling
  <1>3. CASE \E a \in Accounts : Takes(a)
    <2>1. PICK a \in Accounts : Takes(a)
      BY <1>3
    <2>2. InUse' = InUse + 1 /\ Acquire
      BY <2>1, TakesOne
    <2> QED  BY <1>1, <2>2 DEF Acquire, SlotsAccounted, InUse
  <1>4. CASE \E a \in Accounts : Gives(a)
    <2>1. PICK a \in Accounts : Gives(a)
      BY <1>4
    <2>2. InUse' = InUse - 1 /\ InUse > 0 /\ Release
      BY <2>1, GivesOne
    <2> QED  BY <1>1, <2>2 DEF Release, SlotsAccounted, InUse
  <1> QED  BY <1>2, <1>3, <1>4, StepKinds

LEMMA InitCounter == Init => SlotsAccounted
  <1> SUFFICES ASSUME Init PROVE SlotsAccounted
    OBVIOUS
  <1>1. Polling = {} /\ Triggered = {}
    BY DEF Init, Polling, Triggered
  <1> QED  BY <1>1, FS_EmptySet DEF Init, SlotsAccounted

\* The counter is exact for every number of accounts: what is taken is given
\* back exactly once on every way a poll or a manual synchronisation can end.
THEOREM CounterExact == Spec => []SlotsAccounted
  BY InitTypes, StepTypes, InitCounter, StepCounter, PTL DEF Spec

----------------------------------------------------------------------------
\* The limit, said of the counter.
ActiveWithinLimits == \E n \in Limits : active <= n

LEMMA StepLimit ==
    TypeOK /\ SlotsAccounted /\ ActiveWithinLimits /\ [Next]_vars => ActiveWithinLimits'
  <1> SUFFICES ASSUME TypeOK, SlotsAccounted, ActiveWithinLimits, [Next]_vars
               PROVE  ActiveWithinLimits'
    OBVIOUS
  <1>1. limit \in Limits /\ limit \in Nat /\ active \in Nat /\ Limits \subseteq Nat
    BY LimitsAssumption DEF TypeOK
  <1>2. CASE SlotsKept
    BY <1>2 DEF SlotsKept, ActiveWithinLimits
  <1>3. CASE \E a \in Accounts : Takes(a)
    <2>1. active < limit /\ active' = active + 1
      BY <1>3, TakesOne DEF Acquire
    <2>2. active' <= limit
      BY <1>1, <2>1
    <2> QED  BY <1>1, <2>2 DEF ActiveWithinLimits
  <1>4. CASE \E a \in Accounts : Gives(a)
    <2>1. Release
      BY <1>4, GivesOne
    <2>2. active' <= active
      BY <1>1, <2>1 DEF Release
    <2>3. PICK n \in Limits : active <= n
      BY DEF ActiveWithinLimits
    <2>4. active' <= n
      BY <1>1, <2>1, <2>2, <2>3 DEF Release
    <2> QED  BY <2>4 DEF ActiveWithinLimits
  <1> QED  BY <1>2, <1>3, <1>4, StepKinds

LEMMA InitLimit == Init => ActiveWithinLimits
  BY LimitsAssumption DEF Init, ActiveWithinLimits

LEMMA LimitOfCounter == SlotsAccounted /\ ActiveWithinLimits => LimitKept
  BY DEF SlotsAccounted, ActiveWithinLimits, LimitKept

\* No more synchronisations at once than some value of the setting allows,
\* however the setting moves and whatever number of accounts asks.
THEOREM LimitHolds == Spec => []LimitKept
  BY InitTypes, StepTypes, InitCounter, StepCounter, InitLimit, StepLimit, LimitOfCounter,
     PTL DEF Spec
=============================================================================
