-------------------------- MODULE FolderSync_proofs --------------------------
(***************************************************************************)
(* Safety of the incremental synchronisation for every number of mails,    *)
(* every batch size and depth, any number of faults, restarts and epochs.  *)
(*                                                                         *)
(* TypeInv, EpochInv, AnchorInv and ProgressInv build on each other: the   *)
(* types; whose epoch the rows and a round belong to; what is here below   *)
(* the anchor; what is here below the point a round has reached.  LocalInv *)
(* takes the place of the last two on servers without UIDNEXT, where the   *)
(* local maximum is the anchor.  NoticeInv is about announcements alone.   *)
(***************************************************************************)
EXTENDS FolderSync, FiniteSetTheorems, TLAPS

\* The parts of TypeOK that a step changes together.
ServerOK ==
    /\ box \subseteq UIDs
    /\ unext \in NextUIDs
    /\ \A u \in box : u < unext
    /\ epoch \in 1..MaxEpoch

RowsOK ==
    /\ rows \subseteq UIDs
    /\ stale \subseteq rows
    /\ removing \subseteq UIDs
    /\ fresh \subseteq rows
    /\ unseen \subseteq UIDs

\* What a round will save is in the range of the columns it saves it to.
RoundOK == s \in Rounds /\ s.next <= MaxUID + 1 /\ s.ep <= MaxEpoch

SavedOK ==
    /\ fv \in 0..MaxEpoch /\ fnext \in 0..(MaxUID + 1) /\ floor \in NextUIDs
    /\ reports \in Servers

BoundsOK == faults \in 0..MaxFaults /\ crashes \in 0..MaxCrashes

HistoryOK ==
    /\ deleted \subseteq UIDs /\ noticed \subseteq UIDs /\ passed \subseteq UIDs

TypeInv ==
    ServerOK /\ RowsOK /\ RoundOK /\ SavedOK /\ BoundsOK /\ HistoryOK

LEMMA TypeParts == TypeInv => TypeOK
  BY DEF TypeInv, TypeOK, ServerOK, RowsOK, RoundOK, SavedOK, BoundsOK, HistoryOK

----------------------------------------------------------------------------
(* Helpers *)

LEMMA RowCount == ASSUME RowsOK PROVE Cardinality(rows) \in Nat
  <1>1. IsFiniteSet(UIDs)
    BY MaxUIDAssumption, FS_Interval DEF UIDs
  <1> QED  BY <1>1, FS_Subset, FS_CardinalityType DEF RowsOK

LEMMA RoundTypes ==
    ASSUME ServerOK, NEW star \in BOOLEAN, NEW from \in Nat, NEW to \in Nat,
           NEW before \in Nat, NEW base \in BOOLEAN,
           s' = Round(star, from, to, before, base)
    PROVE  RoundOK'
  <1>1. unext \in Nat /\ unext <= MaxUID + 1 /\ epoch \in Nat /\ epoch <= MaxEpoch
    BY MaxUIDAssumption, LimitsAssumption DEF ServerOK, NextUIDs
  <1>2. Round(star, from, to, before, base) \in Rounds
    BY <1>1 DEF Round, Rounds, Steps
  <1> QED  BY <1>1, <1>2 DEF Round, RoundOK

LEMMA NoRoundTypes == ASSUME s' = NoRound PROVE RoundOK'
  BY MaxUIDAssumption, LimitsAssumption DEF NoRound, RoundOK, Rounds, Steps

LEMMA BatchInBox == Batch \subseteq box
  BY DEF Batch

LEMMA StoreTypes ==
    ASSUME ServerOK, RowsOK, NEW B \in SUBSET box, Store(B), UNCHANGED <<removing, unseen>>
    PROVE  RowsOK'
  BY DEF ServerOK, RowsOK, Store

LEMMA InitTypes == Init => TypeInv
  <1> SUFFICES ASSUME Init PROVE TypeInv
    OBVIOUS
  <1>1. ServerOK
    BY MaxUIDAssumption, LimitsAssumption DEF Init, ServerOK, UIDs, NextUIDs
  <1>2. RowsOK /\ HistoryOK
    BY DEF Init, RowsOK, HistoryOK
  <1>3. RoundOK
    BY MaxUIDAssumption, LimitsAssumption DEF Init, NoRound, RoundOK, Rounds, Steps
  <1>4. SavedOK /\ BoundsOK
    BY MaxUIDAssumption, LimitsAssumption DEF Init, SavedOK, BoundsOK, NextUIDs
  <1> QED  BY <1>1, <1>2, <1>3, <1>4 DEF TypeInv

LEMMA StepServer == ServerOK /\ [Next]_vars => ServerOK'
  <1> SUFFICES ASSUME ServerOK, [Next]_vars PROVE ServerOK'
    OBVIOUS
  <1> USE DEF server, folder, bounds, history
  <1>1. CASE \/ \E u \in UIDs : \/ UserDeletes(u) \/ RemovalAbandoned(u)
                                  \/ SearchStores(u)
             \/ BeginRange \/ BeginStar \/ BeginRecent \/ BeginRebuild
             \/ FetchBatch \/ FetchBreaks \/ Count \/ Rules \/ RulesFail \/ Save
             \/ SaveFails \/ Notify \/ Crash \/ UNCHANGED vars
    <2>1. UNCHANGED <<box, unext, epoch>>
      BY <1>1 DEF vars, BeginRange, BeginStar, BeginRecent, BeginRebuild, FetchBatch,
                  FetchBreaks, Count, Rules, RulesFail, Save, SaveFails, Notify,
                  UserDeletes, RemovalAbandoned, SearchStores, Crash
    <2> QED  BY <2>1 DEF ServerOK
  <1>2. ASSUME NEW u \in UIDs, RemovalSucceeds(u) PROVE ServerOK'
    BY <1>2 DEF RemovalSucceeds, ServerOK
  <1>3. ASSUME NEW u \in UIDs, OtherClientRemoves(u) PROVE ServerOK'
    BY <1>3 DEF OtherClientRemoves, ServerOK
  <1>4. ASSUME Arrive PROVE ServerOK'
    BY <1>4, MaxUIDAssumption DEF Arrive, ServerOK, UIDs, NextUIDs
  <1>5. ASSUME Renumber PROVE ServerOK'
    BY <1>5, MaxUIDAssumption, LimitsAssumption DEF Renumber, ServerOK, UIDs, NextUIDs
  <1> QED  BY <1>1, <1>2, <1>3, <1>4, <1>5 DEF Next

LEMMA StepRows == ServerOK /\ RowsOK /\ [Next]_vars => RowsOK'
  <1> SUFFICES ASSUME ServerOK, RowsOK, [Next]_vars PROVE RowsOK'
    OBVIOUS
  <1> USE DEF server, folder, bounds, history
  <1>1. CASE \/ \E u \in UIDs : OtherClientRemoves(u)
             \/ RulesFail \/ Save \/ SaveFails \/ Notify \/ Arrive
             \/ UNCHANGED vars
    <2>1. UNCHANGED <<rows, stale, removing, fresh, unseen>>
      BY <1>1 DEF vars, RulesFail, Save, SaveFails, Notify, OtherClientRemoves, Arrive
    <2> QED  BY <2>1 DEF RowsOK
  <1>2. ASSUME BeginRange PROVE RowsOK'
    BY <1>2 DEF BeginRange, RowsOK
  <1>3. ASSUME BeginStar PROVE RowsOK'
    BY <1>3 DEF BeginStar, RowsOK
  <1>4. ASSUME BeginRecent PROVE RowsOK'
    BY <1>4 DEF BeginRecent, RowsOK
  <1>5. ASSUME BeginRebuild PROVE RowsOK'
    BY <1>5 DEF BeginRebuild, RowsOK
  <1>6. ASSUME FetchBatch PROVE RowsOK'
    BY <1>6, BatchInBox, StoreTypes DEF FetchBatch
  <1>7. ASSUME FetchBreaks PROVE RowsOK'
    <2>1. \E k \in 0..MaxUID : Store({u \in Batch : u <= k})
      BY <1>7 DEF FetchBreaks
    <2>2. PICK k \in 0..MaxUID : Store({u \in Batch : u <= k})
      BY <2>1
    <2>3. {u \in Batch : u <= k} \in SUBSET box
      BY BatchInBox
    <2> QED  BY <1>7, <2>2, <2>3, StoreTypes DEF FetchBreaks
  <1>8. ASSUME Count PROVE RowsOK'
    <2>1. /\ UNCHANGED <<rows, stale, removing, fresh>>
          /\ unseen' = fresh \/ unseen' = {}
      BY <1>8 DEF Count
    <2> QED  BY <2>1 DEF RowsOK
  <1>9. ASSUME Rules PROVE RowsOK'
    BY <1>9 DEF Rules, RowsOK
  <1>10. ASSUME NEW u \in UIDs, UserDeletes(u) PROVE RowsOK'
    BY <1>10 DEF UserDeletes, RowsOK
  <1>11. ASSUME NEW u \in UIDs, RemovalSucceeds(u) PROVE RowsOK'
    BY <1>11 DEF RemovalSucceeds, RowsOK
  <1>12. ASSUME NEW u \in UIDs, RemovalAbandoned(u) PROVE RowsOK'
    BY <1>12 DEF RemovalAbandoned, RowsOK
  <1>13. ASSUME NEW u \in UIDs, SearchStores(u) PROVE RowsOK'
    <2>1. {u} \in SUBSET box /\ Store({u}) /\ UNCHANGED <<removing, unseen>>
      BY <1>13 DEF SearchStores
    <2> QED  BY <2>1, StoreTypes
  <1>14. ASSUME Renumber PROVE RowsOK'
    BY <1>14 DEF Renumber, RowsOK
  <1>15. ASSUME Crash PROVE RowsOK'
    <2>1. CASE s.pc = "fetch"
      <3>1. \E k \in 0..MaxUID : Store({u \in Batch : u <= k})
        BY <1>15, <2>1 DEF Crash
      <3>2. PICK k \in 0..MaxUID : Store({u \in Batch : u <= k})
        BY <3>1
      <3>3. {u \in Batch : u <= k} \in SUBSET box
        BY BatchInBox
      <3> QED  BY <1>15, <2>1, <3>2, <3>3, StoreTypes DEF Crash
    <2>2. CASE s.pc # "fetch"
      BY <1>15, <2>2 DEF Crash, RowsOK
    <2> QED  BY <2>1, <2>2
  <1> QED  BY <1>1, <1>2, <1>3, <1>4, <1>5, <1>6, <1>7, <1>8, <1>9, <1>10, <1>11, <1>12,
              <1>13, <1>14, <1>15 DEF Next

LEMMA StepRound == ServerOK /\ RowsOK /\ RoundOK /\ [Next]_vars => RoundOK'
  <1> SUFFICES ASSUME ServerOK, RowsOK, RoundOK, [Next]_vars PROVE RoundOK'
    OBVIOUS
  <1> USE DEF server, folder, bounds, history
  <1>1. CASE \/ \E u \in UIDs : \/ UserDeletes(u) \/ RemovalSucceeds(u) \/ RemovalAbandoned(u)
                                  \/ SearchStores(u) \/ OtherClientRemoves(u)
             \/ Arrive \/ Renumber \/ UNCHANGED vars
    <2>1. UNCHANGED s
      BY <1>1 DEF vars, UserDeletes, RemovalSucceeds, RemovalAbandoned, SearchStores,
                  OtherClientRemoves, Arrive, Renumber
    <2> QED  BY <2>1 DEF RoundOK
  <1>2. ASSUME BeginRange PROVE RoundOK'
    <2>1. PICK x \in NextUIDs :
               s' = Round(FALSE, x, unext - 1, Cardinality(rows), rows = {} /\ fnext = 0)
      BY <1>2 DEF BeginRange
    <2>2. x \in Nat /\ unext - 1 \in Nat /\ Cardinality(rows) \in Nat
      BY RowCount, MaxUIDAssumption DEF ServerOK, NextUIDs
    <2>3. (rows = {} /\ fnext = 0) \in BOOLEAN
      OBVIOUS
    <2> QED  BY <2>1, <2>2, <2>3, RoundTypes
  <1>3. ASSUME BeginStar PROVE RoundOK'
    <2>1. PICK x \in NextUIDs : s' = Round(TRUE, x, MaxUID, Cardinality(rows), FALSE)
      BY <1>3 DEF BeginStar
    <2>2. x \in Nat /\ MaxUID \in Nat /\ Cardinality(rows) \in Nat
      BY RowCount, MaxUIDAssumption DEF ServerOK, NextUIDs
    <2>3. (FALSE) \in BOOLEAN
      OBVIOUS
    <2> QED  BY <2>1, <2>2, <2>3, RoundTypes
  <1>4. ASSUME BeginRecent PROVE RoundOK'
    <2>1. PICK x \in NextUIDs : s' = Round(FALSE, x, unext - 1, 0, fnext = 0)
      BY <1>4 DEF BeginRecent
    <2>2. x \in Nat /\ unext - 1 \in Nat /\ 0 \in Nat
      BY RowCount, MaxUIDAssumption DEF ServerOK, NextUIDs
    <2>3. (fnext = 0) \in BOOLEAN
      OBVIOUS
    <2> QED  BY <2>1, <2>2, <2>3, RoundTypes
  <1>5. ASSUME BeginRebuild PROVE RoundOK'
    <2>1. PICK x \in NextUIDs : s' = Round(FALSE, x, (IF box = {} THEN 0 ELSE unext - 1), 0, TRUE)
      BY <1>5 DEF BeginRebuild
    <2>2. x \in Nat /\ (IF box = {} THEN 0 ELSE unext - 1) \in Nat /\ 0 \in Nat
      BY RowCount, MaxUIDAssumption DEF ServerOK, NextUIDs
    <2>3. (TRUE) \in BOOLEAN
      OBVIOUS
    <2> QED  BY <2>1, <2>2, <2>3, RoundTypes
  <1>6. ASSUME FetchBatch PROVE RoundOK'
    <2>1. s' \in {[s EXCEPT !.pc = "count"], [s EXCEPT !.from = @ + BatchSize]}
      BY <1>6 DEF FetchBatch
    <2> QED  BY <2>1, BatchSizeAssumption DEF RoundOK, Rounds, Steps
  <1>7. ASSUME FetchBreaks PROVE RoundOK'
    BY <1>7, NoRoundTypes DEF FetchBreaks
  <1>8. ASSUME Count PROVE RoundOK'
    <2>1. PICK n \in NextUIDs, q \in {"rules", "save"} :
               s' = [s EXCEPT !.pc = q, !.next = IF reports THEN @ ELSE n]
      BY <1>8 DEF Count
    <2>2. n \in Nat /\ n <= MaxUID + 1
      BY MaxUIDAssumption DEF NextUIDs
    <2> QED  BY <2>1, <2>2 DEF RoundOK, Rounds, Steps
  <1>9. ASSUME Rules PROVE RoundOK'
    <2>1. \E q \in Steps : s' = [s EXCEPT !.pc = q]
      BY <1>9 DEF Rules, Steps
    <2> QED  BY <2>1 DEF RoundOK, Rounds
  <1>10. ASSUME RulesFail PROVE RoundOK'
    <2>1. \E q \in Steps : s' = [s EXCEPT !.pc = q]
      BY <1>10 DEF RulesFail, Steps
    <2> QED  BY <2>1 DEF RoundOK, Rounds
  <1>11. ASSUME Save PROVE RoundOK'
    <2>1. \E q \in Steps : s' = [s EXCEPT !.pc = q]
      BY <1>11 DEF Save, Steps
    <2> QED  BY <2>1 DEF RoundOK, Rounds
  <1>12. ASSUME SaveFails PROVE RoundOK'
    <2>1. \E q \in Steps : s' = [s EXCEPT !.pc = q]
      BY <1>12 DEF SaveFails, Steps
    <2> QED  BY <2>1 DEF RoundOK, Rounds
  <1>13. ASSUME Notify PROVE RoundOK'
    BY <1>13, NoRoundTypes DEF Notify
  <1>14. ASSUME Crash PROVE RoundOK'
    BY <1>14, NoRoundTypes DEF Crash
  <1> QED  BY <1>1, <1>2, <1>3, <1>4, <1>5, <1>6, <1>7, <1>8, <1>9, <1>10, <1>11, <1>12,
              <1>13, <1>14 DEF Next

LEMMA StepSaved == RoundOK /\ SavedOK /\ [Next]_vars => SavedOK'
  <1> SUFFICES ASSUME RoundOK, SavedOK, [Next]_vars PROVE SavedOK'
    OBVIOUS
  <1> USE DEF server, folder, bounds, history
  <1>1. CASE \/ \E u \in UIDs : \/ UserDeletes(u) \/ RemovalSucceeds(u) \/ RemovalAbandoned(u)
                                  \/ SearchStores(u) \/ OtherClientRemoves(u)
             \/ BeginRange \/ BeginStar \/ FetchBatch \/ FetchBreaks \/ Count
             \/ Rules \/ RulesFail \/ SaveFails \/ Notify \/ Arrive \/ Crash
             \/ UNCHANGED vars
    <2>1. UNCHANGED <<fv, fnext, floor, reports>>
      BY <1>1 DEF vars, BeginRange, BeginStar, FetchBatch, FetchBreaks, Count, Rules,
                  RulesFail, SaveFails, Notify, UserDeletes, RemovalSucceeds,
                  RemovalAbandoned, SearchStores, OtherClientRemoves, Arrive, Crash
    <2> QED  BY <2>1 DEF SavedOK
  <1>2. ASSUME BeginRecent PROVE SavedOK'
    BY <1>2 DEF BeginRecent, SavedOK
  <1>3. ASSUME BeginRebuild PROVE SavedOK'
    BY <1>3 DEF BeginRebuild, SavedOK
  <1>4. ASSUME Save PROVE SavedOK'
    BY <1>4, MaxUIDAssumption, LimitsAssumption DEF Save, SavedOK, RoundOK, Rounds
  <1>5. ASSUME Renumber PROVE SavedOK'
    BY <1>5, MaxUIDAssumption DEF Renumber, SavedOK, NextUIDs
  <1> QED  BY <1>1, <1>2, <1>3, <1>4, <1>5 DEF Next

LEMMA StepBounds == BoundsOK /\ [Next]_vars => BoundsOK'
  <1> SUFFICES ASSUME BoundsOK, [Next]_vars PROVE BoundsOK'
    OBVIOUS
  <1> USE DEF server, folder, bounds, history
  <1>1. CASE \/ \E u \in UIDs : \/ UserDeletes(u) \/ RemovalSucceeds(u)
                                  \/ SearchStores(u) \/ OtherClientRemoves(u)
             \/ BeginRange \/ BeginStar \/ BeginRecent \/ BeginRebuild
             \/ FetchBatch \/ Count \/ Rules \/ Save \/ Notify \/ Arrive
             \/ Renumber \/ UNCHANGED vars
    <2>1. UNCHANGED <<faults, crashes>>
      BY <1>1 DEF vars, BeginRange, BeginStar, BeginRecent, BeginRebuild, FetchBatch, Count,
                  Rules, Save, Notify, UserDeletes, RemovalSucceeds, SearchStores,
                  OtherClientRemoves, Arrive, Renumber
    <2> QED  BY <2>1 DEF BoundsOK
  <1>2. ASSUME FetchBreaks PROVE BoundsOK'
    BY <1>2, LimitsAssumption DEF FetchBreaks, BoundsOK
  <1>3. ASSUME RulesFail PROVE BoundsOK'
    BY <1>3, LimitsAssumption DEF RulesFail, BoundsOK
  <1>4. ASSUME SaveFails PROVE BoundsOK'
    BY <1>4, LimitsAssumption DEF SaveFails, BoundsOK
  <1>5. ASSUME NEW u \in UIDs, RemovalAbandoned(u) PROVE BoundsOK'
    BY <1>5, LimitsAssumption DEF RemovalAbandoned, BoundsOK
  <1>6. ASSUME Crash PROVE BoundsOK'
    BY <1>6, LimitsAssumption DEF Crash, BoundsOK
  <1> QED  BY <1>1, <1>2, <1>3, <1>4, <1>5, <1>6 DEF Next

LEMMA StepHistory == ServerOK /\ RowsOK /\ HistoryOK /\ [Next]_vars => HistoryOK'
  <1> SUFFICES ASSUME ServerOK, RowsOK, HistoryOK, [Next]_vars PROVE HistoryOK'
    OBVIOUS
  <1> USE DEF server, folder, bounds, history
  <1>1. CASE \/ \E u \in UIDs : RemovalSucceeds(u) \/ OtherClientRemoves(u)
             \/ BeginStar \/ FetchBatch \/ FetchBreaks \/ Count \/ Save
             \/ SaveFails \/ Arrive \/ Crash \/ UNCHANGED vars
    <2>1. UNCHANGED <<deleted, noticed, passed>>
      BY <1>1 DEF vars, BeginStar, FetchBatch, FetchBreaks, Count, Save, SaveFails,
                  RemovalSucceeds, OtherClientRemoves, Arrive, Crash
    <2> QED  BY <2>1 DEF HistoryOK
  <1>2. ASSUME BeginRange PROVE HistoryOK'
    BY <1>2 DEF BeginRange, HistoryOK
  <1>3. ASSUME BeginRecent PROVE HistoryOK'
    BY <1>3 DEF BeginRecent, HistoryOK
  <1>4. ASSUME BeginRebuild PROVE HistoryOK'
    BY <1>4 DEF BeginRebuild, HistoryOK
  <1>5. ASSUME Rules PROVE HistoryOK'
    BY <1>5 DEF Rules, HistoryOK, RowsOK
  <1>6. ASSUME RulesFail PROVE HistoryOK'
    BY <1>6 DEF RulesFail, HistoryOK, RowsOK
  <1>7. ASSUME Notify PROVE HistoryOK'
    BY <1>7 DEF Notify, HistoryOK, RowsOK
  <1>8. ASSUME NEW u \in UIDs, UserDeletes(u) PROVE HistoryOK'
    BY <1>8 DEF UserDeletes, HistoryOK, RowsOK
  <1>9. ASSUME NEW u \in UIDs, RemovalAbandoned(u) PROVE HistoryOK'
    BY <1>9 DEF RemovalAbandoned, HistoryOK, RowsOK
  <1>10. ASSUME NEW u \in UIDs, SearchStores(u) PROVE HistoryOK'
    BY <1>10 DEF SearchStores, HistoryOK, ServerOK
  <1>11. ASSUME Renumber PROVE HistoryOK'
    BY <1>11 DEF Renumber, HistoryOK
  <1> QED  BY <1>1, <1>2, <1>3, <1>4, <1>5, <1>6, <1>7, <1>8, <1>9, <1>10, <1>11 DEF Next

LEMMA StepTypes == TypeInv /\ [Next]_vars => TypeInv'
  BY StepServer, StepRows, StepRound, StepSaved, StepBounds, StepHistory
     DEF TypeInv

\* The types hold for every number of mails, faults, restarts and epochs: what
\* is stored or saved is a UID that was given out, and no column leaves its
\* range.
THEOREM TypeCorrect == Spec => []TypeOK
  BY InitTypes, StepTypes, TypeParts, PTL DEF Spec

----------------------------------------------------------------------------
(* Epochs: what a round records is the epoch it worked in, and rows of an    *)
(* earlier one exist only until the rebuild begins.                          *)

EpochInv ==
    /\ fv <= epoch
    /\ s.pc # "idle" => s.ep = epoch
    /\ stale \subseteq passed \/ (s.pc = "idle" /\ fv # 0 /\ fv # epoch)

LEMMA InitEpoch == Init => EpochInv
  BY DEF Init, EpochInv, NoRound

LEMMA StepEpoch == TypeInv /\ EpochInv /\ [Next]_vars => EpochInv'
  <1> SUFFICES ASSUME TypeInv, EpochInv, [Next]_vars PROVE EpochInv'
    OBVIOUS
  <1> USE DEF server, folder, bounds, history
  <1> USE DEF TypeInv, ServerOK, RowsOK, RoundOK, SavedOK, Rounds
  <1>1. CASE \/ \E u \in UIDs : RemovalSucceeds(u) \/ RemovalAbandoned(u) \/ OtherClientRemoves(u)
             \/ Arrive \/ UNCHANGED vars
    <2>1. UNCHANGED <<fv, epoch, s, stale, passed>>
      BY <1>1 DEF vars, RemovalSucceeds, RemovalAbandoned, OtherClientRemoves, Arrive
    <2> QED  BY <2>1 DEF EpochInv
  <1>2. ASSUME BeginRange PROVE EpochInv'
    BY <1>2 DEF BeginRange, EpochInv, Round, Rebuilding
  <1>3. ASSUME BeginStar PROVE EpochInv'
    BY <1>3 DEF BeginStar, EpochInv, Round, Rebuilding
  <1>4. ASSUME BeginRecent PROVE EpochInv'
    BY <1>4 DEF BeginRecent, EpochInv, Round, Rebuilding
  <1>5. ASSUME BeginRebuild PROVE EpochInv'
    BY <1>5 DEF BeginRebuild, EpochInv, Round, Rebuilding
  <1>6. ASSUME FetchBatch PROVE EpochInv'
    BY <1>6 DEF FetchBatch, EpochInv, Store
  <1>7. ASSUME FetchBreaks PROVE EpochInv'
    BY <1>7 DEF FetchBreaks, EpochInv, Store, NoRound
  <1>8. ASSUME Count PROVE EpochInv'
    BY <1>8 DEF Count, EpochInv
  <1>9. ASSUME Rules PROVE EpochInv'
    BY <1>9 DEF Rules, EpochInv
  <1>10. ASSUME RulesFail PROVE EpochInv'
    BY <1>10 DEF RulesFail, EpochInv
  <1>11. ASSUME Save PROVE EpochInv'
    BY <1>11 DEF Save, EpochInv
  <1>12. ASSUME SaveFails PROVE EpochInv'
    BY <1>12 DEF SaveFails, EpochInv
  <1>13. ASSUME Notify PROVE EpochInv'
    BY <1>13 DEF Notify, EpochInv, Store, NoRound
  <1>14. ASSUME NEW u \in UIDs, UserDeletes(u) PROVE EpochInv'
    BY <1>14 DEF UserDeletes, EpochInv
  <1>15. ASSUME NEW u \in UIDs, SearchStores(u) PROVE EpochInv'
    BY <1>15 DEF SearchStores, EpochInv, Store
  <1>16. ASSUME Renumber PROVE EpochInv'
    <2>1. fv <= epoch /\ fv' = fv /\ epoch' = epoch + 1 /\ s' = s /\ s.pc = "idle" /\ stale' = rows
      BY <1>16 DEF Renumber, EpochInv
    <2>2. fv \in Nat /\ epoch \in Nat /\ rows \subseteq UIDs /\ UIDs \subseteq Nat
      BY LimitsAssumption, MaxUIDAssumption DEF UIDs
    <2>3. CASE fv = 0
      <3>1. passed' = {u \in UIDs : \E v \in rows : u <= v}
        BY <1>16, <2>3 DEF Renumber
      <3>2. rows \subseteq passed'
        BY <2>2, <3>1
      <3> QED  BY <2>1, <2>2, <3>2 DEF EpochInv
    <2>4. CASE fv # 0
      BY <2>1, <2>2, <2>4 DEF EpochInv
    <2> QED  BY <2>3, <2>4
  <1>17. ASSUME Crash PROVE EpochInv'
    BY <1>17 DEF Crash, EpochInv, Store, NoRound
  <1> QED  BY <1>1, <1>2, <1>3, <1>4, <1>5, <1>6, <1>7, <1>8, <1>9, <1>10, <1>11, <1>12,
              <1>13, <1>14, <1>15, <1>16, <1>17 DEF Next

\* Rows of two UIDVALIDITY epochs are never mixed, but for those that came in
\* before any epoch was recorded.
THEOREM EpochsNeverMix == Spec => []OneEpoch
  <1>1. Init => TypeInv /\ EpochInv
    BY InitTypes, InitEpoch
  <1>2. TypeInv /\ EpochInv /\ [Next]_vars => TypeInv' /\ EpochInv'
    BY StepTypes, StepEpoch
  <1>3. EpochInv => OneEpoch
    BY DEF EpochInv, OneEpoch
  <1> QED  BY <1>1, <1>2, <1>3, PTL DEF Spec

----------------------------------------------------------------------------
(* The anchor, on a server that reports UIDNEXT                              *)

\* Everything on the server below n is here (or was deleted here, or lies
\* beyond the depth of the import).
Kept(n) == \A u \in box : floor <= u /\ u < n => u \in rows \cup deleted \cup passed

\* Nothing up to v is looked for any more.
Passed(v) == \A u \in UIDs : u <= v => u \in passed

\* Before the first import is saved the local maximum stands in for the anchor.
NoGap ==
    /\ floor = 1
    /\ \A v \in rows : v < unext \/ Passed(v)
    /\ \A v \in rows, u \in box : u <= v => u \in rows \cup deleted \cup passed

AnchorInv ==
    /\ fv = 0 <=> fnext = 0
    /\ fv = 0 => NoGap
    /\ fv = epoch => fnext <= unext /\ Kept(fnext)

\* What the round in progress may rely on.
ProgressInv ==
    /\ s.pc # "idle" =>
         /\ ~s.star /\ 0 < s.next /\ s.next <= unext
         /\ \A u \in box : u < s.next => u <= s.to
    /\ s.pc = "fetch" => s.from <= s.to /\ s.to < unext /\ Kept(s.from)
    /\ s.pc \in {"count", "rules", "save"} => Kept(s.next)

IInv == TypeInv /\ EpochInv /\ AnchorInv /\ ProgressInv

LEMMA InitAnchor == Init => AnchorInv /\ ProgressInv
  BY LimitsAssumption DEF Init, AnchorInv, ProgressInv, NoGap, NoRound, Passed

\* Storing more loses nothing.
LEMMA StoreKeeps ==
    ASSUME NEW n, Kept(n), NEW B, Store(B), UNCHANGED <<box, floor, deleted, passed>>
    PROVE  \A u \in box' : floor' <= u /\ u < n => u \in rows' \cup deleted' \cup passed'
  BY DEF Kept, Store

\* A mail the user deletes stays accounted for; rows of an earlier epoch, which
\* wait for the rebuild, are not.
LEMMA DeletionAccounted ==
    ASSUME TypeInv, EpochInv, NEW u \in UIDs, UserDeletes(u),
           s.pc # "idle" \/ fv = 0 \/ fv = epoch
    PROVE  rows \cup deleted \cup passed \subseteq rows' \cup deleted' \cup passed'
  <1>1. u \in stale => u \in passed
    BY DEF EpochInv
  <1> QED  BY <1>1 DEF UserDeletes

\* What a search stores, where the rows are the anchor, leaves no gap: what it
\* has passed is written down.
LEMMA SearchPasses ==
    ASSUME TypeInv, NEW u \in UIDs, SearchStores(u), RowsAreAnchor, NEW w \in box,
           NEW v \in rows', w <= v, v \in rows => w \in rows \cup deleted \cup passed
    PROVE  w \in rows' \cup deleted' \cup passed'
  <1>1. rows' = rows \cup {u} /\ deleted' = deleted /\ passed' = passed \cup {x \in box \ rows : x < u}
    BY DEF SearchStores, Store
  <1>2. u \in Nat /\ w \in Nat
    BY MaxUIDAssumption DEF TypeInv, ServerOK, UIDs
  <1>3. CASE v \in rows
    BY <1>1, <1>3
  <1>4. CASE v = u
    BY <1>1, <1>2, <1>4
  <1> QED  BY <1>1, <1>3, <1>4

\* A batch, or the lower part of one, leaves no gap below what it stored.
LEMMA StoreNoGap ==
    ASSUME TypeInv, ProgressInv, NoGap, s.pc = "fetch",
           NEW k \in 0..MaxUID, Store({u \in Batch : u <= k}),
           UNCHANGED <<box, unext, floor, deleted, passed>>
    PROVE  NoGap'
  <1>1. /\ box \subseteq 1..MaxUID /\ MaxUID \in Nat /\ rows \subseteq 1..MaxUID
        /\ s.from \in Nat /\ s.to \in Nat /\ \A u \in box : u < unext
    BY MaxUIDAssumption DEF TypeInv, ServerOK, RowsOK, RoundOK, Rounds, UIDs
  <1>2. /\ ~s.star /\ Kept(s.from)
    BY DEF ProgressInv
  <1>3. \A v \in rows' : v < unext' \/ Passed(v)'
    BY <1>1, BatchInBox DEF Store, NoGap, Passed
  <1>4. ASSUME NEW v \in rows', NEW u \in box, u <= v PROVE u \in rows' \cup deleted \cup passed
    <2>1. CASE v \in rows
      BY <1>4, <2>1 DEF NoGap, Store, Passed
    <2>2. CASE v \notin rows /\ u < s.from
      BY <1>1, <1>2, <2>2 DEF Kept, NoGap, Store, Passed
    <2>3. CASE v \notin rows /\ ~(u < s.from)
      <3>1. v \in Batch /\ v <= k
        BY <2>3 DEF Store
      <3>2. u \in Batch
        BY <1>1, <1>2, <1>4, <2>3, <3>1, BatchSizeAssumption DEF Batch
      <3>3. u <= k
        BY <1>1, <1>4, <3>1, BatchInBox
      <3> QED  BY <3>2, <3>3 DEF Store
    <2> QED  BY <2>1, <2>2, <2>3
  <1> QED  BY <1>3, <1>4 DEF NoGap, Passed

\* The whole batch is its part up to the largest UID.
LEMMA WholeBatch == ASSUME TypeInv PROVE Batch = {u \in Batch : u <= MaxUID}
  <1>1. \A u \in Batch : u <= MaxUID
    BY BatchInBox, MaxUIDAssumption DEF TypeInv, ServerOK, UIDs
  <1> QED  BY <1>1

\* What the round reads about the anchor when it begins.
LEMMA RangeBegins ==
    ASSUME TypeInv, AnchorInv, ~Rebuilding, NEW a \in NextUIDs,
           IF fnext = 0 THEN NextAfter(a, rows) ELSE a = fnext
    PROVE  Kept(a)
  <1>1. CASE fv = 0
    <2>1. NextAfter(a, rows) /\ NoGap
      BY <1>1 DEF AnchorInv
    <2>2. ASSUME NEW u \in box, u < a PROVE u \in rows \cup deleted \cup passed
      <3>1. u \in Nat /\ a \in Nat /\ u >= 1
        BY MaxUIDAssumption DEF TypeInv, ServerOK, UIDs, NextUIDs
      <3>2. a - 1 \in rows /\ u <= a - 1
        BY <2>1, <2>2, <3>1 DEF NextAfter
      <3> QED  BY <2>1, <3>2 DEF NoGap, Passed
    <2> QED  BY <2>2 DEF Kept
  <1>2. CASE fv # 0
    <2>1. fv = epoch /\ a = fnext
      BY <1>2 DEF Rebuilding, AnchorInv
    <2> QED  BY <2>1 DEF AnchorInv
  <1> QED  BY <1>1, <1>2

LEMMA StoredAnchor ==
    ASSUME IInv, s.pc = "fetch", \E k \in 0..MaxUID : Store({u \in Batch : u <= k}),
           UNCHANGED <<box, unext, floor, deleted, passed, fv, fnext, epoch>>
    PROVE  AnchorInv'
  <1>1. fv = 0 => NoGap'
    BY StoreNoGap DEF IInv, AnchorInv
  <1>2. fv = epoch => fnext <= unext /\ Kept(fnext)'
    BY StoreKeeps DEF IInv, AnchorInv, Kept
  <1> QED  BY <1>1, <1>2 DEF IInv, AnchorInv, Kept

LEMMA StepAnchor == reports /\ IInv /\ [Next]_vars => AnchorInv'
  <1> SUFFICES ASSUME reports, IInv, [Next]_vars PROVE AnchorInv'
    OBVIOUS
  <1>0. reports
    OBVIOUS
  <1> USE DEF server, folder, bounds, history
  <1> USE DEF IInv
  <1>1. CASE \/ \E u \in UIDs : RemovalAbandoned(u)
             \/ BeginRange \/ Count \/ RulesFail \/ SaveFails \/ Notify
             \/ UNCHANGED vars
    <2>1. UNCHANGED <<fv, fnext, epoch, floor, rows, deleted, passed, box, unext>>
      BY <1>1 DEF vars, BeginRange, Count, RulesFail, SaveFails, Notify, RemovalAbandoned
    <2> QED  BY <2>1 DEF AnchorInv, NoGap, Kept, Passed
  <1>2. ASSUME BeginStar PROVE AnchorInv'
    BY <1>0, <1>2 DEF BeginStar
  <1>3. ASSUME BeginRecent PROVE AnchorInv'
    BY <1>0, <1>3 DEF BeginRecent
  <1>4. ASSUME BeginRebuild PROVE AnchorInv'
    <2>1. fv # 0 /\ fv # epoch /\ UNCHANGED <<fv, fnext, epoch>>
      BY <1>4 DEF BeginRebuild, Rebuilding
    <2> QED  BY <2>1 DEF AnchorInv
  <1>5. ASSUME FetchBatch PROVE AnchorInv'
    <2>1. /\ UNCHANGED <<box, unext, floor, deleted, passed, fv, fnext, epoch>> /\ s.pc = "fetch"
          /\ Store({u \in Batch : u <= MaxUID}) /\ MaxUID \in 0..MaxUID
      BY <1>5, WholeBatch, MaxUIDAssumption DEF FetchBatch
    <2> QED  BY <2>1, StoredAnchor
  <1>6. ASSUME FetchBreaks PROVE AnchorInv'
    <2>1. /\ UNCHANGED <<box, unext, floor, deleted, passed, fv, fnext, epoch>> /\ s.pc = "fetch"
          /\ \E k \in 0..MaxUID : Store({u \in Batch : u <= k})
      BY <1>6 DEF FetchBreaks
    <2> QED  BY <2>1, StoredAnchor
  <1>7. ASSUME Rules PROVE AnchorInv'
    <2>1. /\ UNCHANGED <<box, unext, floor, passed, fv, fnext, epoch>>
          /\ rows' \subseteq rows /\ rows \cup deleted \cup passed \subseteq rows' \cup deleted' \cup passed'
      BY <1>7 DEF Rules
    <2> QED  BY <2>1 DEF AnchorInv, NoGap, Kept, Passed
  <1>8. ASSUME Save PROVE AnchorInv'
    <2>1. /\ UNCHANGED <<box, unext, floor, rows, deleted, passed, epoch>>
          /\ fv' = epoch /\ fnext' = s.next
      BY <1>8 DEF Save, EpochInv
    <2>2. 0 < s.next /\ s.next <= unext /\ Kept(s.next)
      BY <1>8 DEF Save, ProgressInv
    <2>3. epoch # 0
      BY DEF TypeInv, ServerOK
    <2> QED  BY <2>1, <2>2, <2>3 DEF AnchorInv, Kept
  <1>9. ASSUME NEW u \in UIDs, UserDeletes(u) PROVE AnchorInv'
    <2>1. /\ UNCHANGED <<box, unext, floor, passed, fv, fnext, epoch>> /\ rows' \subseteq rows
      BY <1>9 DEF UserDeletes
    <2>2. CASE fv # 0 /\ fv # epoch
      BY <2>1, <2>2 DEF AnchorInv
    <2>3. CASE fv = 0 \/ fv = epoch
      <3>1. rows \cup deleted \cup passed \subseteq rows' \cup deleted' \cup passed'
        BY <1>9, <2>3, DeletionAccounted
      <3> QED  BY <2>1, <3>1 DEF AnchorInv, NoGap, Kept, Passed
    <2> QED  BY <2>2, <2>3
  <1>10. ASSUME NEW u \in UIDs, RemovalSucceeds(u) PROVE AnchorInv'
    BY <1>10 DEF RemovalSucceeds, AnchorInv, NoGap, Kept, Passed
  <1>11. ASSUME NEW u \in UIDs, SearchStores(u) PROVE AnchorInv'
    <2>1. /\ UNCHANGED <<box, unext, floor, deleted, fv, fnext, epoch>> /\ passed \subseteq passed'
          /\ rows' = rows \cup {u} /\ u \in box
      BY <1>11 DEF SearchStores, Store
    <2>2. fnext <= unext /\ Kept(fnext) => fnext' <= unext' /\ Kept(fnext)'
      BY <2>1 DEF Kept
    <2>3. ASSUME fv = 0 PROVE NoGap'
      <3>1. NoGap /\ RowsAreAnchor
        BY <2>3 DEF AnchorInv, RowsAreAnchor
      <3>2. \A v \in rows' : v < unext' \/ Passed(v)'
        BY <2>1, <3>1 DEF NoGap, Passed, TypeInv, ServerOK
      <3>3. \A v \in rows', w \in box : w <= v => w \in rows' \cup deleted' \cup passed'
        BY <1>11, <3>1, SearchPasses DEF NoGap
      <3> QED  BY <2>1, <3>1, <3>2, <3>3 DEF NoGap
    <2> QED  BY <2>1, <2>2, <2>3 DEF AnchorInv, Kept
  <1>12. ASSUME NEW u \in UIDs, OtherClientRemoves(u) PROVE AnchorInv'
    BY <1>12 DEF OtherClientRemoves, AnchorInv, NoGap, Kept, Passed
  <1>13. ASSUME Arrive PROVE AnchorInv'
    <2>1. /\ UNCHANGED <<floor, rows, deleted, passed, fv, fnext, epoch>>
          /\ box' = box \cup {unext} /\ unext' = unext + 1
      BY <1>13 DEF Arrive
    <2>2. unext \in Nat /\ fnext \in Nat /\ rows \subseteq Nat
      BY MaxUIDAssumption DEF TypeInv, ServerOK, RowsOK, SavedOK, UIDs, NextUIDs
    <2>3. NoGap => NoGap'
      <3>1. ASSUME NoGap, NEW v \in rows, unext <= v PROVE unext \in passed
        <4>1. unext \in UIDs
          BY <1>13, <2>2, MaxUIDAssumption DEF Arrive, UIDs, TypeInv, ServerOK, NextUIDs
        <4> QED  BY <2>2, <3>1, <4>1 DEF NoGap, Passed
      <3> QED  BY <2>1, <2>2, <3>1 DEF NoGap, Passed
    <2>4. fnext <= unext /\ Kept(fnext) => fnext' <= unext' /\ Kept(fnext)'
      BY <2>1, <2>2 DEF Kept
    <2> QED  BY <2>1, <2>3, <2>4 DEF AnchorInv, Kept
  <1>14. ASSUME Renumber PROVE AnchorInv'
    <2>1. /\ UNCHANGED <<fv, fnext, rows>> /\ epoch' = epoch + 1 /\ floor' = 1
          /\ box' \subseteq UIDs
      BY <1>14, MaxUIDAssumption DEF Renumber, UIDs
    <2>2. fv <= epoch /\ fv \in Nat /\ epoch \in Nat
      BY LimitsAssumption DEF EpochInv, TypeInv, ServerOK, SavedOK
    <2>3. ASSUME fv = 0 PROVE NoGap'
      <3>1. passed' = {u \in UIDs : \E v \in rows : u <= v}
        BY <1>14, <2>3 DEF Renumber
      <3> QED  BY <2>1, <3>1 DEF NoGap, Passed
    <2> QED  BY <2>1, <2>2, <2>3 DEF AnchorInv
  <1>15. ASSUME Crash PROVE AnchorInv'
    <2>1. UNCHANGED <<box, unext, floor, deleted, passed, fv, fnext, epoch>>
      BY <1>15 DEF Crash
    <2>2. CASE s.pc = "fetch"
      <3>1. \E k \in 0..MaxUID : Store({u \in Batch : u <= k})
        BY <1>15, <2>2 DEF Crash
      <3> QED  BY <2>1, <2>2, <3>1, StoredAnchor
    <2>3. CASE s.pc # "fetch"
      <3>1. rows' = rows
        BY <1>15, <2>3 DEF Crash
      <3> QED  BY <2>1, <3>1 DEF AnchorInv, NoGap, Kept, Passed
    <2> QED  BY <2>2, <2>3
  <1> QED  BY <1>1, <1>2, <1>3, <1>4, <1>5, <1>6, <1>7, <1>8, <1>9, <1>10, <1>11, <1>12,
              <1>13, <1>14, <1>15 DEF Next

\* The step of a round that only moves its program counter on.
LEMMA RoundGoesOn ==
    ASSUME ProgressInv, NEW q \in {"rules", "save", "notify"}, s.pc \in {"count", "rules", "save"},
           s' = [s EXCEPT !.pc = q], s \in Rounds,
           UNCHANGED <<box, unext, floor>>,
                       rows \cup deleted \cup passed \subseteq rows' \cup deleted' \cup passed'
    PROVE  ProgressInv'
  <1>1. /\ s'.pc = q /\ s'.star = s.star /\ s'.next = s.next /\ s'.to = s.to
    BY DEF Rounds
  <1>2. Kept(s.next)
    BY DEF ProgressInv
  <1>3. \A u \in box' : floor' <= u /\ u < s.next => u \in rows' \cup deleted' \cup passed'
    BY <1>2 DEF Kept
  <1> QED  BY <1>1, <1>3 DEF ProgressInv, Kept

\* A round that ends, in whatever way.
LEMMA RoundIsOver == ASSUME s' = NoRound PROVE ProgressInv'
  BY DEF NoRound, ProgressInv

\* A round that begins with a range of which nothing is missing below.
LEMMA RoundStarts ==
    ASSUME IInv, UNCHANGED <<box, unext>>, NEW from \in Nat, NEW to \in Nat,
           NEW before, NEW base, s' = Round(FALSE, from, to, before, base),
           \A u \in box : u <= to, to < unext,
           \A u \in box' : floor' <= u /\ u < from => u \in rows' \cup deleted' \cup passed'
    PROVE  ProgressInv'
  <1>1. /\ s'.pc = (IF from <= to THEN "fetch" ELSE "count") /\ ~s'.star
        /\ s'.next = unext /\ s'.from = from /\ s'.to = to
    BY DEF Round
  <1>2. unext \in Nat /\ 0 < unext /\ unext' = unext /\ box' = box /\ box \subseteq Nat
    BY MaxUIDAssumption DEF IInv, TypeInv, ServerOK, UIDs, NextUIDs
  <1>3. /\ ~s'.star /\ 0 < s'.next /\ s'.next <= unext'
        /\ \A u \in box' : u < s'.next => u <= s'.to
    <2>1. ~s'.star
      BY <1>1
    <2>2. 0 < s'.next /\ s'.next <= unext'
      <3>1. s'.next = unext /\ unext' = unext
        BY <1>1, <1>2
      <3>2. 0 < unext /\ unext <= unext
        BY <1>2
      <3> QED  BY <3>1, <3>2
    <2>3. \A u \in box' : u <= s'.to
      BY <1>1, <1>2
    <2> QED  BY <2>1, <2>2, <2>3
  <1>4. s'.pc = "fetch" => s'.from <= s'.to /\ s'.to < unext'
    BY <1>1, <1>2
  <1>5. s'.pc = "fetch" => \A u \in box' : floor' <= u /\ u < s'.from => u \in rows' \cup deleted' \cup passed'
    BY <1>1
  <1>6. s'.pc \in {"count", "rules", "save"} =>
            \A u \in box' : floor' <= u /\ u < s'.next => u \in rows' \cup deleted' \cup passed'
    <2>1. CASE from <= to
      BY <1>1, <2>1
    <2>2. CASE ~(from <= to)
      <3>1. \A u \in box' : u < from
        BY <1>2, <2>2
      <3> QED  BY <3>1
    <2> QED  BY <2>1, <2>2
  <1> QED  BY <1>3, <1>4, <1>5, <1>6 DEF ProgressInv, Kept

LEMMA StepProgress == reports /\ IInv /\ [Next]_vars => ProgressInv'
  <1> SUFFICES ASSUME reports, IInv, [Next]_vars PROVE ProgressInv'
    OBVIOUS
  <1>0. reports
    OBVIOUS
  <1> USE DEF server, folder, bounds, history
  <1> USE DEF IInv
  <1>1. CASE \/ \E u \in UIDs : RemovalAbandoned(u)
             \/ UNCHANGED vars
    <2>1. UNCHANGED <<s, box, rows, deleted, passed, floor, unext>>
      BY <1>1 DEF vars, RemovalAbandoned
    <2> QED  BY <2>1 DEF ProgressInv, Kept
  <1>2. ASSUME BeginRange PROVE ProgressInv'
    <2>1. PICK a \in NextUIDs :
               /\ IF fnext = 0 THEN NextAfter(a, rows) ELSE a = fnext
               /\ s' = Round(FALSE, a, unext - 1, Cardinality(rows), rows = {} /\ fnext = 0)
      BY <1>2 DEF BeginRange
    <2>2. UNCHANGED <<box, unext, floor, rows, deleted, passed>> /\ ~Rebuilding
      BY <1>2 DEF BeginRange
    <2>3. Kept(a)
      BY <2>1, <2>2, RangeBegins
    <2>4. /\ a \in Nat /\ unext - 1 \in Nat /\ unext - 1 < unext
          /\ \A u \in box : u <= unext - 1
      BY MaxUIDAssumption DEF TypeInv, ServerOK, RowsOK, SavedOK, RoundOK, Rounds, UIDs, NextUIDs
    <2>5. \A u \in box' : floor' <= u /\ u < a => u \in rows' \cup deleted' \cup passed'
      BY <2>2, <2>3 DEF Kept
    <2> QED  BY <2>1, <2>2, <2>4, <2>5, RoundStarts
  <1>3. ASSUME BeginStar PROVE ProgressInv'
    BY <1>0, <1>3 DEF BeginStar
  <1>4. ASSUME BeginRecent PROVE ProgressInv'
    BY <1>0, <1>4 DEF BeginRecent
  <1>5. ASSUME BeginRebuild PROVE ProgressInv'
    <2>1. PICK a \in NextUIDs : /\ floor' = a
                               /\ s' = Round(FALSE, a, IF box = {} THEN 0 ELSE unext - 1, 0, TRUE)
      BY <1>5 DEF BeginRebuild
    <2>2. UNCHANGED <<box, unext>>
      BY <1>5 DEF BeginRebuild
    <2> DEFINE to == IF box = {} THEN 0 ELSE unext - 1
    <2>3. a \in Nat /\ to \in Nat /\ to < unext /\ (\A u \in box : u <= to) /\ box \subseteq Nat
      BY MaxUIDAssumption DEF TypeInv, ServerOK, RowsOK, SavedOK, RoundOK, Rounds, UIDs, NextUIDs
    <2>4. \A u \in box' : floor' <= u /\ u < a => u \in rows' \cup deleted' \cup passed'
      BY <2>1, <2>2, <2>3
    <2>5. s' = Round(FALSE, a, to, 0, TRUE)
      BY <2>1
    <2> HIDE DEF to
    <2> QED  BY <2>2, <2>3, <2>4, <2>5, RoundStarts
  <1>6. ASSUME FetchBatch PROVE ProgressInv'
    <2>1. /\ s.pc = "fetch" /\ Store(Batch) /\ UNCHANGED <<box, unext, floor, deleted, passed>>
      BY <1>6 DEF FetchBatch
    <2>2. /\ ~s.star /\ Kept(s.from) /\ s.from <= s.to /\ s.to < unext
          /\ 0 < s.next /\ s.next <= unext /\ \A u \in box : u < s.next => u <= s.to
      BY <2>1 DEF ProgressInv
    <2>3. /\ s \in Rounds /\ s.from \in Nat /\ s.to \in Nat /\ s.next \in Nat /\ unext \in Nat
          /\ box \subseteq Nat /\ BatchSize \in Nat
      BY MaxUIDAssumption, BatchSizeAssumption
         DEF TypeInv, ServerOK, RowsOK, SavedOK, RoundOK, Rounds, UIDs, NextUIDs
    <2>4. ASSUME NEW u \in box, floor <= u, u < s.from + BatchSize, u <= s.to
          PROVE  u \in rows' \cup deleted' \cup passed'
      <3>1. CASE u < s.from
        BY <2>1, <2>2, <2>4, <3>1 DEF Kept, Store
      <3>2. CASE ~(u < s.from)
        <4>1. u \in Batch
          BY <2>2, <2>3, <2>4, <3>2 DEF Batch
        <4> QED  BY <2>1, <4>1 DEF Store
      <3> QED  BY <3>1, <3>2
    <2>5. CASE s.from + BatchSize > s.to
      <3>1. s' = [s EXCEPT !.pc = "count"]
        BY <1>6, <2>5 DEF FetchBatch
      <3>2. /\ s'.pc = "count" /\ s'.star = s.star /\ s'.next = s.next /\ s'.to = s.to
        BY <2>3, <3>1 DEF Rounds
      <3>3. \A u \in box' : floor' <= u /\ u < s'.next => u \in rows' \cup deleted' \cup passed'
        BY <2>1, <2>2, <2>3, <2>4, <2>5, <3>2
      <3> QED  BY <2>1, <2>2, <3>2, <3>3 DEF ProgressInv, Kept
    <2>6. CASE ~(s.from + BatchSize > s.to)
      <3>1. s' = [s EXCEPT !.from = @ + BatchSize]
        BY <1>6, <2>2, <2>6 DEF FetchBatch
      <3>2. /\ s'.pc = "fetch" /\ s'.star = s.star /\ s'.next = s.next /\ s'.to = s.to
            /\ s'.from = s.from + BatchSize
        BY <2>1, <2>3, <3>1 DEF Rounds
      <3>3. \A u \in box' : floor' <= u /\ u < s'.from => u \in rows' \cup deleted' \cup passed'
        BY <2>1, <2>3, <2>4, <2>6, <3>2
      <3>4. s'.from <= s'.to /\ s'.to < unext'
        BY <2>1, <2>2, <2>3, <2>6, <3>2
      <3> QED  BY <2>1, <2>2, <3>2, <3>3, <3>4 DEF ProgressInv, Kept
    <2> QED  BY <2>5, <2>6
  <1>7. ASSUME FetchBreaks PROVE ProgressInv'
    BY <1>7, RoundIsOver DEF FetchBreaks
  <1>8. ASSUME Count PROVE ProgressInv'
    <2>1. PICK n \in NextUIDs, q \in {"rules", "save"} : s' = [s EXCEPT !.pc = q, !.next = s.next]
      BY <1>0, <1>8 DEF Count
    <2>2. s \in Rounds
      BY DEF TypeInv, RoundOK
    <2>3. s' = [s EXCEPT !.pc = q]
      BY <2>1, <2>2 DEF Rounds
    <2>4. s.pc = "count" /\ UNCHANGED <<box, unext, floor, rows, deleted, passed>>
      BY <1>8 DEF Count
    <2> QED  BY <2>2, <2>3, <2>4, RoundGoesOn
  <1>9. ASSUME Rules PROVE ProgressInv'
    <2>1. PICK q \in {"rules", "save", "notify"} : s' = [s EXCEPT !.pc = q]
      BY <1>9 DEF Rules
    <2>2. /\ s.pc \in {"count", "rules", "save"} /\ UNCHANGED <<box, unext, floor>>
          /\ rows \cup deleted \cup passed \subseteq rows' \cup deleted' \cup passed'
      BY <1>9 DEF Rules
    <2>3. s \in Rounds
      BY DEF TypeInv, RoundOK
    <2> QED  BY <2>1, <2>2, <2>3, RoundGoesOn
  <1>10. ASSUME RulesFail PROVE ProgressInv'
    <2>1. PICK q \in {"rules", "save", "notify"} : s' = [s EXCEPT !.pc = q]
      BY <1>10 DEF RulesFail
    <2>2. /\ s.pc \in {"count", "rules", "save"} /\ UNCHANGED <<box, unext, floor>>
          /\ rows \cup deleted \cup passed \subseteq rows' \cup deleted' \cup passed'
      BY <1>10 DEF RulesFail
    <2>3. s \in Rounds
      BY DEF TypeInv, RoundOK
    <2> QED  BY <2>1, <2>2, <2>3, RoundGoesOn
  <1>11. ASSUME Save PROVE ProgressInv'
    <2>1. PICK q \in {"rules", "save", "notify"} : s' = [s EXCEPT !.pc = q]
      BY <1>11 DEF Save
    <2>2. /\ s.pc \in {"count", "rules", "save"} /\ UNCHANGED <<box, unext, floor>>
          /\ rows \cup deleted \cup passed \subseteq rows' \cup deleted' \cup passed'
      BY <1>11 DEF Save
    <2>3. s \in Rounds
      BY DEF TypeInv, RoundOK
    <2> QED  BY <2>1, <2>2, <2>3, RoundGoesOn
  <1>12. ASSUME SaveFails PROVE ProgressInv'
    <2>1. PICK q \in {"rules", "save", "notify"} : s' = [s EXCEPT !.pc = q]
      BY <1>12 DEF SaveFails
    <2>2. /\ s.pc \in {"count", "rules", "save"} /\ UNCHANGED <<box, unext, floor>>
          /\ rows \cup deleted \cup passed \subseteq rows' \cup deleted' \cup passed'
      BY <1>12 DEF SaveFails
    <2>3. s \in Rounds
      BY DEF TypeInv, RoundOK
    <2> QED  BY <2>1, <2>2, <2>3, RoundGoesOn
  <1>13. ASSUME Notify PROVE ProgressInv'
    BY <1>13, RoundIsOver DEF Notify
  <1>14. ASSUME NEW u \in UIDs, UserDeletes(u) PROVE ProgressInv'
    <2>1. UNCHANGED <<s, box, unext, floor>>
      BY <1>14 DEF UserDeletes
    <2>2. CASE s.pc = "idle"
      BY <2>1, <2>2 DEF ProgressInv
    <2>3. CASE s.pc # "idle"
      <3>2. rows \cup deleted \cup passed \subseteq rows' \cup deleted' \cup passed'
        BY <1>14, <2>3, DeletionAccounted
      <3> QED  BY <2>1, <3>2 DEF ProgressInv, Kept
    <2> QED  BY <2>2, <2>3
  <1>15. ASSUME NEW u \in UIDs, RemovalSucceeds(u) PROVE ProgressInv'
    <2>1. s.pc = "idle" /\ s' = s
      BY <1>15 DEF RemovalSucceeds
    <2> QED  BY <2>1 DEF ProgressInv
  <1>16. ASSUME NEW u \in UIDs, SearchStores(u) PROVE ProgressInv'
    <2>1. s.pc = "idle" /\ s' = s
      BY <1>16 DEF SearchStores
    <2> QED  BY <2>1 DEF ProgressInv
  <1>17. ASSUME NEW u \in UIDs, OtherClientRemoves(u) PROVE ProgressInv'
    <2>1. s.pc = "idle" /\ s' = s
      BY <1>17 DEF OtherClientRemoves
    <2> QED  BY <2>1 DEF ProgressInv
  <1>18. ASSUME Arrive PROVE ProgressInv'
    <2>1. /\ UNCHANGED <<s, floor, rows, deleted, passed>>
          /\ box' = box \cup {unext} /\ unext' = unext + 1
      BY <1>18 DEF Arrive
    <2>2. unext \in Nat /\ s.next \in Nat /\ s.from \in Nat /\ s.to \in Nat
      BY MaxUIDAssumption DEF TypeInv, ServerOK, RowsOK, SavedOK, RoundOK, Rounds, UIDs, NextUIDs
    <2>3. s.next <= unext /\ Kept(s.next) => Kept(s.next)'
      BY <2>1, <2>2 DEF Kept
    <2>4. s.from < unext /\ Kept(s.from) => Kept(s.from)'
      BY <2>1, <2>2 DEF Kept
    <2>5. s.pc # "idle" => /\ ~s.star /\ 0 < s.next /\ s.next <= unext'
                            /\ \A u \in box' : u < s.next => u <= s.to
      BY <2>1, <2>2 DEF ProgressInv
    <2>6. s.pc = "fetch" => s.from <= s.to /\ s.to < unext' /\ Kept(s.from)'
      BY <2>1, <2>2, <2>4 DEF ProgressInv
    <2>7. s.pc \in {"count", "rules", "save"} => Kept(s.next)'
      BY <2>3 DEF ProgressInv
    <2> QED  BY <2>1, <2>5, <2>6, <2>7 DEF ProgressInv, Kept
  <1>19. ASSUME Renumber PROVE ProgressInv'
    <2>1. s.pc = "idle" /\ s' = s
      BY <1>19 DEF Renumber
    <2> QED  BY <2>1 DEF ProgressInv
  <1>20. ASSUME Crash PROVE ProgressInv'
    BY <1>20, RoundIsOver DEF Crash
  <1> QED  BY <1>1, <1>2, <1>3, <1>4, <1>5, <1>6, <1>7, <1>8, <1>9, <1>10, <1>11, <1>12,
              <1>13, <1>14, <1>15, <1>16, <1>17, <1>18, <1>19, <1>20 DEF Next

----------------------------------------------------------------------------
(* The local maximum, on a server that does not report UIDNEXT: the next     *)
(* round fetches from behind the last row, so that no row may have a gap     *)
(* below it.  A round works upwards, and an open range begins behind the     *)
(* last row.  Rows of an earlier epoch, which wait for the rebuild, do not   *)
(* count.                                                                    *)

Gapless ==
    /\ \A v \in rows : v < unext \/ Passed(v)
    /\ \A v \in rows, u \in box : floor <= u /\ u <= v => u \in rows \cup deleted \cup passed

RangeOK ==
    /\ s.from <= unext \/ Passed(s.from - 1)
    /\ Kept(s.from)
    /\ ~s.star => s.to < unext

LocalInv ==
    /\ s.pc # "idle" \/ ~Rebuilding => Gapless
    /\ s.pc = "fetch" => RangeOK

\* A batch, or the lower part of one, leaves no gap below what it stored.
LEMMA StoreGapless ==
    ASSUME TypeInv, LocalInv, s.pc = "fetch",
           NEW k \in 0..MaxUID, Store({u \in Batch : u <= k}),
           UNCHANGED <<box, unext, floor, deleted, passed>>
    PROVE  Gapless'
  <1>1. /\ box \subseteq 1..MaxUID /\ MaxUID \in Nat /\ rows \subseteq 1..MaxUID
        /\ s.from \in Nat /\ s.to \in Nat /\ \A u \in box : u < unext
    BY MaxUIDAssumption DEF TypeInv, ServerOK, RowsOK, RoundOK, Rounds, UIDs
  <1>2. Gapless /\ Kept(s.from)
    BY DEF LocalInv, RangeOK, Passed
  <1>3. \A v \in rows' : v < unext' \/ Passed(v)'
    BY <1>1, <1>2, BatchInBox DEF Store, Gapless, Passed
  <1>4. ASSUME NEW v \in rows', NEW u \in box, floor <= u, u <= v PROVE u \in rows' \cup deleted \cup passed
    <2>1. CASE v \in rows
      BY <1>2, <1>4, <2>1 DEF Gapless, Store, Passed
    <2>2. CASE u < s.from
      BY <1>2, <1>4, <2>2 DEF Kept, Store
    <2>3. CASE v \notin rows /\ ~(u < s.from)
      <3>1. v \in Batch /\ v <= k
        BY <2>3 DEF Store
      <3>2. u \in Batch
        <4>1. v \in box /\ u \in Nat /\ v \in Nat /\ u >= s.from /\ v >= s.from
          BY <1>1, <1>4, <2>3, <3>1, BatchInBox
        <4>2. CASE s.star
          BY <3>1, <4>1, <4>2 DEF Batch
        <4>3. CASE ~s.star
          BY <1>1, <1>4, <3>1, <4>1, <4>3, BatchSizeAssumption DEF Batch
        <4> QED  BY <4>2, <4>3
      <3>3. u <= k
        BY <1>1, <1>4, <3>1, BatchInBox
      <3> QED  BY <3>2, <3>3 DEF Store
    <2> QED  BY <2>1, <2>2, <2>3
  <1> QED  BY <1>3, <1>4 DEF Gapless, Passed

\* A round that ends with a part of its batch stored.
LEMMA BreaksLocal ==
    ASSUME TypeInv, LocalInv, s.pc = "fetch", s' = NoRound,
           \E k \in 0..MaxUID : Store({u \in Batch : u <= k}),
           UNCHANGED <<box, unext, floor, deleted, passed>>
    PROVE  LocalInv'
  <1>1. Gapless'
    BY StoreGapless
  <1> QED  BY <1>1 DEF LocalInv, NoRound

\* Steps of a round, after the fetch, that take no row away but a deleted one.
LEMMA GoesOnLocal ==
    ASSUME LocalInv, s.pc \notin {"idle", "fetch"}, s'.pc # "fetch", UNCHANGED <<box, unext, floor, passed>>,
           rows' \subseteq rows, rows \cup deleted \cup passed \subseteq rows' \cup deleted' \cup passed'
    PROVE  LocalInv'
  <1>1. Gapless /\ Gapless'
    BY DEF LocalInv, Gapless, Passed
  <1> QED  BY <1>1 DEF LocalInv

\* A round that begins, with or without rows.
LEMMA BeginLocal ==
    ASSUME TypeInv, ~reports, LocalInv, Begin PROVE LocalInv'
  <1> USE DEF server, folder, bounds, history
  <1>0. /\ box \subseteq Nat /\ unext \in Nat /\ rows \subseteq Nat /\ \A u \in box : u < unext
    BY MaxUIDAssumption DEF TypeInv, ServerOK, RowsOK, UIDs, NextUIDs
  <1>1. CASE BeginStar
    <2>1. PICK a \in NextUIDs : NextAfter(a, rows) /\ s' = Round(TRUE, a, MaxUID, Cardinality(rows), FALSE)
      BY <1>1 DEF BeginStar
    <2>2. s'.from = a /\ s'.star
      BY <2>1 DEF Round
    <2>3. Gapless /\ rows # {} /\ UNCHANGED <<box, unext, rows, deleted, passed, floor>>
      BY <1>1 DEF BeginStar, LocalInv
    <2>4. a \in Nat
      BY MaxUIDAssumption DEF NextUIDs
    <2>5. a - 1 \in rows /\ a - 1 \in Nat
      <3>1. PICK v \in rows : v < a
        BY <2>1, <2>3 DEF NextAfter
      <3>2. v \in 1..MaxUID
        BY DEF TypeInv, RowsOK, UIDs
      <3>3. a > 1
        BY <2>4, <3>1, <3>2, MaxUIDAssumption
      <3> QED  BY <2>1, <2>4, <3>3 DEF NextAfter
    <2>6. a <= unext \/ Passed(a - 1)
      BY <1>0, <2>3, <2>4, <2>5 DEF Gapless
    <2>7. \A u \in box : floor <= u /\ u < a => u \in rows \cup deleted \cup passed
      BY <1>0, <2>3, <2>4, <2>5 DEF Gapless, Passed
    <2>8. RangeOK'
      BY <2>2, <2>3, <2>6, <2>7 DEF RangeOK, Kept, Passed
    <2>9. Gapless'
      BY <2>3 DEF Gapless, Passed
    <2> QED  BY <2>8, <2>9 DEF LocalInv
  <1>2. CASE BeginRecent \/ BeginRebuild
    <2>1. PICK u \in NextUIDs : /\ RecentFrom(u) /\ floor' = u
             /\ \/ s' = Round(FALSE, u, unext - 1, 0, fnext = 0)
                \/ s' = Round(FALSE, u, IF box = {} THEN 0 ELSE unext - 1, 0, TRUE)
      BY <1>2 DEF BeginRecent, BeginRebuild
    <2>2. rows' = {} /\ UNCHANGED <<box, unext, deleted>>
      BY <1>2 DEF BeginRecent, BeginRebuild
    <2>3. s'.from = u /\ ~s'.star /\ (s'.to = unext - 1 \/ s'.to = 0)
      BY <2>1 DEF Round
    <2>4. u \in Nat /\ u <= unext /\ 0 < unext
      BY <1>0, <2>1, MaxUIDAssumption DEF RecentFrom, NextUIDs, TypeInv, ServerOK
    <2>5. \A v \in box' : floor' <= v => ~(v < s'.from)
      BY <1>0, <2>1, <2>2, <2>3, <2>4
    <2>6. s'.to < unext' /\ s'.from <= unext'
      BY <1>0, <2>2, <2>3, <2>4
    <2>7. RangeOK'
      BY <2>5, <2>6 DEF RangeOK, Kept, Passed
    <2>8. Gapless'
      BY <2>2 DEF Gapless, Passed
    <2> QED  BY <2>7, <2>8 DEF LocalInv
  <1> QED  BY <1>1, <1>2 DEF Begin, BeginRange

LEMMA FetchLocal == ASSUME TypeInv, LocalInv, FetchBatch PROVE LocalInv'
  <1>1. /\ s.pc = "fetch" /\ Store(Batch) /\ UNCHANGED <<box, unext, floor, deleted, passed>>
    BY DEF FetchBatch, server, history
  <1>2. Gapless'
    <2>1. Store({u \in Batch : u <= MaxUID}) /\ MaxUID \in 0..MaxUID
      BY <1>1, WholeBatch, MaxUIDAssumption
    <2> QED  BY <1>1, <2>1, StoreGapless
  <1>3. /\ s \in Rounds /\ s.from \in Nat /\ s.to \in Nat /\ unext \in Nat /\ box \subseteq Nat /\ BatchSize \in Nat
    BY MaxUIDAssumption, BatchSizeAssumption DEF TypeInv, ServerOK, RoundOK, Rounds, UIDs, NextUIDs
  <1>4. CASE s' = [s EXCEPT !.pc = "count"]
    <2>1. s'.pc = "count"
      BY <1>3, <1>4 DEF Rounds
    <2> QED  BY <1>2, <2>1 DEF LocalInv
  <1>5. CASE ~s.star /\ ~(s.from + BatchSize > s.to) /\ s' = [s EXCEPT !.from = @ + BatchSize]
    <2>1. s'.from = s.from + BatchSize /\ s'.to = s.to /\ s'.star = s.star
      BY <1>3, <1>5 DEF Rounds
    <2>2. Kept(s.from) /\ s.to < unext
      BY <1>1, <1>5 DEF LocalInv, RangeOK, Passed
    <2>3. ASSUME NEW u \in box, floor <= u, u < s.from + BatchSize PROVE u \in rows' \cup deleted \cup passed
      <3>1. CASE u < s.from
        BY <1>1, <2>2, <2>3, <3>1 DEF Kept, Store
      <3>2. CASE ~(u < s.from)
        <4>1. u \in Batch
          BY <1>3, <1>5, <2>3, <3>2 DEF Batch
        <4> QED  BY <1>1, <4>1 DEF Store
      <3> QED  BY <3>1, <3>2
    <2>4. RangeOK'
      <3>1. s'.from <= unext' /\ s'.to < unext'
        BY <1>1, <1>3, <1>5, <2>1, <2>2
      <3>2. \A u \in box' : floor' <= u /\ u < s'.from => u \in rows' \cup deleted' \cup passed'
        BY <1>1, <2>1, <2>3
      <3> QED  BY <3>1, <3>2 DEF RangeOK, Kept, Passed
    <2> QED  BY <1>2, <2>4 DEF LocalInv
  <1> QED  BY <1>4, <1>5 DEF FetchBatch

\* A step of a round that goes on writes where the round stands.
LEMMA RoundPlace ==
  ASSUME s \in Rounds, NEW q
  PROVE  /\ [s EXCEPT !.pc = q].pc = q
         /\ \A n : [s EXCEPT !.pc = q, !.next = n].pc = q
  BY DEF Rounds

LEMMA StepLocal ==
  ASSUME ~reports, TypeInv, EpochInv, LocalInv, [Next]_vars PROVE LocalInv'
  <1> USE DEF server, folder, bounds, history
  <1>0. s \in Rounds /\ unext \in Nat /\ rows \subseteq Nat /\ box \subseteq Nat
    BY MaxUIDAssumption DEF TypeInv, RoundOK, ServerOK, RowsOK, UIDs, NextUIDs
  <1>1. CASE BeginRange \/ BeginStar \/ BeginRecent \/ BeginRebuild
    BY <1>1, BeginLocal DEF Begin
  <1>2. CASE FetchBreaks
    BY <1>2, BreaksLocal DEF FetchBreaks
  <1>3. CASE Count \/ Rules \/ RulesFail \/ Save \/ SaveFails \/ Notify
    <2>1. s.pc \notin {"idle", "fetch"} /\ UNCHANGED <<box, unext, floor, passed>>
      BY <1>3 DEF Count, Rules, RulesFail, Save, SaveFails, Notify
    <2>2. s'.pc # "fetch"
      <3>1. CASE Count
        <4>1. \E q \in {"rules", "save"} : \E n : s' = [s EXCEPT !.pc = q, !.next = n]
          BY <3>1 DEF Count
        <4> QED  BY <1>0, <4>1, RoundPlace
      <3>2. CASE Rules \/ RulesFail
        BY <1>0, <3>2, RoundPlace DEF Rules, RulesFail
      <3>3. CASE Save \/ SaveFails
        BY <1>0, <3>3, RoundPlace DEF Save, SaveFails
      <3>4. CASE Notify
        BY <3>4 DEF Notify, NoRound
      <3> QED  BY <1>3, <3>1, <3>2, <3>3, <3>4
    <2>3. rows' \subseteq rows /\ rows \cup deleted \cup passed \subseteq rows' \cup deleted' \cup passed'
      BY <1>3 DEF Count, Rules, RulesFail, Save, SaveFails, Notify
    <2> QED  BY <2>1, <2>2, <2>3, GoesOnLocal
  <1>4. ASSUME NEW u \in UIDs, UserDeletes(u) PROVE LocalInv'
    <2>1. UNCHANGED <<s, box, unext, floor, passed, fv, epoch>> /\ rows' \subseteq rows
      BY <1>4 DEF UserDeletes
    <2>2. CASE s.pc = "idle" /\ Rebuilding
      BY <2>1, <2>2 DEF LocalInv, Rebuilding
    <2>3. CASE s.pc # "idle" \/ ~Rebuilding
      <3>1. rows \cup deleted \cup passed \subseteq rows' \cup deleted' \cup passed'
        BY <1>4, <2>3, DeletionAccounted DEF Rebuilding
      <3>2. Gapless => Gapless'
        BY <2>1, <3>1 DEF Gapless, Passed
      <3>3. RangeOK => RangeOK'
        BY <2>1, <3>1 DEF RangeOK, Kept, Passed
      <3> QED  BY <2>1, <3>2, <3>3 DEF LocalInv, Rebuilding
    <2> QED  BY <2>2, <2>3
  <1>5. ASSUME NEW u \in UIDs, RemovalSucceeds(u) \/ RemovalAbandoned(u) \/ OtherClientRemoves(u)
        PROVE  LocalInv'
    <2>1. UNCHANGED <<s, unext, rows, deleted, passed, floor, fv, epoch>> /\ box' \subseteq box
      BY <1>5 DEF RemovalSucceeds, RemovalAbandoned, OtherClientRemoves
    <2> QED  BY <2>1 DEF LocalInv, RangeOK, Gapless, Kept, Rebuilding, Passed
  <1>6. ASSUME NEW u \in UIDs, SearchStores(u) PROVE LocalInv'
    <2>1. /\ UNCHANGED <<s, box, unext, floor, deleted, fv, epoch>> /\ s.pc = "idle"
          /\ passed \subseteq passed' /\ rows' = rows \cup {u} /\ u \in box
      BY <1>6 DEF SearchStores, Store
    <2>2. CASE Rebuilding
      BY <2>1, <2>2 DEF LocalInv, Rebuilding
    <2>3. CASE ~Rebuilding
      <3>1. Gapless /\ RowsAreAnchor
        BY <2>3 DEF LocalInv, RowsAreAnchor
      <3>2. \A v \in rows' : v < unext' \/ Passed(v)'
        BY <2>1, <3>1 DEF Gapless, Passed, TypeInv, ServerOK
      <3>3. \A v \in rows', w \in box : floor <= w /\ w <= v => w \in rows' \cup deleted' \cup passed'
        BY <1>6, <3>1, SearchPasses DEF Gapless
      <3>4. Gapless'
        BY <2>1, <3>2, <3>3 DEF Gapless
      <3> QED  BY <2>1, <3>4 DEF LocalInv
    <2> QED  BY <2>2, <2>3
  <1>7. CASE Arrive
    <2>1. /\ UNCHANGED <<s, rows, deleted, passed, floor, fv, epoch>>
          /\ box' = box \cup {unext} /\ unext' = unext + 1 /\ unext \in UIDs
      BY <1>0, <1>7, MaxUIDAssumption DEF Arrive, UIDs, TypeInv, ServerOK, NextUIDs
    <2>2. Gapless => Gapless'
      <3>1. ASSUME Gapless, NEW v \in rows, unext <= v PROVE unext \in passed
        BY <1>0, <2>1, <3>1 DEF Gapless, Passed
      <3> QED  BY <1>0, <2>1, <3>1 DEF Gapless, Passed
    <2>3. RangeOK => RangeOK'
      <3>1. s.from \in Nat /\ s.to \in Nat
        BY <1>0 DEF Rounds
      <3>2. ASSUME RangeOK, unext < s.from PROVE unext \in passed
        BY <1>0, <2>1, <3>1, <3>2 DEF RangeOK, Passed
      <3>3. RangeOK => \A w \in box' : floor' <= w /\ w < s.from => w \in rows' \cup deleted' \cup passed'
        BY <1>0, <2>1, <3>1, <3>2 DEF RangeOK, Kept
      <3> QED  BY <1>0, <2>1, <3>1, <3>2, <3>3 DEF RangeOK, Kept, Passed
    <2> QED  BY <2>1, <2>2, <2>3 DEF LocalInv, Rebuilding
  <1>8. CASE Renumber
    <2>1. /\ UNCHANGED <<fv, rows, s>> /\ epoch' = epoch + 1 /\ s.pc = "idle" /\ box' \subseteq UIDs
      BY <1>8, MaxUIDAssumption DEF Renumber, UIDs
    <2>2. fv <= epoch /\ fv \in Nat /\ epoch \in Nat
      BY LimitsAssumption DEF EpochInv, TypeInv, ServerOK, SavedOK
    <2>3. CASE fv # 0
      BY <2>1, <2>2, <2>3 DEF LocalInv, Rebuilding
    <2>4. CASE fv = 0
      <3>1. passed' = {u \in UIDs : \E v \in rows : u <= v}
        BY <1>8, <2>4 DEF Renumber
      <3>2. Gapless'
        BY <2>1, <3>1 DEF Gapless, Passed
      <3> QED  BY <2>1, <3>2 DEF LocalInv
    <2> QED  BY <2>3, <2>4
  <1>9. CASE Crash
    <2>1. s' = NoRound /\ s.pc # "idle" /\ UNCHANGED <<box, unext, floor, deleted, passed>>
      BY <1>9 DEF Crash
    <2>2. CASE s.pc = "fetch"
      BY <1>9, <2>1, <2>2, BreaksLocal DEF Crash
    <2>3. CASE s.pc # "fetch"
      <3>1. rows' = rows
        BY <1>9, <2>3 DEF Crash
      <3> QED  BY <2>1, <2>3, <3>1, GoesOnLocal DEF NoRound
    <2> QED  BY <2>2, <2>3
  <1>10. CASE UNCHANGED vars
    BY <1>10 DEF vars, LocalInv, RangeOK, Gapless, Kept, Rebuilding, Passed
  <1> QED  BY <1>1, <1>2, <1>3, <1>4, <1>5, <1>6, <1>7, <1>8, <1>9, <1>10, FetchLocal DEF Next

----------------------------------------------------------------------------
(* Both kinds of servers.                                                    *)

PlaceInv == TypeInv /\ EpochInv /\ IF reports THEN AnchorInv /\ ProgressInv ELSE LocalInv

LEMMA KindStays == [Next]_vars => reports' = reports
  BY DEF Next, vars, server, folder, bounds, history, BeginRange, BeginStar, BeginRecent, BeginRebuild, FetchBatch,
     FetchBreaks, Count, Rules, RulesFail, Save, SaveFails, Notify, UserDeletes, RemovalSucceeds, RemovalAbandoned,
     SearchStores, OtherClientRemoves, Arrive, Renumber, Crash

LEMMA StepPlace == ASSUME PlaceInv, [Next]_vars PROVE PlaceInv'
  <1>1. TypeInv' /\ EpochInv' /\ reports' = reports
    BY StepTypes, StepEpoch, KindStays DEF PlaceInv
  <1>2. CASE reports
    <2>1. IInv
      BY <1>2 DEF IInv, PlaceInv
    <2> QED  BY <1>1, <1>2, <2>1, StepAnchor, StepProgress DEF PlaceInv
  <1>3. CASE ~reports
    BY <1>1, <1>3, StepLocal DEF PlaceInv
  <1> QED  BY <1>2, <1>3

\* No mail is left behind the point from which the next round fetches, be it
\* the anchor or, on a server that does not report UIDNEXT, the local maximum:
\* for every number of mails, batch size, depth, and any number of failing
\* rounds, restarts, deletions, searches and renumberings at any time.  What a
\* row that no round fetched has passed is excepted, mail by mail (passed).
THEOREM NothingLeftBehind == Spec => []NothingSkipped
  <1>1. Init => PlaceInv
    <2>1. Init => Gapless /\ s.pc = "idle"
      BY DEF Init, Gapless, NoRound, Passed
    <2> QED  BY <2>1, InitTypes, InitEpoch, InitAnchor DEF PlaceInv, LocalInv
  <1>2. PlaceInv /\ [Next]_vars => PlaceInv'
    BY StepPlace
  <1>3. PlaceInv => NothingSkipped
    <2> SUFFICES ASSUME PlaceInv, fv = epoch, NEW u \in box, floor <= u, BelowAnchor(u)
                 PROVE  u \in rows \cup deleted \cup passed
      BY DEF NothingSkipped
    <2>1. CASE reports
      BY <2>1 DEF PlaceInv, AnchorInv, Kept, BelowAnchor
    <2>2. CASE ~reports
      BY <2>2 DEF PlaceInv, LocalInv, Rebuilding, Gapless, BelowAnchor, Passed
    <2> QED  BY <2>1, <2>2
  <1> QED  BY <1>1, <1>2, <1>3, PTL DEF Spec

----------------------------------------------------------------------------
(* Announcements.  A mail that was announced has a row or was deleted here;  *)
(* it can only be new again to a later round after its row was gone.  A      *)
(* rebuild, which drops all rows, happens in an epoch in which nothing was   *)
(* announced yet, and announces nothing itself.                              *)

AnnouncedOK ==
    /\ noticed \subseteq rows \cup deleted
    /\ noticed \cap stale = {}
    /\ Rebuilding => noticed = {}

RoundNews ==
    s.pc # "idle" =>
        /\ s.ep = epoch
        /\ Rebuilding => s.base
        /\ unseen \subseteq rows \cup deleted
        /\ (fresh \cup unseen) \cap noticed \subseteq deleted
        /\ (fresh \cup unseen) \cap stale = {}

NoticeInv == AnnouncedOK /\ RoundNews

LEMMA InitNotice == ASSUME Init PROVE NoticeInv
  BY DEF Init, NoticeInv, AnnouncedOK, RoundNews, Rebuilding, NoRound

\* A round that begins has announced nothing.
LEMMA BeginNotice ==
  ASSUME TypeInv, NoticeInv, Begin PROVE NoticeInv'
  <1> USE DEF server, folder, bounds, history
  <1>1. UNCHANGED <<fv, epoch, deleted, noticed>> /\ fresh' = {} /\ unseen' = {}
    BY DEF Begin, BeginRange, BeginStar, BeginRecent, BeginRebuild
  <1>2. s'.ep = epoch /\ (Rebuilding => s'.base)
    BY DEF Begin, BeginRange, BeginStar, BeginRecent, BeginRebuild, Round
  <1>3. (rows' = rows /\ stale' = stale) \/ (Rebuilding /\ stale' = {})
    BY DEF Begin, BeginRange, BeginStar, BeginRecent, BeginRebuild
  <1>4. AnnouncedOK'
    BY <1>1, <1>3 DEF NoticeInv, AnnouncedOK, Rebuilding
  <1>5. RoundNews'
    BY <1>1, <1>2 DEF RoundNews, Rebuilding
  <1> QED  BY <1>4, <1>5 DEF NoticeInv

\* What is stored has a row, and is new only if it had none.
LEMMA StoreNotice ==
  ASSUME TypeInv, NoticeInv, NEW B, Store(B), UNCHANGED <<fv, epoch, deleted, noticed, unseen>>,
         s'.pc = "idle" \/ (s.pc # "idle" /\ s'.ep = s.ep /\ s'.base = s.base)
  PROVE  NoticeInv'
  <1>1. AnnouncedOK'
    BY DEF NoticeInv, AnnouncedOK, Rebuilding, Store
  <1>2. stale \subseteq rows
    BY DEF TypeInv, RowsOK
  <1>3. CASE s.pc # "idle" /\ s'.ep = s.ep /\ s'.base = s.base
    BY <1>2, <1>3 DEF NoticeInv, AnnouncedOK, RoundNews, Rebuilding, Store
  <1> QED  BY <1>1, <1>3 DEF NoticeInv, RoundNews

\* What a step of a round keeps of what the round has captured.
LEMMA RoundFields ==
  ASSUME s \in Rounds, NEW q
  PROVE  /\ [s EXCEPT !.pc = q].ep = s.ep /\ [s EXCEPT !.pc = q].base = s.base
         /\ \A n : [s EXCEPT !.pc = q, !.next = n].ep = s.ep /\ [s EXCEPT !.pc = q, !.next = n].base = s.base
         /\ \A n : [s EXCEPT !.from = n].ep = s.ep /\ [s EXCEPT !.from = n].base = s.base
  BY DEF Rounds

LEMMA StepNotice == ASSUME TypeInv, NoticeInv, [Next]_vars PROVE NoticeInv'
  <1> USE DEF server, folder, bounds, history
  <1>0. s \in Rounds
    BY DEF TypeInv, RoundOK
  <1>1. CASE BeginRange \/ BeginStar \/ BeginRecent \/ BeginRebuild
    BY <1>1, BeginNotice DEF Begin
  <1>2. CASE FetchBatch
    <2>1. s.pc # "idle" /\ s'.ep = s.ep /\ s'.base = s.base
      BY <1>0, <1>2, RoundFields DEF FetchBatch
    <2> QED  BY <1>2, <2>1, StoreNotice DEF FetchBatch
  <1>3. CASE FetchBreaks
    <2>1. s'.pc = "idle" /\ \E B : Store(B)
      BY <1>3 DEF FetchBreaks, NoRound
    <2> QED  BY <1>3, <2>1, StoreNotice DEF FetchBreaks
  <1>4. CASE Count
    <2>1. s.pc # "idle" /\ s'.ep = s.ep /\ s'.base = s.base
      BY <1>0, <1>4, RoundFields DEF Count
    <2>2. unseen' \subseteq fresh /\ UNCHANGED <<rows, stale, fv, epoch, fresh, deleted, noticed>>
      BY <1>4 DEF Count
    <2>3. fresh \subseteq rows
      BY DEF TypeInv, RowsOK
    <2> QED  BY <2>1, <2>2, <2>3 DEF NoticeInv, AnnouncedOK, RoundNews, Rebuilding
  <1>5. CASE Rules
    <2>1. s.pc # "idle" /\ s'.ep = s.ep /\ s'.base = s.base
      BY <1>0, <1>5, RoundFields DEF Rules
    <2>2. PICK moved \in SUBSET fresh :
             /\ rows' = rows \ moved /\ stale' = stale \ moved /\ fresh' = fresh \ moved
             /\ deleted' = deleted \cup moved /\ (unseen' = unseen \/ unseen' = fresh \ moved)
      BY <1>5 DEF Rules
    <2>3. UNCHANGED <<fv, epoch, noticed>>
      BY <1>5 DEF Rules
    <2>4. fresh \subseteq rows
      BY DEF TypeInv, RowsOK
    <2>5. AnnouncedOK'
      BY <2>2, <2>3 DEF NoticeInv, AnnouncedOK, Rebuilding
    <2>6. RoundNews'
      BY <2>1, <2>2, <2>3, <2>4 DEF NoticeInv, RoundNews, Rebuilding
    <2> QED  BY <2>5, <2>6 DEF NoticeInv
  <1>6. CASE RulesFail \/ Save \/ SaveFails
    <2>1. s.pc # "idle" /\ s'.ep = s.ep /\ s'.base = s.base
      BY <1>0, <1>6, RoundFields DEF RulesFail, Save, SaveFails
    <2>2. UNCHANGED <<rows, stale, epoch, fresh, unseen, deleted, noticed>> /\ fv' \in {fv, s.ep}
      BY <1>6 DEF RulesFail, Save, SaveFails
    <2> QED  BY <2>1, <2>2 DEF NoticeInv, AnnouncedOK, RoundNews, Rebuilding
  <1>7. CASE Notify
    <2>1. s'.pc = "idle" /\ s.pc # "idle"
      BY <1>7 DEF Notify, NoRound
    <2>2. UNCHANGED <<rows, stale, fv, epoch, deleted>>
      BY <1>7 DEF Notify
    <2>3. noticed' = noticed \/ (~s.base /\ noticed' = noticed \cup unseen)
      BY <1>7 DEF Notify
    <2> QED  BY <2>1, <2>2, <2>3 DEF NoticeInv, AnnouncedOK, RoundNews, Rebuilding
  <1>8. ASSUME NEW u \in UIDs, UserDeletes(u) PROVE NoticeInv'
    BY <1>8 DEF UserDeletes, NoticeInv, AnnouncedOK, RoundNews, Rebuilding
  <1>9. ASSUME NEW u \in UIDs, RemovalSucceeds(u) \/ RemovalAbandoned(u) \/ OtherClientRemoves(u)
        PROVE  NoticeInv'
    <2>1. UNCHANGED <<rows, stale, fv, epoch, s, fresh, unseen, deleted, noticed>>
      BY <1>9 DEF RemovalSucceeds, RemovalAbandoned, OtherClientRemoves
    <2> QED  BY <2>1 DEF NoticeInv, AnnouncedOK, RoundNews, Rebuilding
  <1>10. ASSUME NEW u \in UIDs, SearchStores(u) PROVE NoticeInv'
    <2>1. s'.pc = "idle" /\ Store({u}) /\ UNCHANGED <<fv, epoch, deleted, noticed, unseen>>
      BY <1>10 DEF SearchStores
    <2> QED  BY <2>1, StoreNotice
  <1>11. CASE Arrive \/ UNCHANGED vars
    <2>1. UNCHANGED <<rows, stale, fv, epoch, s, fresh, unseen, deleted, noticed>>
      BY <1>11 DEF Arrive, vars
    <2> QED  BY <2>1 DEF NoticeInv, AnnouncedOK, RoundNews, Rebuilding
  <1>12. CASE Renumber
    BY <1>12 DEF Renumber, NoticeInv, AnnouncedOK, RoundNews, Rebuilding
  <1>13. CASE Crash
    <2>1. s'.pc = "idle" /\ UNCHANGED <<fv, epoch, deleted, noticed, unseen>>
      BY <1>13 DEF Crash, NoRound
    <2>2. CASE s.pc = "fetch"
      <3>1. \E B : Store(B)
        BY <1>13, <2>2 DEF Crash
      <3> QED  BY <2>1, <3>1, StoreNotice
    <2>3. CASE s.pc # "fetch"
      <3>1. UNCHANGED <<rows, stale>>
        BY <1>13, <2>3 DEF Crash
      <3> QED  BY <2>1, <3>1 DEF NoticeInv, AnnouncedOK, RoundNews, Rebuilding
    <2> QED  BY <2>2, <2>3
  <1> QED  BY <1>1, <1>2, <1>3, <1>4, <1>5, <1>6, <1>7, <1>8, <1>9, <1>10, <1>11, <1>12, <1>13 DEF Next

\* A mail is announced as new once, whatever fails, restarts or is renumbered,
\* on every kind of server: unless it was deleted here and came back.
THEOREM AnnouncedOnce == Spec => NoDuplicateNotice
  <1>1. Init => TypeInv /\ NoticeInv
    BY InitTypes, InitNotice
  <1>2. TypeInv /\ NoticeInv /\ [Next]_vars => TypeInv' /\ NoticeInv'
    BY StepTypes, StepNotice
  <1>3. NoticeInv => (Notify /\ ~s.base => unseen \cap noticed \subseteq deleted)
    BY DEF NoticeInv, RoundNews, Notify
  <1> QED  BY <1>1, <1>2, <1>3, PTL DEF Spec, NoDuplicateNotice
=============================================================================
