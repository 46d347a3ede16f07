---------------------------- MODULE Forms_proofs ----------------------------
(***************************************************************************)
(* What is entered on the pages of mail2im and in the settings of FlyMail, *)
(* for every number of records, rows, requests and changes: what is sent   *)
(* is what the user meant, a quiet page shows what the server has, moves   *)
(* add up, and what is typed is not lost.                                  *)
(***************************************************************************)
EXTENDS MCForms, Sequences, ComposeSession_proofs

----------------------------------------------------------------------------
(* The notification policy (AdminPolicy).                                  *)

\* The page of React has nothing that the server does not have, or something
\* is under way that will bring it.
PolicyIsComing ==
    edition = "react" /\ ~policyFailed =>
        \/ puts # {}
        \/ policyFetch.phase = "sent"
        \/ policyFetch.phase = "served" /\ policyFetch.rows = policy
        \/ policyFetch.phase = "none" /\ display = policy

LEMMA InitPolicy == ASSUME Policy!PInit PROVE PolicyIsComing
  BY DEF Policy!PInit, PolicyIsComing, Policy!NoFetch

LEMMA StepPolicy == ASSUME PolicyIsComing, [Policy!PNext]_policyVars PROVE PolicyIsComing'
  <1> USE DEF PolicyIsComing, Policy!FetchSent, Policy!NoFetch
  <1>1. ASSUME NEW r \in PolicyRows, Policy!ChangeRow(r) PROVE PolicyIsComing'
    BY <1>1 DEF Policy!ChangeRow
  <1>2. ASSUME NEW u \in puts, Policy!PutStored(u) PROVE PolicyIsComing'
    BY <1>2 DEF Policy!PutStored
  <1>3. ASSUME NEW u \in puts, Policy!PutAnswered(u) PROVE PolicyIsComing'
    BY <1>3 DEF Policy!PutAnswered, Policy!Refetched, Policy!Front, Policy!ReactPolicy
  <1>4. ASSUME NEW u \in puts, Policy!PutFails(u) PROVE PolicyIsComing'
    BY <1>4 DEF Policy!PutFails
  <1>5. CASE Policy!RefreshPolicy
    BY <1>5 DEF Policy!RefreshPolicy
  <1>6. CASE Policy!ServePolicy
    BY <1>6 DEF Policy!ServePolicy
  <1>7. CASE Policy!PolicyArrives
    BY <1>7 DEF Policy!PolicyArrives
  <1>8. CASE UNCHANGED policyVars
    BY <1>8 DEF policyVars
  <1> QED  BY <1>1, <1>2, <1>3, <1>4, <1>5, <1>6, <1>7, <1>8 DEF Policy!PNext

\* Its types.
LEMMA InitPolicyTypes == ASSUME Policy!PolicyAssumptions, Policy!PInit PROVE Policy!PolicyTypeOK
  <1>1. 0 \in Policy!Values
    BY DEF Policy!PolicyAssumptions, Policy!Values
  <1>2. [r \in PolicyRows |-> 0] \in Policy!Policies
    BY <1>1 DEF Policy!Policies
  <1>3. policyFetch \in [phase : {"none", "sent", "served"}, rows : Policy!Policies]
    BY <1>2 DEF Policy!PInit, Policy!NoFetch
  <1> QED  BY <1>1, <1>2, <1>3 DEF Policy!PInit, Policy!PolicyTypeOK

LEMMA StepPolicyTypes ==
  ASSUME Policy!PolicyAssumptions, Policy!PolicyTypeOK, [Policy!PNext]_policyVars
  PROVE  Policy!PolicyTypeOK'
  <1> USE DEF Policy!PolicyAssumptions, Policy!PolicyTypeOK, Policy!Policies, Policy!Values,
              Policy!Puts, Policy!FetchSent, Policy!NoFetch
  <1>1. ASSUME NEW r \in PolicyRows, Policy!ChangeRow(r) PROVE Policy!PolicyTypeOK'
    <2>1. changes + 1 \in 0..MaxChanges /\ changes' = changes + 1
      BY <1>1 DEF Policy!ChangeRow
    <2>2. display' \in Policy!Policies
      BY <1>1, <2>1 DEF Policy!ChangeRow
    <2>3. puts' \subseteq Policy!Puts
      BY <1>1, <2>1 DEF Policy!ChangeRow
    <2> QED  BY <1>1, <2>1, <2>2, <2>3 DEF Policy!ChangeRow
  <1>2. ASSUME NEW u \in puts, Policy!PutStored(u) PROVE Policy!PolicyTypeOK'
    <2>1. u.row \in PolicyRows /\ u.value \in Policy!Values /\ [u EXCEPT !.phase = "stored"] \in Policy!Puts
      OBVIOUS
    <2>2. policy' \in Policy!Policies /\ puts' \subseteq Policy!Puts
      BY <1>2, <2>1 DEF Policy!PutStored
    <2> QED  BY <1>2, <2>2 DEF Policy!PutStored
  <1>3. ASSUME NEW u \in puts, Policy!PutAnswered(u) PROVE Policy!PolicyTypeOK'
    BY <1>3 DEF Policy!PutAnswered, Policy!Refetched
  <1>4. ASSUME NEW u \in puts, Policy!PutFails(u) PROVE Policy!PolicyTypeOK'
    BY <1>4 DEF Policy!PutFails
  <1>5. CASE Policy!RefreshPolicy
    BY <1>5 DEF Policy!RefreshPolicy
  <1>6. CASE Policy!ServePolicy
    BY <1>6 DEF Policy!ServePolicy
  <1>7. CASE Policy!PolicyArrives
    BY <1>7 DEF Policy!PolicyArrives
  <1>8. CASE UNCHANGED policyVars
    BY <1>8 DEF policyVars
  <1> QED  BY <1>1, <1>2, <1>3, <1>4, <1>5, <1>6, <1>7, <1>8 DEF Policy!PNext

----------------------------------------------------------------------------
(* The import of a configuration (AdminImport).                            *)

\* In the React page what is kept for the retry is what was refused ...
KeptIsRefused == importFront = "react" => conflict.kept \cap Import!AskedAbout \subseteq questioned

\* ... and a request that may overwrite was confirmed.
OverwriteIsConfirmed ==
    importFront = "react" /\ import.phase = "sent" /\ import.overwrite
        => import.payload \cap Import!AskedAbout \subseteq confirmed

ImportInv ==
    Import!ImportTypeOK /\ KeptIsRefused /\ OverwriteIsConfirmed /\ Import!ReplacesTheConfirmed

LEMMA InitImport == ASSUME Import!ImportAssumptions, Import!IInit PROVE ImportInv
  <1>1. /\ import \in [phase : {"none", "sent"}, payload : SUBSET Sections, overwrite : BOOLEAN]
        /\ conflict \in [open : BOOLEAN, kept : SUBSET Sections]
    BY DEF Import!IInit, Import!NoImport, Import!NoConflict
  <1>2. transfers \in [import : BOOLEAN, export : BOOLEAN, exporting : BOOLEAN] /\ imports \in 0..MaxImports
    BY DEF Import!IInit, Import!ImportAssumptions
  <1>3. ~import.overwrite /\ conflict.kept = {}
    BY DEF Import!IInit, Import!NoImport, Import!NoConflict
  <1> QED  BY <1>1, <1>2, <1>3 DEF Import!IInit, ImportInv, Import!ImportTypeOK, KeptIsRefused,
           OverwriteIsConfirmed, Import!ReplacesTheConfirmed

\* Dialogs and boxes.
LEMMA StepImportDialogs ==
  ASSUME ImportInv, NEW avail \in SUBSET Sections, NEW s,
         \/ Import!OpenExport \/ Import!Export \/ Import!CloseExport \/ Import!ExportEnds
         \/ Import!OpenImport \/ Import!CloseImport \/ Import!CloseConflict
         \/ Import!ChooseFile(avail) \/ Import!TickSection(s)
  PROVE  ImportInv'
  <1> USE DEF ImportInv, Import!ImportTypeOK, KeptIsRefused, OverwriteIsConfirmed,
              Import!ReplacesTheConfirmed
  <1>1. CASE Import!OpenExport \/ Import!Export \/ Import!CloseExport \/ Import!CloseImport
             \/ Import!ExportEnds
    <2>1. /\ transfers' \in [import : BOOLEAN, export : BOOLEAN, exporting : BOOLEAN]
          /\ UNCHANGED <<importFront, existing, file, ticked, import, conflict, questioned,
                         confirmed, replaced, imports>>
      BY <1>1 DEF Import!OpenExport, Import!Export, Import!ExportEnds, Import!CloseExport,
         Import!CloseImport, Import!asking
    <2> QED  BY <2>1
  <1>2. CASE Import!OpenImport
    <2>1. conflict' = [open |-> FALSE, kept |-> {}]
      BY <1>2 DEF Import!OpenImport, Import!NoConflict
    <2>2. transfers' \in [import : BOOLEAN, export : BOOLEAN, exporting : BOOLEAN]
      BY <1>2 DEF Import!OpenImport
    <2>3. /\ file' = {} /\ ticked' = {}
          /\ UNCHANGED <<importFront, existing, import, questioned, confirmed, replaced, imports>>
      BY <1>2 DEF Import!OpenImport, Import!asking
    <2>4. conflict' \in [open : BOOLEAN, kept : SUBSET Sections] /\ conflict'.kept = {}
      BY <2>1
    <2> HIDE DEF Import!AskedAbout
    <2>5. Import!ImportTypeOK'
      BY <2>2, <2>3, <2>4
    <2> QED  BY <2>3, <2>4, <2>5
  <1>3. CASE Import!CloseConflict
    BY <1>3 DEF Import!CloseConflict, Import!asking
  <1>4. CASE Import!ChooseFile(avail) \/ Import!TickSection(s)
    <2>1. /\ file' \subseteq Sections /\ ticked' \subseteq file'
          /\ UNCHANGED <<importFront, existing, import, conflict, transfers, questioned,
                         confirmed, replaced, imports>>
      BY <1>4 DEF Import!ChooseFile, Import!TickSection, Import!asking
    <2> QED  BY <2>1
  <1> QED  BY <1>1, <1>2, <1>3, <1>4

\* The requests and their answers.
LEMMA StepImportRequests ==
  ASSUME Import!ImportAssumptions, ImportInv,
         \/ Import!StartImport \/ Import!Overwrite
         \/ Import!ImportRefused \/ Import!ImportDone \/ Import!ImportFails
  PROVE  ImportInv'
  <1> USE DEF ImportInv, Import!ImportTypeOK, KeptIsRefused, OverwriteIsConfirmed,
              Import!ReplacesTheConfirmed
  <1>1. CASE Import!StartImport
    <2>1. imports' \in 0..MaxImports /\ ticked \subseteq Sections
      BY <1>1 DEF Import!StartImport, Import!ImportAssumptions
    <2> QED  BY <1>1, <2>1 DEF Import!StartImport, Import!asking
  <1>2. CASE Import!Overwrite
    <2>1. /\ import' = [phase |-> "sent", payload |-> conflict.kept, overwrite |-> TRUE]
          /\ confirmed' = confirmed \cup questioned
          /\ conflict' = [conflict EXCEPT !.open = (importFront = "vue")]
          /\ UNCHANGED <<importFront, existing, file, ticked, transfers, questioned, replaced, imports>>
      BY <1>2 DEF Import!Overwrite
    <2>2. conflict' \in [open : BOOLEAN, kept : SUBSET Sections] /\ conflict'.kept = conflict.kept
      BY <2>1
    <2>3. Import!ImportTypeOK'
      BY <2>1, <2>2
    <2> QED  BY <2>1, <2>2, <2>3
  <1>3. CASE Import!ImportRefused
    <2> DEFINE kept == Import!KeptForRetry(import.payload)
    <2>1. kept \in SUBSET Sections /\ (importFront = "react" => kept = import.payload)
      BY DEF Import!KeptForRetry
    <2>2. conflict' = [open |-> TRUE, kept |-> kept]
      BY <1>3 DEF Import!ImportRefused
    <2> HIDE DEF kept
    <2>3. /\ questioned' = import.payload \cap Import!AskedAbout /\ import' = Import!NoImport
          /\ UNCHANGED <<importFront, existing, file, ticked, transfers, confirmed, replaced, imports>>
      BY <1>3 DEF Import!ImportRefused
    <2>4. Import!ImportTypeOK'
      BY <2>1, <2>2, <2>3 DEF Import!NoImport
    <2> QED  BY <2>1, <2>2, <2>3, <2>4 DEF Import!NoImport
  <1>4. CASE Import!ImportDone
    <2>1. PICK written \in SUBSET import.payload :
            /\ existing' = existing \cup written
            /\ replaced' = replaced \cup (written \cap existing \cap Import!AskedAbout)
            /\ IF written = import.payload
                 THEN /\ transfers' = [transfers EXCEPT !.import = FALSE]
                      /\ conflict' = [conflict EXCEPT !.open = FALSE]
                      /\ file' = {} /\ ticked' = {}
                 ELSE UNCHANGED <<transfers, conflict, file, ticked>>
      BY <1>4 DEF Import!ImportDone
    <2>2. import' = Import!NoImport /\ UNCHANGED <<importFront, questioned, confirmed, imports>>
      BY <1>4 DEF Import!ImportDone, Import!asking
    <2>3. conflict' \in [open : BOOLEAN, kept : SUBSET Sections] /\ conflict'.kept = conflict.kept
      BY <2>1
    <2>4. transfers' \in [import : BOOLEAN, export : BOOLEAN, exporting : BOOLEAN]
          /\ file' \subseteq Sections /\ ticked' \subseteq file'
      BY <2>1
    <2>5. Import!ImportTypeOK'
      BY <2>1, <2>2, <2>3, <2>4 DEF Import!NoImport
    <2>6. importFront = "react" => written \cap existing \cap Import!AskedAbout \subseteq confirmed
      <3>1. CASE import.overwrite
        BY <1>4, <3>1 DEF Import!ImportDone
      <3>2. CASE ~import.overwrite
        <4>1. import.payload \cap existing \cap Import!AskedAbout = {}
          BY <1>4, <3>2 DEF Import!ImportDone, Import!Refused, Import!Conflicts, Import!AskedAbout
        <4> QED  BY <4>1
      <3> QED  BY <3>1, <3>2
    <2> QED  BY <2>1, <2>2, <2>3, <2>5, <2>6 DEF Import!NoImport
  <1>5. CASE Import!ImportFails
    BY <1>5 DEF Import!ImportFails, Import!NoImport, Import!asking
  <1> QED  BY <1>1, <1>2, <1>3, <1>4, <1>5

LEMMA StepImport == ASSUME Import!ImportAssumptions, ImportInv, [Import!INext]_importVars
                    PROVE  ImportInv'
  <1>1. CASE UNCHANGED importVars
    BY <1>1 DEF importVars, ImportInv, Import!ImportTypeOK, KeptIsRefused, OverwriteIsConfirmed,
       Import!ReplacesTheConfirmed
  <1>2. ASSUME NEW avail \in SUBSET Sections, Import!ChooseFile(avail) PROVE ImportInv'
    BY <1>2, StepImportDialogs
  <1>3. ASSUME NEW s \in Sections, Import!TickSection(s) PROVE ImportInv'
    <2>1. {} \in SUBSET Sections
      OBVIOUS
    <2> QED  BY <1>3, <2>1, StepImportDialogs
  <1>4. CASE \/ Import!OpenExport \/ Import!Export \/ Import!CloseExport \/ Import!ExportEnds
             \/ Import!OpenImport \/ Import!CloseImport \/ Import!CloseConflict
    <2>1. {} \in SUBSET Sections
      OBVIOUS
    <2> QED  BY <1>4, <2>1, StepImportDialogs
  <1> QED  BY <1>1, <1>2, <1>3, <1>4, StepImportRequests DEF Import!INext

----------------------------------------------------------------------------
(* Fields that are edited in place (SettingsFields).                       *)

\* What a field was filled with last is what the page knows of it.
SyncedIsCached == fieldSection.fill = "field" /\ fieldCached # Fields!NotLoaded
                    => synced = {fieldCached.mine}

FieldsInv == Fields!TypeOK /\ SyncedIsCached

LEMMA InitFields == ASSUME Fields!Assumptions, Fields!Init PROVE FieldsInv
  BY DEF Fields!Assumptions, Fields!Init, FieldsInv, Fields!TypeOK, SyncedIsCached, Fields!NotLoaded,
     Fields!NoSave, Fields!Values

FieldsStepOK == FieldsInv' /\ Fields!KeepsTyping

LEMMA StepFields == ASSUME Fields!Assumptions, FieldsInv, [Fields!Next]_fieldsVars
                    PROVE  FieldsInv' /\ Fields!KeepsTyping
  <1> USE DEF Fields!Assumptions, FieldsInv, Fields!TypeOK, SyncedIsCached, Fields!NotLoaded,
              Fields!NoSave, Fields!Values, Fields!KeepsTyping, FieldsStepOK
  <1>1. ASSUME NEW v \in Fields!Values, Fields!Type(v) PROVE FieldsStepOK
    BY <1>1 DEF Fields!Type
  <1>2. ASSUME NEW r \in Fields!StoredValues, Fields!ChangedElsewhere(r) PROVE FieldsStepOK
    BY <1>2 DEF Fields!ChangedElsewhere, Fields!StoredValues
  <1>3. CASE Fields!Save
    BY <1>3 DEF Fields!Save
  <1>4. CASE Fields!SaveStored
    BY <1>4 DEF Fields!SaveStored
  <1>5. CASE Fields!SaveEnds
    BY <1>5 DEF Fields!SaveEnds
  <1>6. CASE Fields!Serve
    BY <1>6 DEF Fields!Serve
  <1>7. CASE Fields!Arrives
    <2>1. fieldSection.fill \in {"field", "record", "once"}
      BY DEF Fields!FieldSections, Fields!SyncSection, Fields!BaseUrlSection, Fields!OAuthSection,
         Fields!NotifyBodySection, Fields!ProfileBlock, Fields!SignatureEditor
    <2>2. /\ fieldFetch.data \in [mine : Fields!Values, rest : Fields!Values]
          /\ fieldCached' = fieldFetch.data
          /\ UNCHANGED <<fieldSection, value, fieldSaving, edits, elsewhere>>
      BY <1>7 DEF Fields!Arrives
    <2>3. fieldFetch' \in [phase : {"none", "sent", "served"}, data : [mine : Fields!Values, rest : Fields!Values]]
      BY <1>7 DEF Fields!Arrives
    <2>4. CASE Fields!FillDue(fieldFetch.data)
      <3>1. draft' = fieldFetch.data.mine /\ synced' = {fieldFetch.data.mine}
        BY <1>7, <2>4 DEF Fields!Arrives
      <3>2. Fields!TypeOK' /\ SyncedIsCached'
        BY <2>2, <2>3, <3>1
      <3>3. fieldSection.fill = "field" => synced # {fieldFetch.data.mine}
        BY <2>4 DEF Fields!FillDue
      <3>4. fieldSection.fill = "once" => fieldCached = Fields!NotLoaded
        BY <2>4 DEF Fields!FillDue
      <3>5. Fields!KeepsTyping
        BY <2>1, <2>2, <3>3, <3>4
      <3> QED  BY <3>2, <3>5
    <2>5. CASE ~Fields!FillDue(fieldFetch.data)
      <3>1. draft' = draft /\ synced' = synced
        BY <1>7, <2>5 DEF Fields!Arrives
      <3>2. fieldSection.fill = "field" => synced = {fieldFetch.data.mine}
        BY <2>5 DEF Fields!FillDue
      <3> QED  BY <2>2, <2>3, <3>1, <3>2
    <2> QED  BY <2>4, <2>5
  <1>8. CASE UNCHANGED fieldsVars
    BY <1>8 DEF fieldsVars
  <1> QED  BY <1>1, <1>2, <1>3, <1>4, <1>5, <1>6, <1>7, <1>8 DEF Fields!Next

----------------------------------------------------------------------------
(* Dialogs (SettingsDialogs).                                              *)

DialogShape == [open : BOOLEAN, target : Dialogs!Targets, content : Dialogs!Contents, done : BOOLEAN]

LEMMA InitDialogs == ASSUME Dialogs!Assumptions, Dialogs!Init PROVE Dialogs!TypeOK
  <1> USE DEF Dialogs!Assumptions, Dialogs!Contents, Dialogs!Targets, Dialogs!Openings, Dialogs!New
  <1>1. dialogForm \in DialogShape
    BY DEF Dialogs!Init, DialogShape
  <1>2. list \in [Records -> Dialogs!Contents]
    BY DEF Dialogs!Init
  <1> QED  BY <1>1, <1>2 DEF Dialogs!Init, Dialogs!TypeOK, DialogShape, Dialogs!Saves

\* What a step may do to the form: its shape stays, and what was typed stays
\* open unless the user leaves it or its own save succeeds.
LEMMA StepDialogs ==
  ASSUME Dialogs!Assumptions, Dialogs!TypeOK, [Dialogs!Next]_dialogsVars
  PROVE  Dialogs!TypeOK' /\ Dialogs!KeepsTyped
  <1> DEFINE StepOK == Dialogs!TypeOK' /\ Dialogs!KeepsTyped
  <1> USE DEF Dialogs!TypeOK, Dialogs!KeepsTyped, Dialogs!OwnAnswers, Dialogs!Closed
  <1>1. ASSUME NEW t \in Dialogs!Targets, Dialogs!OpenOn(t) PROVE StepOK
    <2>1. Dialogs!Built(t) \in Dialogs!Contents
      BY DEF Dialogs!Built, Dialogs!Targets, Dialogs!New, Dialogs!Contents, Dialogs!Assumptions
    <2>2. opening' \in Dialogs!Openings
      BY <1>1 DEF Dialogs!OpenOn, Dialogs!Openings, Dialogs!Assumptions
    <2> QED  BY <1>1, <2>1, <2>2 DEF Dialogs!OpenOn
  <1>2. ASSUME NEW c \in Dialogs!Contents, Dialogs!Type(c) PROVE StepOK
    BY <1>2 DEF Dialogs!Type
  <1>3. CASE Dialogs!ResetForm
    BY <1>3 DEF Dialogs!ResetForm
  <1>4. CASE Dialogs!ClickOutside
    BY <1>4 DEF Dialogs!ClickOutside, Dialogs!Unsaved, Dialogs!SameValue
  <1>5. CASE Dialogs!Leave
    BY <1>5 DEF Dialogs!Leave
  <1>6. CASE Dialogs!Save
    BY <1>6 DEF Dialogs!Save, Dialogs!Saves
  <1>7. ASSUME NEW s \in saves, Dialogs!SaveSucceeds(s) PROVE StepOK
    <2>1. s.target \in Dialogs!Targets /\ s.content \in Dialogs!Contents
      BY DEF Dialogs!Saves
    <2>2. list' \in [Records -> Dialogs!Contents]
      BY <1>7, <2>1 DEF Dialogs!SaveSucceeds, Dialogs!Targets, Dialogs!New
    <2>3. dialogForm' \in {dialogForm, [dialogForm EXCEPT !.done = TRUE], [dialogForm EXCEPT !.open = FALSE]}
      BY <1>7 DEF Dialogs!SaveSucceeds, Dialogs!AfterSave
    <2>4. Dialogs!TypeOK'
      BY <1>7, <2>2, <2>3 DEF Dialogs!SaveSucceeds
    <2>5. ASSUME Dialogs!OwnAnswers, dialogForm.open, s.opening # opening
          PROVE  dialogForm' = dialogForm
      BY <1>7, <2>5 DEF Dialogs!SaveSucceeds, Dialogs!AfterSave, Dialogs!Heard
    <2> QED  BY <1>7, <2>4, <2>5
  <1>8. ASSUME NEW s \in saves, Dialogs!SaveFails(s) PROVE StepOK
    BY <1>8 DEF Dialogs!SaveFails
  <1>9. CASE UNCHANGED dialogsVars
    BY <1>9 DEF dialogsVars
  <1> QED  BY <1>1, <1>2, <1>3, <1>4, <1>5, <1>6, <1>7, <1>8, <1>9 DEF Dialogs!Next

----------------------------------------------------------------------------
(* Lists with an order (SettingsLists).                                    *)

\* The orders a list can have.
Arrangements == {s \in UNION {[1..n -> Rows] : n \in 0..Cardinality(Rows)} : Lists!IsInjective(s)}

\* Sizes are the same in the instance.
LEMMA Counted == \A S : Lists!Cardinality(S) = Cardinality(S) /\ (Lists!IsFiniteSet(S) <=> IsFiniteSet(S))
  BY DEF Lists!Cardinality, Cardinality, Lists!IsFiniteSet, IsFiniteSet

LEMMA ArrangementOfRows == ASSUME IsFiniteSet(Rows) PROVE Lists!SetToSeq(Rows) \in Arrangements
  <1> DEFINE n == Cardinality(Rows)
  <1>1. n \in Nat /\ ExistsBijection(1..n, Rows)
    BY FS_CardinalityType
  <1>2. PICK f \in [1..n -> Rows] : Lists!IsInjective(f)
    BY <1>1 DEF ExistsBijection, Bijection, Injection, IsInjective, Lists!IsInjective
  <1>3. Lists!SetToSeq(Rows) \in [1..n -> Rows] /\ Lists!IsInjective(Lists!SetToSeq(Rows))
    BY <1>2, Counted DEF Lists!SetToSeq
  <1> QED  BY <1>1, <1>3 DEF Arrangements

LEMMA PlaceInOrder ==
  ASSUME NEW s, NEW i \in Lists!Range(s)
  PROVE  Lists!Place(s, i) \in DOMAIN s /\ s[Lists!Place(s, i)] = i
  BY DEF Lists!Place, Lists!Range

\* Moving a row by one place is an exchange of two rows.
LEMMA MovedIsArrangement ==
  ASSUME NEW s \in Arrangements, NEW k \in DOMAIN s, NEW d \in {-1, 1}
  PROVE  Lists!MoveItem(s, k, d) \in Arrangements
  <1>1. PICK n \in 0..Cardinality(Rows) : s \in [1..n -> Rows]
    BY DEF Arrangements
  <1>2. CASE k + d \notin DOMAIN s
    BY <1>2 DEF Lists!MoveItem
  <1>3. CASE k + d \in DOMAIN s
    <2> DEFINE t == [s EXCEPT ![k] = s[k + d], ![k + d] = s[k]]
    <2>1. t \in [1..n -> Rows]
      BY <1>1, <1>3
    <2>2. k \in Int /\ k + d \in Int /\ k + d # k
      BY <1>1
    <2>3. \A j \in DOMAIN s : t[j] = IF j = k + d THEN s[k] ELSE IF j = k THEN s[k + d] ELSE s[j]
      BY <1>1, <1>3, <2>2
    <2>4. \A a, b \in DOMAIN s : s[a] = s[b] => a = b
      BY DEF Arrangements, Lists!IsInjective
    <2>5. \A a, b \in DOMAIN s : t[a] = t[b] => a = b
      BY <1>3, <2>2, <2>3, <2>4
    <2>6. Lists!IsInjective(t)
      BY <1>1, <2>1, <2>5 DEF Lists!IsInjective
    <2> QED  BY <1>3, <2>1, <2>6 DEF Arrangements, Lists!MoveItem
  <1> QED  BY <1>2, <1>3

LEMMA ConcatAt ==
  ASSUME NEW S, NEW u \in Seq(S), NEW v \in Seq(S), NEW j \in 1..(Len(u) + Len(v))
  PROVE  (u \o v)[j] = IF j <= Len(u) THEN u[j] ELSE v[j - Len(u)]
  OBVIOUS

LEMMA WithoutIsArrangement ==
  ASSUME IsFiniteSet(Rows), NEW s \in Arrangements, NEW i
  PROVE  Lists!Without(s, i) \in Arrangements
  <1>1. PICK n \in 0..Cardinality(Rows) : s \in [1..n -> Rows]
    BY DEF Arrangements
  <1>2. CASE i \notin Lists!Range(s)
    BY <1>2 DEF Lists!Without
  <1>3. CASE i \in Lists!Range(s)
    <2> DEFINE k == Lists!Place(s, i)
               t == Lists!RemoveAt(s, k)
    <2>1. k \in 1..n
      BY <1>1, <1>3, PlaceInOrder
    <2>2. s \in Seq(Rows) /\ Len(s) = n
      BY <1>1
    <2>3. t \in Seq(Rows) /\ Len(t) = n - 1
      BY <2>1, <2>2 DEF Lists!RemoveAt
    <2>4. \A j \in 1..(n - 1) : t[j] = IF j < k THEN s[j] ELSE s[j + 1]
      <3> SUFFICES ASSUME NEW j \in 1..(n - 1) PROVE t[j] = IF j < k THEN s[j] ELSE s[j + 1]
        OBVIOUS
      <3> DEFINE head == SubSeq(s, 1, k - 1)
                 rest == SubSeq(s, k + 1, n)
      <3>1. head \in Seq(Rows) /\ Len(head) = k - 1 /\ rest \in Seq(Rows) /\ Len(rest) = n - k
        BY <2>1, <2>2
      <3>2. t = head \o rest
        BY <2>2 DEF Lists!RemoveAt
      <3> HIDE DEF head, rest, t
      <3>5. t[j] = IF j <= k - 1 THEN head[j] ELSE rest[j - (k - 1)]
        BY <2>1, <3>1, <3>2, ConcatAt
      <3>3. CASE j < k
        <4>1. t[j] = head[j]
          BY <2>1, <3>3, <3>5
        <4>2. head[j] = s[j]
          BY <2>1, <2>2, <3>3 DEF head
        <4> QED  BY <3>3, <4>1, <4>2
      <3>4. CASE ~(j < k)
        <4>1. t[j] = rest[j - (k - 1)]
          BY <2>1, <3>4, <3>5
        <4>2. rest[j - (k - 1)] = s[j + 1]
          BY <2>1, <2>2, <3>4 DEF rest
        <4> QED  BY <3>4, <4>1, <4>2
      <3> QED  BY <3>3, <3>4
    <2>5. \A a, b \in 1..n : s[a] = s[b] => a = b
      BY <1>1 DEF Arrangements, Lists!IsInjective
    <2>6. t \in [1..(n - 1) -> Rows] /\ n - 1 \in 0..Cardinality(Rows)
      <3>1. t \in [1..(n - 1) -> Rows]
        BY <2>1, <2>3
      <3>2. Cardinality(Rows) \in Nat
        BY FS_CardinalityType
      <3> QED  BY <2>1, <3>1, <3>2
    <2>7. \A a, b \in 1..(n - 1) : t[a] = t[b] => a = b
      BY <2>1, <2>4, <2>5
    <2>8. Lists!IsInjective(t)
      BY <2>6, <2>7 DEF Lists!IsInjective
    <2> QED  BY <1>3, <2>6, <2>8 DEF Arrangements, Lists!Without
  <1> QED  BY <1>2, <1>3

\* What the requests look like.
Answers == {"sent", "done", "refused", "lost"}
OrderRequests == [kind : {"order"}, n : Nat, ids : Arrangements, previous : Lists!Lists, phase : Answers]
SwitchRequests == [kind : {"switch"}, n : Nat, row : Rows, on : BOOLEAN, phase : Answers]
DeleteRequests == [kind : {"delete"}, n : Nat, row : Rows, phase : Answers]
RequestsOK == reorders \subseteq OrderRequests \cup SwitchRequests \cup DeleteRequests

\* A request that will make the page ask for the list again, or has shown what
\* the server does not have yet.
Matters(r) == r.kind = "order" \/ r.phase \in {"done", "lost"}

\* The page has nothing that the server does not have, or something is under
\* way that will bring it.
ListIsComing ==
    ~missedRow =>
        \/ \E r \in reorders : Matters(r)
        \/ fetch.phase = "sent"
        \/ fetch.phase = "served" /\ fetch.data = order
        \/ fetch.phase = "none" /\ cached = order

\* In the section of rules, as long as nothing but moves was done and nothing
\* failed: one move at a time is sent, the page shows what all presses ask for,
\* no fetch crosses a move, and what a fetch brings is the server's order.
OneMoveAtATime ==
    section.move = "waits" /\ others = 0 /\ ~failed =>
        /\ askedRow = {} /\ cached.order = wanted
        /\ \A r \in reorders : r.kind = "order" /\ r.ids = wanted /\ fetch.phase = "none"
        /\ \A q, r \in reorders : q = r
        /\ \A r \in reorders : r.phase \in {"done", "lost"} => order.order = wanted
        /\ reorders = {} => order.order = wanted
        /\ fetch.phase = "served" => fetch.data.order = wanted

ListsInv == Lists!TypeOK /\ RequestsOK /\ ListIsComing /\ OneMoveAtATime

LEMMA ListsAre == Lists!Lists = [order : Arrangements, on : SUBSET Rows]
  BY Counted DEF Lists!Lists, Arrangements

LEMMA EmptyFetch ==
  ASSUME IsFiniteSet(Rows)
  PROVE  Lists!NoFetch \in [phase : {"none", "sent", "served"}, data : Lists!Lists]
  <1>2. 0 \in 0..Cardinality(Rows)
    BY FS_CardinalityType
  <1>1. <<>> \in [1..0 -> Rows] /\ Lists!IsInjective(<<>>)
    BY DEF Lists!IsInjective
  <1> QED  BY <1>1, <1>2, ListsAre DEF Lists!NoFetch, Arrangements

LEMMA FetchIsSent ==
  ASSUME Lists!Assumptions
  PROVE  [Lists!NoFetch EXCEPT !.phase = "sent"] \in [phase : {"none", "sent", "served"}, data : Lists!Lists]
  BY EmptyFetch, Counted DEF Lists!Assumptions

LEMMA PhasedRequest ==
  ASSUME NEW r \in OrderRequests \cup SwitchRequests \cup DeleteRequests, NEW ph \in Answers
  PROVE  /\ [r EXCEPT !.phase = ph] \in OrderRequests \cup SwitchRequests \cup DeleteRequests
         /\ [r EXCEPT !.phase = ph].kind = r.kind /\ [r EXCEPT !.phase = ph].phase = ph
         /\ r.kind = "order" => [r EXCEPT !.phase = ph].ids = r.ids
  <1>1. CASE r \in OrderRequests
    BY <1>1 DEF OrderRequests
  <1>2. CASE r \in SwitchRequests
    BY <1>2 DEF SwitchRequests
  <1>3. CASE r \in DeleteRequests
    BY <1>3 DEF DeleteRequests
  <1> QED  BY <1>1, <1>2, <1>3

LEMMA InitLists == ASSUME Lists!Assumptions, Lists!Init PROVE ListsInv
  <1>1. IsFiniteSet(Rows)
    BY Counted DEF Lists!Assumptions
  <1>2. order \in Lists!Lists /\ cached \in Lists!Lists /\ cached.order = wanted /\ order.order = wanted
    BY <1>1, ArrangementOfRows, ListsAre DEF Lists!Init
  <1>3. askedRow = {} /\ Lists!Cardinality(askedRow) = 0
    BY FS_EmptySet, Counted DEF Lists!Init
  <1>5. fetch \in [phase : {"none", "sent", "served"}, data : Lists!Lists]
    BY <1>1, EmptyFetch DEF Lists!Init
  <1>6. moves \in 0..MaxMoves /\ others \in 0..MaxOther /\ Lists!Cardinality(askedRow) <= 1
    BY <1>3 DEF Lists!Init, Lists!Assumptions
  <1>4. Lists!TypeOK
    BY <1>2, <1>3, <1>5, <1>6 DEF Lists!Init, Lists!TypeOK
  <1> QED  BY <1>2, <1>4 DEF Lists!Init, ListsInv, RequestsOK, ListIsComing, OneMoveAtATime, Lists!NoFetch

LEMMA MoveStep ==
  ASSUME Lists!Assumptions, ListsInv, NEW i \in Rows, NEW d \in {-1, 1}, Lists!HandleMove(i, d)
  PROVE  ListsInv'
  <1> DEFINE next == Lists!MoveItem(cached.order, Lists!Place(cached.order, i), d)
             r == [kind |-> "order", n |-> moves, ids |-> next, previous |-> cached, phase |-> "sent"]
  <1>0. IsFiniteSet(Rows) /\ cached \in [order : Arrangements, on : SUBSET Rows]
    BY Counted, ListsAre DEF Lists!Assumptions, ListsInv, Lists!TypeOK
  <1>1. /\ moves < MaxMoves /\ moves' = moves + 1 /\ askedRow = {} /\ Lists!ArrowsEnabled
        /\ i \in Lists!Range(cached.order)
        /\ cached' = [cached EXCEPT !.order = next] /\ fetch' = Lists!NoFetch
        /\ reorders' = reorders \cup {r}
        /\ wanted' = IF i \in Lists!Range(wanted)
                       THEN Lists!MoveItem(wanted, Lists!Place(wanted, i), d) ELSE wanted
        /\ UNCHANGED <<section, order, askedRow, others, failed, missedRow>>
    BY DEF Lists!HandleMove, Lists!ShownAtOnce
  <1>2. next \in Arrangements
    BY <1>0, <1>1, PlaceInOrder, MovedIsArrangement
  <1>3. r \in OrderRequests /\ RequestsOK'
    BY <1>0, <1>1, <1>2, ListsAre DEF OrderRequests, ListsInv, RequestsOK, Lists!TypeOK, Answers
  <1>4. cached' \in Lists!Lists /\ moves' \in 0..MaxMoves
    BY <1>0, <1>1, <1>2, ListsAre DEF ListsInv, Lists!TypeOK, Lists!Assumptions
  <1>5. \A q \in reorders' : q.kind \in {"order", "switch", "delete"} /\ q.phase \in Answers
    BY <1>3 DEF RequestsOK, OrderRequests, SwitchRequests, DeleteRequests
  <1>6. Lists!TypeOK'
    BY <1>0, <1>1, <1>4, <1>5, EmptyFetch DEF ListsInv, Lists!TypeOK, Answers
  <1>10. r \in reorders' /\ r.kind = "order" /\ r.ids = next /\ r.phase = "sent"
    BY <1>1
  <1> HIDE DEF r
  <1>7. ListIsComing'
    BY <1>10 DEF ListIsComing, Matters
  <1>8. ASSUME section.move = "waits", others = 0, ~failed PROVE OneMoveAtATime'
    <2>1. reorders = {}
      BY <1>1, <1>8 DEF Lists!ArrowsEnabled, Lists!Orders, ListsInv, OneMoveAtATime
    <2>2. cached.order = wanted
      BY <1>8 DEF ListsInv, OneMoveAtATime
    <2>3. cached'.order = next /\ wanted' = next
      BY <1>0, <1>1, <2>2
    <2>4. reorders' = {r} /\ fetch'.phase = "none"
      BY <1>1, <2>1 DEF Lists!NoFetch
    <2>5. UNCHANGED order /\ askedRow' = {}
      BY <1>1
    <2> HIDE DEF next
    <2> QED  BY <1>10, <2>3, <2>4, <2>5 DEF OneMoveAtATime
  <1>9. OneMoveAtATime'
    BY <1>1, <1>8 DEF OneMoveAtATime
  <1> QED  BY <1>3, <1>6, <1>7, <1>9 DEF ListsInv

LEMMA ServeStep ==
  ASSUME Lists!Assumptions, ListsInv, NEW r \in reorders, Lists!Serve(r)
  PROVE  ListsInv'
  <1>0. IsFiniteSet(Rows) /\ order \in [order : Arrangements, on : SUBSET Rows]
    BY Counted, ListsAre DEF Lists!Assumptions, ListsInv, Lists!TypeOK
  <1>1. /\ r.phase = "sent"
        /\ UNCHANGED <<section, cached, fetch, askedRow, moves, others, wanted, failed, missedRow>>
    BY DEF Lists!Serve
  <1>2. PICK ph \in {"done", "lost", "refused"} :
          /\ reorders' = (reorders \ {r}) \cup {[r EXCEPT !.phase = ph]}
          /\ IF ph = "refused" THEN UNCHANGED order ELSE order' = Lists!Applied(r)
    BY DEF Lists!Serve
  <1> DEFINE t == [r EXCEPT !.phase = ph]
  <1>3. /\ t \in OrderRequests \cup SwitchRequests \cup DeleteRequests
        /\ t.kind = r.kind /\ t.phase = ph /\ (r.kind = "order" => t.ids = r.ids)
    <2>1. r \in OrderRequests \cup SwitchRequests \cup DeleteRequests /\ ph \in Answers
      BY <1>2 DEF ListsInv, RequestsOK, Answers
    <2> QED  BY <2>1, PhasedRequest
  <1>4. RequestsOK'
    BY <1>2, <1>3 DEF ListsInv, RequestsOK
  <1>5. \A q \in reorders' : q.kind \in {"order", "switch", "delete"} /\ q.phase \in Answers
    BY <1>4 DEF RequestsOK, OrderRequests, SwitchRequests, DeleteRequests
  <1>6. order' \in Lists!Lists
    <2>1. CASE r \in OrderRequests
      BY <1>0, <1>2, <2>1, ListsAre DEF OrderRequests, Lists!Applied
    <2>2. CASE r \in SwitchRequests
      BY <1>0, <1>2, <2>2, ListsAre DEF SwitchRequests, Lists!Applied
    <2>3. CASE r \in DeleteRequests
      BY <1>0, <1>2, <2>3, ListsAre, WithoutIsArrangement DEF DeleteRequests, Lists!Applied
    <2> QED  BY <2>1, <2>2, <2>3 DEF ListsInv, RequestsOK
  <1>7. Lists!TypeOK'
    BY <1>1, <1>5, <1>6 DEF ListsInv, Lists!TypeOK, Answers
  <1>8. ListIsComing'
    <2>1. CASE ph = "refused"
      <3>1. \A q \in reorders : Matters(q) => \E u \in reorders' : Matters(u)
        BY <1>1, <1>2, <1>3 DEF Matters
      <3> QED  BY <1>1, <1>2, <2>1, <3>1 DEF ListsInv, ListIsComing
    <2>2. CASE ph # "refused"
      BY <1>2, <1>3, <2>2 DEF ListIsComing, Matters
    <2> QED  BY <2>1, <2>2
  <1>9. ASSUME section.move = "waits", others = 0, ~failed PROVE OneMoveAtATime'
    <2>1. /\ r.kind = "order" /\ r.ids = wanted /\ fetch.phase = "none" /\ cached.order = wanted
          /\ reorders = {r} /\ askedRow = {}
      BY <1>9 DEF ListsInv, OneMoveAtATime
    <2>2. reorders' = {t} /\ t.kind = "order" /\ t.ids = wanted
      BY <1>2, <1>3, <2>1
    <2>3. ph \in {"done", "lost"} => order'.order = wanted
      BY <1>0, <1>2, <2>1 DEF Lists!Applied
    <2> QED  BY <1>1, <1>3, <2>1, <2>2, <2>3 DEF OneMoveAtATime
  <1>10. OneMoveAtATime'
    BY <1>1, <1>9 DEF OneMoveAtATime
  <1> QED  BY <1>4, <1>7, <1>8, <1>10 DEF ListsInv

LEMMA ReorderEndsStep ==
  ASSUME Lists!Assumptions, ListsInv, NEW r \in reorders, Lists!ReorderEnds(r) PROVE ListsInv'
  <1>1. /\ r.kind = "order" /\ r.phase # "sent"
        /\ reorders' = reorders \ {r}
        /\ cached' = IF r.phase = "done" THEN cached ELSE r.previous
        /\ fetch' = [Lists!NoFetch EXCEPT !.phase = "sent"]
        /\ failed' = (failed \/ r.phase # "done")
        /\ UNCHANGED <<section, order, askedRow, moves, others, wanted, missedRow>>
    BY DEF Lists!ReorderEnds, Lists!ReorderSettles, Lists!FetchSent
  <1>2. r.previous \in Lists!Lists /\ r.phase \in Answers
    BY <1>1 DEF ListsInv, RequestsOK, OrderRequests, SwitchRequests, DeleteRequests
  <1>3. fetch'.phase = "sent"
    BY <1>1 DEF Lists!NoFetch
  <1>4. fetch' \in [phase : {"none", "sent", "served"}, data : Lists!Lists]
    BY <1>1, FetchIsSent DEF ListsInv
  <1>5. Lists!TypeOK'
    BY <1>1, <1>2, <1>4 DEF ListsInv, Lists!TypeOK
  <1>6. OneMoveAtATime'
    BY <1>1, <1>3 DEF ListsInv, OneMoveAtATime
  <1> QED  BY <1>1, <1>3, <1>5, <1>6 DEF ListsInv, ListIsComing, RequestsOK

LEMMA RowRequestEndsStep ==
  ASSUME Lists!Assumptions, ListsInv, NEW r \in reorders, Lists!RowRequestEnds(r) PROVE ListsInv'
  <1>1. /\ r.kind # "order" /\ r.phase # "sent"
        /\ reorders' = reorders \ {r}
        /\ fetch' = IF r.phase = "done" \/ section.settles
                      THEN [Lists!NoFetch EXCEPT !.phase = "sent"] ELSE fetch
        /\ missedRow' = (missedRow \/ (r.phase = "lost" /\ ~section.settles))
        /\ UNCHANGED <<section, order, cached, askedRow, moves, others, wanted, failed>>
    BY DEF Lists!RowRequestEnds, Lists!FetchSent
  <1>2. [Lists!NoFetch EXCEPT !.phase = "sent"].phase = "sent"
    BY DEF Lists!NoFetch
  <1>3. fetch' \in [phase : {"none", "sent", "served"}, data : Lists!Lists]
    BY <1>1, FetchIsSent DEF ListsInv, Lists!TypeOK
  <1>4. Lists!TypeOK'
    BY <1>1, <1>3 DEF ListsInv, Lists!TypeOK
  <1>5. ListIsComing'
    <2>1. CASE r.phase = "done" \/ section.settles
      BY <1>1, <1>2, <2>1 DEF ListIsComing
    <2>2. CASE ~(r.phase = "done" \/ section.settles)
      BY <1>1, <2>2 DEF ListsInv, ListIsComing, Matters
    <2> QED  BY <2>1, <2>2
  <1>6. OneMoveAtATime'
    BY <1>1 DEF ListsInv, OneMoveAtATime
  <1> QED  BY <1>1, <1>4, <1>5, <1>6 DEF ListsInv, RequestsOK

\* Switches, deletions and the question before them: nothing of the section of
\* rules is claimed any more, or nothing is changed.
LEMMA RowStep ==
  ASSUME Lists!Assumptions, ListsInv,
         \/ \E i \in Rows : Lists!HandleToggleEnabled(i) \/ Lists!HandleDelete(i)
         \/ \E ok \in BOOLEAN : Lists!Settle(ok)
  PROVE  ListsInv'
  <1>1. UNCHANGED <<section, order, cached, fetch, moves, wanted, failed, missedRow>>
    BY DEF Lists!HandleToggleEnabled, Lists!HandleDelete, Lists!Settle
  <1>2. others' \in 0..MaxOther /\ (others' = 0 => others = 0 /\ askedRow # {})
    BY DEF Lists!HandleToggleEnabled, Lists!HandleDelete, Lists!Settle, ListsInv, Lists!TypeOK,
       Lists!Assumptions
  <1>3. askedRow' \in SUBSET Rows /\ Lists!Cardinality(askedRow') <= 1
    <2>1. Lists!Cardinality({}) = 0 /\ \A i : Lists!Cardinality({i}) = 1
      BY Counted, FS_EmptySet, FS_Singleton
    <2>2. askedRow' \in {askedRow, {}} \/ \E i \in Rows : askedRow' = {i}
      BY DEF Lists!HandleToggleEnabled, Lists!HandleDelete, Lists!Settle
    <2>3. askedRow \in SUBSET Rows /\ Lists!Cardinality(askedRow) <= 1
      BY DEF ListsInv, Lists!TypeOK
    <2>4. CASE askedRow' = askedRow
      BY <2>3, <2>4
    <2>5. CASE askedRow' = {}
      BY <2>1, <2>5
    <2>6. ASSUME NEW i \in Rows, askedRow' = {i} PROVE askedRow' \in SUBSET Rows /\ Lists!Cardinality(askedRow') <= 1
      BY <2>1, <2>6
    <2> QED  BY <2>2, <2>4, <2>5, <2>6
  <1>4. reorders \subseteq reorders' /\ RequestsOK'
    <2>1. ASSUME NEW i \in Rows, Lists!HandleToggleEnabled(i) PROVE reorders \subseteq reorders' /\ RequestsOK'
      <3>1. [kind |-> "switch", n |-> others, row |-> i, on |-> i \notin cached.on, phase |-> "sent"]
              \in SwitchRequests
        BY DEF SwitchRequests, Answers, ListsInv, Lists!TypeOK, Lists!Assumptions
      <3> QED  BY <2>1, <3>1 DEF Lists!HandleToggleEnabled, ListsInv, RequestsOK
    <2>2. ASSUME NEW i \in Rows, Lists!HandleDelete(i) PROVE reorders \subseteq reorders' /\ RequestsOK'
      BY <2>2 DEF Lists!HandleDelete, ListsInv, RequestsOK
    <2>3. ASSUME NEW ok \in BOOLEAN, Lists!Settle(ok) PROVE reorders \subseteq reorders' /\ RequestsOK'
      <3>1. \A i \in askedRow : [kind |-> "delete", n |-> others, row |-> i, phase |-> "sent"] \in DeleteRequests
        BY DEF DeleteRequests, Answers, ListsInv, Lists!TypeOK, Lists!Assumptions
      <3> QED  BY <2>3, <3>1 DEF Lists!Settle, ListsInv, RequestsOK
    <2> QED  BY <2>1, <2>2, <2>3
  <1>5. \A q \in reorders' : q.kind \in {"order", "switch", "delete"} /\ q.phase \in Answers
    BY <1>4 DEF RequestsOK, OrderRequests, SwitchRequests, DeleteRequests
  <1>6. Lists!TypeOK'
    BY <1>1, <1>2, <1>3, <1>5 DEF ListsInv, Lists!TypeOK, Answers
  <1>7. ListIsComing'
    BY <1>1, <1>4 DEF ListsInv, ListIsComing
  <1>8. OneMoveAtATime'
    BY <1>1, <1>2 DEF ListsInv, OneMoveAtATime
  <1> QED  BY <1>4, <1>6, <1>7, <1>8 DEF ListsInv

LEMMA StepLists == ASSUME Lists!Assumptions, ListsInv, [Lists!Next]_listsVars PROVE ListsInv'
  <1>1. CASE Lists!ServeList
    <2>1. order \in Lists!Lists
      BY DEF ListsInv, Lists!TypeOK
    <2> QED  BY <1>1, <2>1 DEF Lists!ServeList, ListsInv, Lists!TypeOK, RequestsOK, ListIsComing, OneMoveAtATime
  <1>2. CASE Lists!ListArrives
    <2>1. /\ fetch.phase = "served" /\ cached' = fetch.data /\ fetch' = Lists!NoFetch
          /\ UNCHANGED <<section, order, reorders, askedRow, moves, others, wanted, failed, missedRow>>
      BY <1>2 DEF Lists!ListArrives
    <2>2. IsFiniteSet(Rows)
      BY Counted DEF Lists!Assumptions
    <2>3. Lists!TypeOK'
      BY <2>1, <2>2, EmptyFetch DEF ListsInv, Lists!TypeOK
    <2> QED  BY <2>1, <2>3 DEF ListsInv, RequestsOK, ListIsComing, OneMoveAtATime, Lists!NoFetch
  <1>3. CASE UNCHANGED listsVars
    BY <1>3 DEF listsVars, ListsInv, Lists!TypeOK, RequestsOK, ListIsComing, OneMoveAtATime
  <1> QED  BY <1>1, <1>2, <1>3, MoveStep, ServeStep, ReorderEndsStep, RowRequestEndsStep, RowStep
           DEF Lists!Next

LEMMA ListsPromises == ASSUME ListsInv PROVE Lists!QuietListIsServer /\ Lists!MovesAdd
  <1>1. Lists!QuietListIsServer
    BY DEF ListsInv, ListIsComing, Lists!QuietListIsServer
  <1>2. Lists!MovesAdd
    BY DEF ListsInv, OneMoveAtATime, Lists!MovesAdd, Lists!Orders
  <1> QED  BY <1>1, <1>2

----------------------------------------------------------------------------
(* Records that are edited in a dialog (AdminEditors).                     *)

\* Requests about a row name one.
RowsNamed == \A s \in Editors!NetSlots :
    editorsNet[s].method \in {"GET row", "PUT row"} => editorsNet[s].id \in Records

EditorsTypes == Editors!TypeOK /\ RowsNamed

\* On a page whose form is filled by the click: what the open form and the
\* open question are about is what the user chose last.
ChosenOpen ==
    Editors!ClickFilled =>
        /\ form.open => IF form.edit THEN form.id = meant.edit /\ form.id # Editors!NoRecord
                                     ELSE form.id = Editors!NoRecord /\ meant.edit = Editors!NoRecord
        /\ asked.open => /\ ~form.open
                         /\ meant.delete = IF editorsPage.asks = "form" THEN form.id ELSE asked.id
        /\ \A s \in Editors!NetSlots : editorsNet[s].method # "GET row"

ChosenInv == ChosenOpen /\ Editors!MeantAsSent

Mutations == {"POST", "PUT", "DELETE", "PUT row"}

\* Slot s: a change the server has made is on its way to the page, or the list
\* is, as it is now.
Brings(s) ==
    \/ editorsNet[s].method \in Mutations /\ editorsNet[s].phase \in {"done", "lost"}
    \/ /\ editorsNet[s].method = "GET list"
       /\ editorsNet[s].phase = "done" => editorsNet[s].list = rows

\* On the pages of React one request for the list is in flight, and the page
\* has what the server has unless that request, or the answer to a change,
\* will bring it.
ListComing ==
    editorsPage.latest =>
        /\ \A s, t \in Editors!NetSlots :
              editorsNet[s].method = "GET list" /\ editorsNet[t].method = "GET list" => s = t
        /\ \/ missed
           \/ \E s \in Editors!NetSlots : Brings(s)
           \/ listed = rows /\ \A s \in Editors!NetSlots : editorsNet[s].method # "GET list"

EditorsInv == EditorsTypes /\ ChosenInv /\ ListComing

LEMMA RequestIsRequest ==
  ASSUME Editors!Assumptions, NEW m \in Editors!Methods, NEW i \in Records \cup {Editors!NoRecord},
         NEW c \in Editors!Contents, NEW w \in Records \cup {Editors!NoRecord}
  PROVE  Editors!Request(m, i, c, w) \in Editors!Requests
  <1>1. Editors!NoList \in [Records -> Editors!Contents]
    BY DEF Editors!NoList, Editors!Contents, Editors!Assumptions
  <1> QED  BY <1>1 DEF Editors!Request, Editors!Requests, Editors!Phases

\* The slots after a request is sent, forgotten, or replaced by one for the list.
LEMMA SentTypes ==
  ASSUME EditorsTypes, NEW s \in Editors!NetSlots, NEW r \in Editors!Requests \cup {Editors!Idle},
         r.method \in {"GET row", "PUT row"} => r.id \in Records,
         editorsNet' = [editorsNet EXCEPT ![s] = r]
  PROVE  editorsNet' \in [Editors!NetSlots -> Editors!Requests \cup {Editors!Idle}] /\ RowsNamed'
  BY DEF EditorsTypes, Editors!TypeOK, RowsNamed, Editors!NetSlots

LEMMA IdleMethod == Editors!Idle.method = "idle"
  BY DEF Editors!Idle

LEMMA RefetchedTypes ==
  ASSUME Editors!Assumptions, EditorsTypes, NEW s \in Editors!NetSlots, editorsNet' = Editors!Refetched(s)
  PROVE  /\ editorsNet' \in [Editors!NetSlots -> Editors!Requests \cup {Editors!Idle}]
         /\ RowsNamed'
  <1> DEFINE q == Editors!Request("GET list", Editors!NoRecord, 0, Editors!NoRecord)
  <1>1. q \in Editors!Requests /\ q.method = "GET list"
    <2>1. PICK m \in Editors!Methods : m = "GET list"
      BY DEF Editors!Methods
    <2>2. PICK c \in Editors!Contents : c = 0
      BY DEF Editors!Contents, Editors!Assumptions
    <2>3. Editors!Request(m, Editors!NoRecord, c, Editors!NoRecord) \in Editors!Requests
      BY RequestIsRequest
    <2>4. Editors!Request(m, Editors!NoRecord, c, Editors!NoRecord).method = m
      BY DEF Editors!Request
    <2>5. q = Editors!Request(m, Editors!NoRecord, c, Editors!NoRecord)
      BY <2>1, <2>2
    <2> QED  BY <2>1, <2>3, <2>4, <2>5
  <1>2. \A t \in Editors!NetSlots : editorsNet'[t] \in {q, Editors!Idle, editorsNet[t]}
    BY DEF Editors!Refetched, Editors!NetSlots
  <1>3. editorsNet' = [t \in Editors!NetSlots |-> editorsNet'[t]]
    BY DEF Editors!Refetched, Editors!NetSlots
  <1>4. \A t \in Editors!NetSlots : editorsNet[t] \in Editors!Requests \cup {Editors!Idle}
    BY DEF EditorsTypes, Editors!TypeOK
  <1> HIDE DEF q
  <1> QED  BY <1>1, <1>2, <1>3, <1>4, IdleMethod DEF EditorsTypes, RowsNamed, Editors!NetSlots

LEMMA InitEditors == ASSUME Editors!Assumptions, Editors!Init PROVE EditorsInv
  <1>1. RowsNamed /\ ChosenInv /\ ListComing
    BY IdleMethod DEF Editors!Init, RowsNamed, ChosenInv, ChosenOpen, Editors!MeantAsSent, ListComing,
       Editors!ClosedForm, Editors!NetSlots
  <1>2. /\ rows \in [Records -> Editors!Contents] /\ listed \in [Records -> Editors!Contents]
        /\ 0 \in Editors!Contents /\ clicks \in 0..MaxClicks
        /\ editorsNet \in [Editors!NetSlots -> Editors!Requests \cup {Editors!Idle}]
    BY DEF Editors!Init, Editors!Contents, Editors!Assumptions
  <1>3. form \in [open : BOOLEAN, edit : BOOLEAN, id : Records \cup {Editors!NoRecord},
                  content : Editors!Contents]
    BY <1>2 DEF Editors!Init, Editors!ClosedForm
  <1>4. Editors!TypeOK
    BY <1>2, <1>3 DEF Editors!Init, Editors!TypeOK, Editors!Assumptions
  <1> QED  BY <1>1, <1>4 DEF EditorsInv, EditorsTypes

\* What is asked of the requests in flight: who they are about.
Meant(r) ==
    /\ r.method = "POST" => r.meant = Editors!NoRecord
    /\ r.method \in {"PUT", "DELETE"} => r.id = r.meant
    /\ r.method # "GET row"

LEMMA MeantRequests ==
  ChosenInv <=> /\ ChosenOpen
                /\ Editors!ClickFilled => \A s \in Editors!NetSlots : Meant(editorsNet[s])
  BY IdleMethod DEF ChosenInv, ChosenOpen, Editors!MeantAsSent, Meant

\* Sending a request changes its slot, and hides nothing of the list.
LEMMA SendKeeps ==
  ASSUME Editors!Assumptions, EditorsInv, NEW s \in Editors!Free,
         NEW m \in Editors!Methods, m # "GET list", NEW i \in Records \cup {Editors!NoRecord},
         m \in {"GET row", "PUT row"} => i \in Records,
         NEW c \in Editors!Contents, NEW w \in Records \cup {Editors!NoRecord},
         Editors!Sent(s, Editors!Request(m, i, c, w)),
         UNCHANGED <<editorsPage, rows, listed, missed>>
  PROVE  /\ editorsNet' \in [Editors!NetSlots -> Editors!Requests \cup {Editors!Idle}]
         /\ RowsNamed' /\ ListComing'
         /\ \A t \in Editors!NetSlots : t # s => editorsNet'[t] = editorsNet[t]
         /\ s \in Editors!NetSlots /\ editorsNet'[s].method = m /\ editorsNet'[s].id = i
         /\ editorsNet'[s].meant = w
  <1> DEFINE r == Editors!Request(m, i, c, w)
  <1>1. r \in Editors!Requests /\ r.method = m /\ r.id = i /\ r.meant = w /\ r.phase = "sent"
    <2>1. Editors!Request(m, i, c, w) \in Editors!Requests
      BY RequestIsRequest
    <2>2. r.method = m /\ r.id = i /\ r.meant = w /\ r.phase = "sent"
      BY DEF Editors!Request
    <2> QED  BY <2>1, <2>2
  <1>2. s \in Editors!NetSlots /\ editorsNet[s] = Editors!Idle /\ editorsNet' = [editorsNet EXCEPT ![s] = r]
    BY DEF Editors!Free, Editors!Sent
  <1> HIDE DEF r
  <1>3. editorsNet' \in [Editors!NetSlots -> Editors!Requests \cup {Editors!Idle}] /\ RowsNamed'
    BY <1>1, <1>2, SentTypes DEF EditorsInv
  <1>4. editorsNet'[s] = r /\ \A t \in Editors!NetSlots : t # s => editorsNet'[t] = editorsNet[t]
    BY <1>2 DEF EditorsInv, EditorsTypes, Editors!TypeOK
  <1>5. \A t \in Editors!NetSlots : Brings(t) => t # s /\ Brings(t)'
    <2> SUFFICES ASSUME NEW t \in Editors!NetSlots, Brings(t) PROVE t # s /\ Brings(t)'
      OBVIOUS
    <2>1. editorsNet[s].method = "idle"
      BY <1>2, IdleMethod
    <2>2. t # s
      BY <2>1 DEF Brings, Mutations
    <2>3. editorsNet'[t] = editorsNet[t]
      BY <1>4, <2>2
    <2> QED  BY <2>2, <2>3 DEF Brings
  <1>6. ListComing'
    <2>1. \A t \in Editors!NetSlots : editorsNet'[t].method = "GET list" => t # s /\ editorsNet[t].method = "GET list"
      BY <1>1, <1>4
    <2>2. ASSUME editorsPage.latest, NEW t \in Editors!NetSlots, Brings(t)
          PROVE  \E u \in Editors!NetSlots : Brings(u)'
      BY <1>5, <2>2
    <2> QED  BY <2>1, <2>2 DEF EditorsInv, ListComing
  <1> QED  BY <1>1, <1>2, <1>3, <1>4, <1>6

\* Clicks and typing: what they write into the form and the question.
EditorsForm == [open : BOOLEAN, edit : BOOLEAN, id : Records \cup {Editors!NoRecord}, content : Editors!Contents]

\* Steps that send nothing.
LEMMA NothingSent ==
  ASSUME EditorsInv, UNCHANGED <<editorsPage, rows, listed, missed, editorsNet>>
  PROVE  RowsNamed' /\ ListComing'
  BY DEF EditorsInv, EditorsTypes, RowsNamed, ListComing, Brings

LEMMA FormSteps ==
  ASSUME Editors!Assumptions, EditorsInv,
         \/ Editors!OpenCreate \/ Editors!CloseForm \/ Editors!RefuseDelete
         \/ \E c \in Editors!Contents : Editors!Type(c)
  PROVE  EditorsInv'
  <1>1. UNCHANGED <<editorsPage, rows, listed, missed, editorsNet, editorsSaving, deleting>>
    BY DEF Editors!OpenCreate, Editors!CloseForm, Editors!RefuseDelete, Editors!Type
  <1>0. form \in EditorsForm /\ asked \in [open : BOOLEAN, id : Records \cup {Editors!NoRecord}]
    BY DEF EditorsInv, EditorsTypes, Editors!TypeOK, EditorsForm
  <1>2. form' \in EditorsForm /\ asked' \in [open : BOOLEAN, id : Records \cup {Editors!NoRecord}]
    <2>1. CASE Editors!OpenCreate
      <3>1. Editors!CreateForm \in EditorsForm
        BY DEF Editors!CreateForm, EditorsForm, Editors!Contents, Editors!Assumptions
      <3> QED  BY <1>0, <2>1, <3>1 DEF Editors!OpenCreate
    <2>2. CASE Editors!CloseForm
      BY <1>0, <2>2 DEF Editors!CloseForm, EditorsForm
    <2>3. CASE Editors!RefuseDelete
      BY <1>0, <2>3 DEF Editors!RefuseDelete
    <2>4. ASSUME NEW c \in Editors!Contents, Editors!Type(c)
          PROVE  form' \in EditorsForm /\ asked' \in [open : BOOLEAN, id : Records \cup {Editors!NoRecord}]
      BY <1>0, <2>4 DEF Editors!Type, EditorsForm
    <2> QED  BY <2>1, <2>2, <2>3, <2>4
  <1>3. /\ clicks' \in 0..MaxClicks
        /\ meant' \in [edit : Records \cup {Editors!NoRecord}, delete : Records \cup {Editors!NoRecord}]
    BY DEF Editors!OpenCreate, Editors!Click, Editors!CloseForm, Editors!RefuseDelete, Editors!Type,
       EditorsInv, EditorsTypes, Editors!TypeOK, Editors!Assumptions
  <1>4. Editors!TypeOK'
    BY <1>1, <1>2, <1>3 DEF EditorsInv, EditorsTypes, Editors!TypeOK, EditorsForm
  <1>5. ChosenOpen'
    <2> USE DEF ChosenOpen, Editors!ClickFilled
    <2>0. ChosenOpen
      BY DEF EditorsInv, ChosenInv
    <2>1. CASE Editors!OpenCreate
      BY <1>1, <2>0, <2>1 DEF Editors!OpenCreate, Editors!CreateForm, Editors!TableReachable,
         EditorsInv, EditorsTypes, Editors!TypeOK
    <2>2. CASE Editors!CloseForm
      BY <1>0, <1>1, <2>0, <2>2 DEF Editors!CloseForm, EditorsForm
    <2>3. CASE Editors!RefuseDelete
      BY <1>1, <2>0, <2>3 DEF Editors!RefuseDelete
    <2>4. ASSUME NEW c \in Editors!Contents, Editors!Type(c) PROVE ChosenOpen'
      BY <1>0, <1>1, <2>0, <2>4 DEF Editors!Type, EditorsForm
    <2> QED  BY <2>1, <2>2, <2>3, <2>4
  <1>6. Editors!MeantAsSent'
    BY <1>1 DEF EditorsInv, ChosenInv, Editors!MeantAsSent, Editors!ClickFilled
  <1> QED  BY <1>1, <1>4, <1>5, <1>6, NothingSent DEF EditorsInv, EditorsTypes, ChosenInv

\* A request was sent for which the user's choice stands.
SentMeant(s) ==
    /\ \A t \in Editors!NetSlots : t # s => editorsNet'[t] = editorsNet[t]
    /\ Editors!ClickFilled => Meant(editorsNet'[s])
    /\ UNCHANGED editorsPage

LEMMA SentKeepsMeant ==
  ASSUME EditorsInv, NEW s \in Editors!NetSlots, SentMeant(s), ChosenOpen' PROVE ChosenInv'
  <1>1. Editors!ClickFilled' => Editors!ClickFilled
    BY DEF SentMeant, Editors!ClickFilled
  <1>2. Editors!ClickFilled => \A t \in Editors!NetSlots : Meant(editorsNet[t])
    BY MeantRequests DEF EditorsInv
  <1>3. Editors!ClickFilled' => \A t \in Editors!NetSlots : Meant(editorsNet'[t])
    BY <1>1, <1>2 DEF SentMeant
  <1> QED  BY <1>3, MeantRequests, IdleMethod
           DEF ChosenInv, Editors!MeantAsSent, Meant

\* Clicks are counted up to their bound.
LEMMA ClickTypes ==
  ASSUME Editors!Assumptions, EditorsInv
  PROVE  0 \in Editors!Contents /\ (Editors!Click => clicks' \in 0..MaxClicks)
  BY DEF Editors!Click, Editors!Contents, EditorsInv, EditorsTypes, Editors!TypeOK, Editors!Assumptions

LEMMA OpenEditStep ==
  ASSUME Editors!Assumptions, EditorsInv, NEW i \in Records, Editors!OpenEdit(i) PROVE EditorsInv'
  <1> USE DEF Editors!OpenEdit, Editors!Click
  <1>1. /\ UNCHANGED <<editorsPage, rows, listed, editorsSaving, asked, deleting, missed>>
        /\ ~form.open /\ ~asked.open /\ i # Editors!NoRecord
    BY DEF Editors!TableReachable, Editors!Assumptions, Editors!NoRecord
  <1>2. /\ form \in EditorsForm /\ listed[i] \in Editors!Contents
        /\ meant \in [edit : Records \cup {Editors!NoRecord}, delete : Records \cup {Editors!NoRecord}]
    BY DEF EditorsInv, EditorsTypes, Editors!TypeOK, EditorsForm
  <1>3. /\ form' \in EditorsForm /\ clicks' \in 0..MaxClicks
        /\ meant' \in [edit : Records \cup {Editors!NoRecord}, delete : Records \cup {Editors!NoRecord}]
    <2>1. form' \in EditorsForm
      <3> USE <1>2 DEF EditorsForm
      <3>1. /\ [open |-> TRUE, edit |-> TRUE, id |-> i, content |-> listed[i]] \in EditorsForm
            /\ [form EXCEPT !.edit = TRUE] \in EditorsForm
        OBVIOUS
      <3>2. form' \in {[open |-> TRUE, edit |-> TRUE, id |-> i, content |-> listed[i]], [form EXCEPT !.edit = TRUE]}
        OBVIOUS
      <3> QED  BY <3>1, <3>2
    <2>2. clicks' \in 0..MaxClicks
      BY ClickTypes DEF Editors!Click
    <2>3. meant' \in [edit : Records \cup {Editors!NoRecord}, delete : Records \cup {Editors!NoRecord}]
      BY <1>2
    <2> QED  BY <2>1, <2>2, <2>3
  <1>4. CASE editorsPage.load = "row"
    <2>1. UNCHANGED editorsNet
      BY <1>4
    <2>2. RowsNamed' /\ ListComing'
      BY <1>1, <2>1, NothingSent
    <2>3. Editors!TypeOK'
      BY <1>1, <1>3, <2>1 DEF EditorsInv, EditorsTypes, Editors!TypeOK, EditorsForm
    <2>4. form' = [open |-> TRUE, edit |-> TRUE, id |-> i, content |-> listed[i]] /\ meant'.edit = i
      BY <1>2, <1>4
    <2>5. ChosenOpen'
      BY <1>1, <2>1, <2>4 DEF EditorsInv, ChosenInv, ChosenOpen, Editors!ClickFilled
    <2>6. Editors!MeantAsSent'
      BY <1>1, <2>1 DEF EditorsInv, ChosenInv, Editors!MeantAsSent, Editors!ClickFilled
    <2> QED  BY <2>2, <2>3, <2>5, <2>6 DEF EditorsInv, EditorsTypes, ChosenInv
  <1>5. CASE editorsPage.load # "row"
    <2>1. PICK m \in Editors!Methods : m = "GET row"
      BY DEF Editors!Methods
    <2>2. PICK c \in Editors!Contents : c = 0
      BY ClickTypes
    <2>3. PICK s \in Editors!Free : Editors!Sent(s, Editors!Request(m, i, c, i))
      BY <1>5, <2>1, <2>2 DEF Editors!Request
    <2>4. /\ editorsNet' \in [Editors!NetSlots -> Editors!Requests \cup {Editors!Idle}]
          /\ RowsNamed' /\ ListComing'
      BY <1>1, <2>1, <2>3, SendKeeps
    <2>5. Editors!TypeOK'
      BY <1>1, <1>3, <2>4 DEF EditorsInv, EditorsTypes, Editors!TypeOK, EditorsForm
    <2>6. ChosenInv'
      BY <1>1, <1>5 DEF ChosenInv, ChosenOpen, Editors!MeantAsSent, Editors!ClickFilled
    <2> QED  BY <2>4, <2>5, <2>6 DEF EditorsInv, EditorsTypes
  <1> QED  BY <1>4, <1>5

LEMMA SaveStep == ASSUME Editors!Assumptions, EditorsInv, Editors!Save PROVE EditorsInv'
  <1> USE DEF Editors!Save
  <1>1. /\ UNCHANGED <<editorsPage, rows, listed, form, asked, deleting, clicks, meant, missed>>
        /\ editorsSaving' \in BOOLEAN /\ form.open
    BY DEF Editors!SaveEnabled
  <1>2. /\ form.id \in Records \cup {Editors!NoRecord} /\ form.content \in Editors!Contents
        /\ meant.edit \in Records \cup {Editors!NoRecord}
    BY DEF EditorsInv, EditorsTypes, Editors!TypeOK
  <1>3. PICK m \in Editors!Methods : m = IF Editors!IsUpdate THEN "PUT" ELSE "POST"
    BY DEF Editors!Methods
  <1>4. PICK s \in Editors!Free : Editors!Sent(s, Editors!Request(m, form.id, form.content, meant.edit))
    BY <1>3
  <1>5. /\ editorsNet' \in [Editors!NetSlots -> Editors!Requests \cup {Editors!Idle}]
        /\ RowsNamed' /\ ListComing'
        /\ \A t \in Editors!NetSlots : t # s => editorsNet'[t] = editorsNet[t]
        /\ s \in Editors!NetSlots /\ editorsNet'[s].method = m /\ editorsNet'[s].id = form.id
        /\ editorsNet'[s].meant = meant.edit
    <2>1. m # "GET list" /\ m \notin {"GET row", "PUT row"}
      BY <1>3
    <2> QED  BY <1>1, <1>2, <1>4, <2>1, SendKeeps
  <1>6. Editors!TypeOK'
    BY <1>1, <1>5 DEF EditorsInv, EditorsTypes, Editors!TypeOK
  <1>7. ASSUME Editors!ClickFilled PROVE Meant(editorsNet'[s])
    BY <1>1, <1>3, <1>5, <1>7 DEF EditorsInv, ChosenInv, ChosenOpen, Editors!IsUpdate, Meant
  <1>8. ChosenOpen'
    BY <1>1, <1>3, <1>5 DEF EditorsInv, ChosenInv, ChosenOpen, Editors!ClickFilled
  <1>9. ChosenInv'
    BY <1>1, <1>5, <1>7, <1>8, SentKeepsMeant DEF SentMeant
  <1> QED  BY <1>5, <1>6, <1>9 DEF EditorsInv, EditorsTypes

LEMMA ToggleStep ==
  ASSUME Editors!Assumptions, EditorsInv, NEW i \in Records, Editors!Toggle(i) PROVE EditorsInv'
  <1>1. /\ UNCHANGED <<editorsPage, rows, listed, form, editorsSaving, asked, deleting, meant, missed>>
        /\ Editors!Click /\ \E s \in Editors!Free : Editors!Sent(s, Editors!Request("PUT row", i, listed[i], i))
    BY DEF Editors!Toggle
  <1>2. listed[i] \in Editors!Contents
    BY DEF EditorsInv, EditorsTypes, Editors!TypeOK
  <1>3. PICK m \in Editors!Methods : m = "PUT row"
    BY DEF Editors!Methods
  <1>4. PICK s \in Editors!Free : Editors!Sent(s, Editors!Request(m, i, listed[i], i))
    BY <1>1, <1>3 DEF Editors!Request
  <1>5. /\ editorsNet' \in [Editors!NetSlots -> Editors!Requests \cup {Editors!Idle}]
        /\ RowsNamed' /\ ListComing'
        /\ \A t \in Editors!NetSlots : t # s => editorsNet'[t] = editorsNet[t]
        /\ s \in Editors!NetSlots /\ editorsNet'[s].method = m
    <2>1. m # "GET list"
      BY <1>3
    <2> QED  BY <1>1, <1>2, <1>4, <2>1, SendKeeps
  <1>6. Editors!TypeOK'
    BY <1>1, <1>5, ClickTypes DEF EditorsInv, EditorsTypes, Editors!TypeOK
  <1>7. Meant(editorsNet'[s])
    BY <1>3, <1>5 DEF Meant
  <1>8. ChosenOpen'
    BY <1>1, <1>3, <1>5 DEF EditorsInv, ChosenInv, ChosenOpen, Editors!ClickFilled
  <1>9. ChosenInv'
    BY <1>1, <1>5, <1>7, <1>8, SentKeepsMeant DEF SentMeant
  <1> QED  BY <1>5, <1>6, <1>9 DEF EditorsInv, EditorsTypes

LEMMA AskDeleteStep ==
  ASSUME Editors!Assumptions, EditorsInv, NEW i \in Records, Editors!AskDelete(i) PROVE EditorsInv'
  <1>1. /\ UNCHANGED <<editorsPage, rows, listed, editorsSaving, deleting, missed>>
        /\ Editors!Click /\ meant' = [meant EXCEPT !.delete = i]
        /\ ~form.open /\ ~asked.open
    BY DEF Editors!AskDelete, Editors!TableReachable
  <1>2. /\ form \in EditorsForm /\ asked \in [open : BOOLEAN, id : Records \cup {Editors!NoRecord}]
        /\ meant \in [edit : Records \cup {Editors!NoRecord}, delete : Records \cup {Editors!NoRecord}]
    BY DEF EditorsInv, EditorsTypes, Editors!TypeOK, EditorsForm
  <1>3. /\ meant' \in [edit : Records \cup {Editors!NoRecord}, delete : Records \cup {Editors!NoRecord}]
        /\ meant'.edit = meant.edit /\ meant'.delete = i
    BY <1>1, <1>2
  <1>4. CASE /\ editorsPage.asks = "confirm()"
             /\ \E s \in Editors!Free : Editors!Sent(s, Editors!Request("DELETE", i, 0, i))
             /\ UNCHANGED <<form, asked>>
    <2>1. PICK m \in Editors!Methods : m = "DELETE"
      BY DEF Editors!Methods
    <2>2. PICK c \in Editors!Contents : c = 0
      BY ClickTypes
    <2>3. PICK s \in Editors!Free : Editors!Sent(s, Editors!Request(m, i, c, i))
      BY <1>4, <2>1, <2>2 DEF Editors!Request
    <2>4. /\ editorsNet' \in [Editors!NetSlots -> Editors!Requests \cup {Editors!Idle}]
          /\ RowsNamed' /\ ListComing'
          /\ \A t \in Editors!NetSlots : t # s => editorsNet'[t] = editorsNet[t]
          /\ s \in Editors!NetSlots /\ editorsNet'[s].method = m /\ editorsNet'[s].id = i
          /\ editorsNet'[s].meant = i
      <3>1. m # "GET list" /\ m \notin {"GET row", "PUT row"}
        BY <2>1
      <3> QED  BY <1>1, <2>3, <3>1, SendKeeps
    <2>5. Editors!TypeOK'
      BY <1>1, <1>2, <1>3, <1>4, <2>4, ClickTypes DEF EditorsInv, EditorsTypes, Editors!TypeOK, EditorsForm
    <2>6. Meant(editorsNet'[s])
      BY <2>1, <2>4 DEF Meant
    <2>7. ChosenOpen'
      BY <1>1, <1>4, <2>1, <2>4 DEF EditorsInv, ChosenInv, ChosenOpen, Editors!ClickFilled
    <2>8. ChosenInv'
      BY <1>1, <2>4, <2>6, <2>7, SentKeepsMeant DEF SentMeant
    <2> QED  BY <2>4, <2>5, <2>8 DEF EditorsInv, EditorsTypes
  <1>5. ASSUME UNCHANGED editorsNet,
               form' \in EditorsForm /\ form'.open = form.open,
               asked' \in [open : BOOLEAN, id : Records \cup {Editors!NoRecord}],
               asked'.open => i = IF editorsPage.asks = "form" THEN form'.id ELSE asked'.id
        PROVE  EditorsInv'
    <2>1. Editors!TypeOK'
      BY <1>1, <1>3, <1>5, ClickTypes DEF EditorsInv, EditorsTypes, Editors!TypeOK, EditorsForm
    <2>2. ChosenOpen'
      BY <1>1, <1>3, <1>5 DEF EditorsInv, ChosenInv, ChosenOpen, Editors!ClickFilled
    <2>3. Editors!MeantAsSent'
      BY <1>1, <1>5 DEF EditorsInv, ChosenInv, Editors!MeantAsSent, Editors!ClickFilled
    <2> QED  BY <1>1, <1>5, <2>1, <2>2, <2>3, NothingSent DEF EditorsInv, EditorsTypes, ChosenInv
  <1>6. CASE /\ editorsPage.asks = "target"
             /\ asked' = [open |-> TRUE, id |-> i]
             /\ UNCHANGED <<form, editorsNet>>
    <2>1. /\ asked' \in [open : BOOLEAN, id : Records \cup {Editors!NoRecord}]
          /\ i = IF editorsPage.asks = "form" THEN form'.id ELSE asked'.id
      BY <1>6
    <2> QED  BY <1>2, <1>5, <1>6, <2>1
  <1>7. CASE /\ editorsPage.asks = "form"
             /\ asked' = [open |-> TRUE, id |-> Editors!NoRecord]
             /\ form' = [form EXCEPT !.id = i]
             /\ UNCHANGED editorsNet
    <2>1. form' \in EditorsForm /\ form'.open = form.open /\ form'.id = i
      BY <1>2, <1>7 DEF EditorsForm
    <2>2. asked' \in [open : BOOLEAN, id : Records \cup {Editors!NoRecord}]
      BY <1>7
    <2> QED  BY <1>5, <1>7, <2>1, <2>2
  <1> QED  BY <1>4, <1>6, <1>7 DEF Editors!AskDelete

LEMMA ConfirmDeleteStep ==
  ASSUME Editors!Assumptions, EditorsInv, Editors!ConfirmDelete PROVE EditorsInv'
  <1> DEFINE who == IF editorsPage.asks = "form" THEN form.id ELSE asked.id
  <1>1. /\ UNCHANGED <<editorsPage, rows, listed, form, editorsSaving, clicks, meant, missed>>
        /\ asked.open /\ deleting' \in BOOLEAN
        /\ asked' = IF editorsPage.asks = "form" THEN asked ELSE [open |-> FALSE, id |-> Editors!NoRecord]
    BY DEF Editors!ConfirmDelete
  <1>2. /\ who \in Records \cup {Editors!NoRecord} /\ meant.delete \in Records \cup {Editors!NoRecord}
        /\ asked \in [open : BOOLEAN, id : Records \cup {Editors!NoRecord}]
    BY DEF EditorsInv, EditorsTypes, Editors!TypeOK
  <1>3. Editors!ClickFilled => meant.delete = who
    BY <1>1 DEF EditorsInv, ChosenInv, ChosenOpen
  <1>4. \E s \in Editors!Free : Editors!Sent(s, Editors!Request("DELETE", who, 0, meant.delete))
    BY DEF Editors!ConfirmDelete
  <1> HIDE DEF who
  <1>5. PICK m \in Editors!Methods : m = "DELETE"
    BY DEF Editors!Methods
  <1>6. PICK c \in Editors!Contents : c = 0
    BY ClickTypes
  <1>7. PICK s \in Editors!Free : Editors!Sent(s, Editors!Request(m, who, c, meant.delete))
    BY <1>4, <1>5, <1>6 DEF Editors!Request
  <1>8. /\ editorsNet' \in [Editors!NetSlots -> Editors!Requests \cup {Editors!Idle}]
        /\ RowsNamed' /\ ListComing'
        /\ \A t \in Editors!NetSlots : t # s => editorsNet'[t] = editorsNet[t]
        /\ s \in Editors!NetSlots /\ editorsNet'[s].method = m /\ editorsNet'[s].id = who
        /\ editorsNet'[s].meant = meant.delete
    <2>1. m # "GET list" /\ m \notin {"GET row", "PUT row"}
      BY <1>5
    <2> QED  BY <1>1, <1>2, <1>7, <2>1, SendKeeps
  <1>9. asked' \in [open : BOOLEAN, id : Records \cup {Editors!NoRecord}]
        /\ (asked'.open => asked' = asked)
    BY <1>1, <1>2
  <1>10. Editors!TypeOK'
    BY <1>1, <1>8, <1>9 DEF EditorsInv, EditorsTypes, Editors!TypeOK
  <1>11. Editors!ClickFilled => Meant(editorsNet'[s])
    BY <1>3, <1>5, <1>8 DEF Meant
  <1>12. ChosenOpen'
    BY <1>1, <1>5, <1>8, <1>9 DEF EditorsInv, ChosenInv, ChosenOpen, Editors!ClickFilled
  <1>13. ChosenInv'
    BY <1>1, <1>8, <1>11, <1>12, SentKeepsMeant DEF SentMeant
  <1> QED  BY <1>8, <1>10, <1>13 DEF EditorsInv, EditorsTypes

\* The request for the list that a success sends brings what is stored.
LEMMA RefetchKeeps ==
  ASSUME Editors!Assumptions, EditorsInv, NEW s \in Editors!NetSlots, editorsNet' = Editors!Refetched(s),
         UNCHANGED <<editorsPage, rows, listed>>
  PROVE  /\ editorsNet' \in [Editors!NetSlots -> Editors!Requests \cup {Editors!Idle}]
         /\ RowsNamed' /\ ListComing'
         /\ \A t \in Editors!NetSlots : editorsNet'[t].method # "GET row" \/ editorsNet'[t] = editorsNet[t]
         /\ \A t \in Editors!NetSlots : Meant(editorsNet[t]) => Meant(editorsNet'[t])
  <1> DEFINE q == Editors!Request("GET list", Editors!NoRecord, 0, Editors!NoRecord)
  <1>1. q.method = "GET list" /\ q.phase = "sent"
    BY DEF Editors!Request
  <1>2. /\ editorsNet'[s] = q
        /\ \A t \in Editors!NetSlots : t # s =>
              editorsNet'[t] = IF editorsPage.latest /\ editorsNet[t].method = "GET list" THEN Editors!Idle
                               ELSE editorsNet[t]
    BY DEF Editors!Refetched
  <1> HIDE DEF q
  <1>3. ListComing'
    <2>1. Brings(s)'
      BY <1>1, <1>2 DEF Brings
    <2>2. ASSUME editorsPage.latest, NEW t \in Editors!NetSlots, editorsNet'[t].method = "GET list" PROVE t = s
      BY <1>2, <2>2, IdleMethod
    <2> QED  BY <2>1, <2>2 DEF ListComing
  <1>4. \A t \in Editors!NetSlots : editorsNet'[t].method # "GET row" \/ editorsNet'[t] = editorsNet[t]
    BY <1>1, <1>2, IdleMethod
  <1>5. \A t \in Editors!NetSlots : Meant(editorsNet[t]) => Meant(editorsNet'[t])
    BY <1>1, <1>2, IdleMethod DEF Meant
  <1> QED  BY <1>3, <1>4, <1>5, RefetchedTypes DEF EditorsInv

\* An answer that brings nothing is forgotten.
LEMMA GoneKeeps ==
  ASSUME EditorsInv, NEW s \in Editors!NetSlots, editorsNet' = Editors!Gone(s),
         UNCHANGED <<editorsPage, rows, listed>>,
         missed' \/ (missed' = missed /\ ~Brings(s))
  PROVE  /\ editorsNet' \in [Editors!NetSlots -> Editors!Requests \cup {Editors!Idle}]
         /\ RowsNamed' /\ ListComing'
         /\ \A t \in Editors!NetSlots : editorsNet'[t].method # "GET row" \/ editorsNet'[t] = editorsNet[t]
         /\ \A t \in Editors!NetSlots : Meant(editorsNet[t]) => Meant(editorsNet'[t])
  <1>1. editorsNet' = [editorsNet EXCEPT ![s] = Editors!Idle]
    BY DEF Editors!Gone
  <1>2. editorsNet' \in [Editors!NetSlots -> Editors!Requests \cup {Editors!Idle}] /\ RowsNamed'
    BY <1>1, IdleMethod, SentTypes DEF EditorsInv
  <1>3. editorsNet'[s] = Editors!Idle /\ \A t \in Editors!NetSlots : t # s => editorsNet'[t] = editorsNet[t]
    BY <1>1 DEF EditorsInv, EditorsTypes, Editors!TypeOK
  <1>4. \A t \in Editors!NetSlots : editorsNet'[t] # editorsNet[t] => editorsNet'[t].method = "idle"
    BY <1>3, IdleMethod
  <1>5. ListComing'
    <2>1. ASSUME ~missed', NEW t \in Editors!NetSlots, Brings(t) PROVE Brings(t)'
      <3>1. t # s
        BY <2>1
      <3> QED  BY <1>3, <2>1, <3>1 DEF Brings
    <2>2. ASSUME ~missed', ~missed, editorsPage.latest PROVE ListComing'
      BY <1>4, <2>1, <2>2 DEF EditorsInv, ListComing
    <2>3. ASSUME missed' PROVE ListComing'
      BY <1>4, <2>3 DEF EditorsInv, ListComing
    <2>4. ~editorsPage.latest => ListComing'
      BY DEF ListComing
    <2> QED  BY <2>2, <2>3, <2>4
  <1>6. /\ \A t \in Editors!NetSlots : editorsNet'[t].method # "GET row" \/ editorsNet'[t] = editorsNet[t]
        /\ \A t \in Editors!NetSlots : Meant(editorsNet[t]) => Meant(editorsNet'[t])
    BY <1>4 DEF Meant
  <1> QED  BY <1>2, <1>5, <1>6

\* What the user chose is not touched by an answer that at most closes the
\* form and the question.
LEMMA AnswerKeepsMeant ==
  ASSUME EditorsInv, UNCHANGED <<editorsPage, meant>>,
         \A t \in Editors!NetSlots : editorsNet'[t].method # "GET row" \/ editorsNet'[t] = editorsNet[t],
         \A t \in Editors!NetSlots : Meant(editorsNet[t]) => Meant(editorsNet'[t]),
         Editors!ClickFilled => /\ form' = form \/ form' = [form EXCEPT !.open = FALSE]
                                /\ asked' = asked \/ asked'.open = FALSE
  PROVE  ChosenInv'
  <1>0. form \in EditorsForm
    BY DEF EditorsInv, EditorsTypes, Editors!TypeOK, EditorsForm
  <1>1. Editors!ClickFilled' <=> Editors!ClickFilled
    BY DEF Editors!ClickFilled
  <1>2. Editors!ClickFilled => /\ form'.id = form.id /\ form'.edit = form.edit
                               /\ form'.open => form.open
    BY <1>0 DEF EditorsForm
  <1>3. ChosenOpen'
    BY <1>1, <1>2 DEF EditorsInv, ChosenInv, ChosenOpen
  <1>4. Editors!ClickFilled => \A t \in Editors!NetSlots : Meant(editorsNet[t])
    BY MeantRequests DEF EditorsInv
  <1>5. Editors!ClickFilled' => \A t \in Editors!NetSlots : Meant(editorsNet'[t])
    BY <1>1, <1>4
  <1>6. Editors!MeantAsSent'
    BY <1>5 DEF Editors!MeantAsSent, Meant
  <1> QED  BY <1>3, <1>6 DEF ChosenInv

LEMMA RefreshStep == ASSUME Editors!Assumptions, EditorsInv, Editors!Refresh PROVE EditorsInv'
  <1>1. /\ UNCHANGED <<editorsPage, rows, listed, form, editorsSaving, asked, deleting, meant, missed>>
        /\ Editors!Click
    BY DEF Editors!Refresh
  <1>2. PICK s \in Editors!NetSlots : editorsNet' = Editors!Refetched(s)
    BY DEF Editors!Refresh, Editors!Free
  <1>3. /\ editorsNet' \in [Editors!NetSlots -> Editors!Requests \cup {Editors!Idle}]
        /\ RowsNamed' /\ ListComing'
        /\ \A t \in Editors!NetSlots : editorsNet'[t].method # "GET row" \/ editorsNet'[t] = editorsNet[t]
        /\ \A t \in Editors!NetSlots : Meant(editorsNet[t]) => Meant(editorsNet'[t])
    BY <1>1, <1>2, RefetchKeeps
  <1>4. Editors!TypeOK'
    BY <1>1, <1>3, ClickTypes DEF EditorsInv, EditorsTypes, Editors!TypeOK
  <1>5. ChosenInv'
    BY <1>1, <1>3, AnswerKeepsMeant
  <1> QED  BY <1>3, <1>4, <1>5 DEF EditorsInv, EditorsTypes

\* The three answers to a change: a refusal changed nothing, a loss is
\* remembered, a success (and, on a page of React, every end of a switch)
\* asks for the list.
LEMMA ChangeEnds ==
  ASSUME Editors!Assumptions, EditorsInv, NEW s \in Editors!NetSlots,
         \/ editorsNet' = Editors!Refetched(s)
         \/ /\ editorsNet' = Editors!Gone(s)
            /\ ~Editors!Fine(s) /\ editorsNet[s].phase # "sent" /\ editorsNet[s].method \in Mutations
            /\ editorsNet[s].phase = "lost" /\ editorsPage.latest => missed',
         missed => missed', missed' \in BOOLEAN,
         UNCHANGED <<editorsPage, rows, listed, clicks, meant>>,
         editorsSaving' \in BOOLEAN, deleting' \in BOOLEAN,
         form' \in EditorsForm,
         asked' \in [open : BOOLEAN, id : Records \cup {Editors!NoRecord}],
         Editors!ClickFilled => /\ form' = form \/ form' = [form EXCEPT !.open = FALSE]
                                /\ asked' = asked \/ asked'.open = FALSE
  PROVE  EditorsInv'
  <1>1. /\ editorsNet' \in [Editors!NetSlots -> Editors!Requests \cup {Editors!Idle}]
        /\ RowsNamed' /\ ListComing'
        /\ \A t \in Editors!NetSlots : editorsNet'[t].method # "GET row" \/ editorsNet'[t] = editorsNet[t]
        /\ \A t \in Editors!NetSlots : Meant(editorsNet[t]) => Meant(editorsNet'[t])
    <2>1. CASE editorsNet' = Editors!Refetched(s)
      BY <2>1, RefetchKeeps
    <2>2. CASE /\ editorsNet' = Editors!Gone(s)
               /\ ~Editors!Fine(s) /\ editorsNet[s].phase # "sent" /\ editorsNet[s].method \in Mutations
               /\ editorsNet[s].phase = "lost" /\ editorsPage.latest => missed'
      <3>1. missed \in BOOLEAN
        BY DEF EditorsInv, EditorsTypes, Editors!TypeOK
      <3>2. editorsPage.latest => missed' \/ (missed' = missed /\ ~Brings(s))
        BY <2>2, <3>1 DEF Editors!Fine, Brings, Mutations
      <3>3. CASE editorsPage.latest
        BY <2>2, <3>2, <3>3, GoneKeeps
      <3>4. CASE ~editorsPage.latest
        <4>1. editorsNet' = [editorsNet EXCEPT ![s] = Editors!Idle]
          BY <2>2 DEF Editors!Gone
        <4>2. editorsNet' \in [Editors!NetSlots -> Editors!Requests \cup {Editors!Idle}] /\ RowsNamed'
          BY <4>1, IdleMethod, SentTypes DEF EditorsInv
        <4>3. \A t \in Editors!NetSlots : editorsNet'[t] # editorsNet[t] => editorsNet'[t].method = "idle"
          BY <4>1, IdleMethod DEF EditorsInv, EditorsTypes, Editors!TypeOK
        <4>4. ListComing'
          BY <3>4 DEF ListComing
        <4> QED  BY <4>2, <4>3, <4>4 DEF Meant
      <3> QED  BY <3>3, <3>4
    <2> QED  BY <2>1, <2>2
  <1>2. Editors!TypeOK'
    BY <1>1 DEF EditorsInv, EditorsTypes, Editors!TypeOK, EditorsForm
  <1>3. ChosenInv'
    BY <1>1, AnswerKeepsMeant
  <1> QED  BY <1>1, <1>2, <1>3 DEF EditorsInv, EditorsTypes

LEMMA ChangeArrives ==
  ASSUME Editors!Assumptions, EditorsInv, NEW s \in Editors!NetSlots,
         Editors!SaveArrives(s) \/ Editors!DeleteArrives(s) \/ Editors!ToggleArrives(s)
  PROVE  EditorsInv'
  <1>1. /\ form \in EditorsForm /\ asked \in [open : BOOLEAN, id : Records \cup {Editors!NoRecord}]
        /\ editorsSaving \in BOOLEAN /\ deleting \in BOOLEAN /\ missed \in BOOLEAN
    BY DEF EditorsInv, EditorsTypes, Editors!TypeOK, EditorsForm
  <1>2. /\ editorsNet[s].phase # "sent" /\ editorsNet[s].method \in Mutations
        /\ UNCHANGED <<editorsPage, rows, listed, clicks, meant>>
        /\ editorsSaving' \in BOOLEAN /\ deleting' \in BOOLEAN
    BY <1>1 DEF Editors!SaveArrives, Editors!DeleteArrives, Editors!ToggleArrives, Editors!Arrived, Mutations
  <1>3. /\ editorsNet' = Editors!Refetched(s) \/ (editorsNet' = Editors!Gone(s) /\ ~Editors!Fine(s))
        /\ missed => missed'
        /\ missed' \in BOOLEAN
        /\ \/ editorsNet' = Editors!Refetched(s)
           \/ editorsNet[s].phase = "lost" /\ editorsPage.latest => missed'
    <2>1. CASE Editors!SaveArrives(s)
      BY <1>1, <2>1 DEF Editors!SaveArrives, Editors!AfterSave
    <2>2. CASE Editors!DeleteArrives(s)
      BY <1>1, <2>2 DEF Editors!DeleteArrives
    <2>3. CASE Editors!ToggleArrives(s)
      BY <1>1, <2>3 DEF Editors!ToggleArrives
    <2> QED  BY <2>1, <2>2, <2>3
  <1>4. form' \in EditorsForm /\ (Editors!ClickFilled => form' = form \/ form' = [form EXCEPT !.open = FALSE])
    <2>1. CASE Editors!SaveArrives(s)
      <3>1. /\ Editors!ClosedForm \in EditorsForm
            /\ [form EXCEPT !.open = FALSE] \in EditorsForm
        BY <1>1, ClickTypes DEF EditorsForm, Editors!ClosedForm
      <3>2. form' \in {Editors!ClosedForm, [form EXCEPT !.open = FALSE], form}
            /\ (~editorsPage.clears => form' # Editors!ClosedForm \/ form' \in {form, [form EXCEPT !.open = FALSE]})
        BY <2>1 DEF Editors!SaveArrives, Editors!AfterSave
      <3> HIDE DEF EditorsForm
      <3>3. Editors!ClickFilled => form' \in {form, [form EXCEPT !.open = FALSE]}
        BY <2>1 DEF Editors!SaveArrives, Editors!AfterSave, Editors!ClickFilled
      <3> QED  BY <1>1, <3>1, <3>2, <3>3
    <2>2. CASE Editors!DeleteArrives(s)
      <3>1. [form EXCEPT !.id = Editors!NoRecord, !.content = 0] \in EditorsForm
        BY <1>1, ClickTypes DEF EditorsForm
      <3>2. form' \in {form, [form EXCEPT !.id = Editors!NoRecord, !.content = 0]}
        BY <2>2 DEF Editors!DeleteArrives
      <3>3. Editors!ClickFilled => form' = form
        BY <2>2 DEF Editors!DeleteArrives, Editors!ClickFilled
      <3> QED  BY <1>1, <3>1, <3>2, <3>3
    <2>3. CASE Editors!ToggleArrives(s)
      BY <1>1, <2>3 DEF Editors!ToggleArrives
    <2> QED  BY <2>1, <2>2, <2>3
  <1>5. asked' \in [open : BOOLEAN, id : Records \cup {Editors!NoRecord}] /\ (asked' = asked \/ asked'.open = FALSE)
    <2>1. asked' \in {asked, [open |-> FALSE, id |-> Editors!NoRecord]}
      BY DEF Editors!SaveArrives, Editors!DeleteArrives, Editors!ToggleArrives
    <2>2. [open |-> FALSE, id |-> Editors!NoRecord] \in [open : BOOLEAN, id : Records \cup {Editors!NoRecord}]
      OBVIOUS
    <2>3. CASE asked' = asked
      BY <1>1, <2>3
    <2>4. CASE asked' = [open |-> FALSE, id |-> Editors!NoRecord]
      BY <2>2, <2>4
    <2> QED  BY <2>1, <2>3, <2>4
  <1> QED  BY <1>2, <1>3, <1>4, <1>5, ChangeEnds

LEMMA RowArrivesStep ==
  ASSUME Editors!Assumptions, EditorsInv, NEW s \in Editors!NetSlots, Editors!RowArrives(s) PROVE EditorsInv'
  <1>1. /\ UNCHANGED <<editorsPage, rows, listed, editorsSaving, asked, deleting, clicks, meant, missed>>
        /\ editorsNet[s] # Editors!Idle /\ editorsNet[s].method = "GET row" /\ editorsNet' = Editors!Gone(s)
    BY DEF Editors!RowArrives, Editors!Arrived
  <1>2. ~Brings(s)
    BY <1>1 DEF Brings, Mutations
  <1>3. /\ editorsNet' \in [Editors!NetSlots -> Editors!Requests \cup {Editors!Idle}]
        /\ RowsNamed' /\ ListComing'
        /\ \A t \in Editors!NetSlots : editorsNet'[t].method # "GET row" \/ editorsNet'[t] = editorsNet[t]
        /\ \A t \in Editors!NetSlots : Meant(editorsNet[t]) => Meant(editorsNet'[t])
    BY <1>1, <1>2, GoneKeeps
  <1>4. form' \in EditorsForm
    <2>1. form \in EditorsForm
      BY DEF EditorsInv, EditorsTypes, Editors!TypeOK, EditorsForm
    <2>2. editorsNet[s] \in Editors!Requests
      BY <1>1 DEF EditorsInv, EditorsTypes, Editors!TypeOK
    <2>3. editorsNet[s].id \in Records \cup {Editors!NoRecord} /\ editorsNet[s].content \in Editors!Contents
      BY <2>2 DEF Editors!Requests
    <2> DEFINE shown == [form EXCEPT !.open = TRUE, !.id = editorsNet[s].id, !.content = editorsNet[s].content]
    <2>4. shown \in EditorsForm
      BY <2>1, <2>3 DEF EditorsForm
    <2>5. form' \in {shown, form}
      BY DEF Editors!RowArrives
    <2> QED  BY <2>1, <2>4, <2>5
  <1>5. Editors!TypeOK'
    BY <1>1, <1>3, <1>4 DEF EditorsInv, EditorsTypes, Editors!TypeOK, EditorsForm
  <1>6. ~Editors!ClickFilled
    BY <1>1 DEF EditorsInv, ChosenInv, ChosenOpen
  <1>7. ChosenInv'
    BY <1>1, <1>6 DEF ChosenInv, ChosenOpen, Editors!MeantAsSent, Editors!ClickFilled
  <1> QED  BY <1>3, <1>5, <1>7 DEF EditorsInv, EditorsTypes

LEMMA ListArrivesStep ==
  ASSUME Editors!Assumptions, EditorsInv, NEW s \in Editors!NetSlots, Editors!ListArrives(s) PROVE EditorsInv'
  <1>1. /\ UNCHANGED <<editorsPage, rows, form, editorsSaving, asked, deleting, clicks, meant>>
        /\ editorsNet[s] # Editors!Idle /\ editorsNet[s].method = "GET list" /\ editorsNet[s].phase # "sent"
        /\ editorsNet' = [editorsNet EXCEPT ![s] = Editors!Idle]
        /\ listed' = IF Editors!Fine(s) THEN editorsNet[s].list ELSE listed
        /\ missed' = (missed \/ ~Editors!Fine(s))
    BY DEF Editors!ListArrives, Editors!Arrived, Editors!Gone
  <1>2. editorsNet' \in [Editors!NetSlots -> Editors!Requests \cup {Editors!Idle}] /\ RowsNamed'
    BY <1>1, IdleMethod, SentTypes DEF EditorsInv
  <1>3. editorsNet'[s] = Editors!Idle /\ \A t \in Editors!NetSlots : t # s => editorsNet'[t] = editorsNet[t]
    BY <1>1 DEF EditorsInv, EditorsTypes, Editors!TypeOK
  <1>4. \A t \in Editors!NetSlots : editorsNet'[t] # editorsNet[t] => editorsNet'[t].method = "idle"
    BY <1>3, IdleMethod
  <1>5. listed' \in [Records -> Editors!Contents] /\ missed' \in BOOLEAN
    <2>1. editorsNet[s] \in Editors!Requests /\ listed \in [Records -> Editors!Contents] /\ missed \in BOOLEAN
      BY <1>1 DEF EditorsInv, EditorsTypes, Editors!TypeOK
    <2>2. editorsNet[s].list \in [Records -> Editors!Contents]
      BY <2>1 DEF Editors!Requests
    <2> QED  BY <1>1, <2>1, <2>2
  <1>6. ListComing'
    <2> SUFFICES ASSUME editorsPage.latest PROVE ListComing'
      BY <1>1 DEF ListComing
    <2>1. \A t \in Editors!NetSlots : editorsNet[t].method = "GET list" => t = s
      BY <1>1 DEF EditorsInv, ListComing
    <2>2. \A t \in Editors!NetSlots : editorsNet'[t].method # "GET list"
      BY <1>3, <2>1, IdleMethod
    <2>3. ASSUME ~missed' PROVE listed' = rows' \/ \E t \in Editors!NetSlots : Brings(t)'
      <3>1. ~missed /\ Editors!Fine(s) /\ listed' = editorsNet[s].list
        BY <1>1, <2>3
      <3>2. PICK t \in Editors!NetSlots : Brings(t)
        BY <1>1, <3>1 DEF EditorsInv, ListComing
      <3>3. CASE t = s
        BY <1>1, <3>1, <3>2, <3>3 DEF Brings, Editors!Fine, Mutations
      <3>4. CASE t # s
        BY <1>3, <2>1, <3>2, <3>4 DEF Brings
      <3> QED  BY <3>3, <3>4
    <2> QED  BY <2>2, <2>3 DEF ListComing
  <1>7. Editors!TypeOK'
    BY <1>1, <1>2, <1>5 DEF EditorsInv, EditorsTypes, Editors!TypeOK
  <1>8. ChosenInv'
    BY <1>1, <1>4, AnswerKeepsMeant DEF Meant
  <1> QED  BY <1>2, <1>6, <1>7, <1>8 DEF EditorsInv, EditorsTypes

\* What the server can make of a request.
LEMMA AppliedIs ==
  ASSUME Editors!Assumptions, EditorsTypes, NEW s \in Editors!NetSlots, editorsNet[s] # Editors!Idle,
         NEW new \in Editors!Applied(editorsNet[s])
  PROVE  /\ new \in [Records -> Editors!Contents]
         /\ editorsNet[s].method \in {"GET list", "GET row"} => new = rows
  <1> DEFINE r == editorsNet[s]
  <1>1. r \in Editors!Requests /\ rows \in [Records -> Editors!Contents] /\ 1 \in Editors!Contents
    BY DEF EditorsTypes, Editors!TypeOK, Editors!Contents, Editors!Assumptions
  <1>2. r.content \in Editors!Contents /\ r.method \in Editors!Methods
    BY <1>1 DEF Editors!Requests
  <1> HIDE DEF r
  <1>3. CASE r.method = "POST"
    <2>1. PICK i \in Records : new = [rows EXCEPT ![i] = IF r.content = 0 THEN 1 ELSE r.content]
      BY <1>3 DEF Editors!Applied, r
    <2> QED  BY <1>1, <1>2, <1>3, <2>1 DEF r
  <1>4. CASE r.method \in {"PUT", "PUT row"}
    <2>1. r.id \in Records /\ new = [rows EXCEPT ![r.id] = IF r.content = 0 THEN rows[r.id] ELSE r.content]
      BY <1>4 DEF Editors!Applied, r
    <2> QED  BY <1>1, <1>2, <1>4, <2>1 DEF r
  <1>5. CASE r.method = "DELETE"
    <2>1. r.id \in Records /\ new = [rows EXCEPT ![r.id] = 0]
      BY <1>5 DEF Editors!Applied, r
    <2> QED  BY <1>1, <1>2, <1>5, <2>1, ClickTypes DEF r, Editors!Contents, Editors!Assumptions
  <1>6. CASE r.method \in {"GET list", "GET row"}
    BY <1>1, <1>6 DEF Editors!Applied, r
  <1> QED  BY <1>2, <1>3, <1>4, <1>5, <1>6 DEF Editors!Methods

LEMMA AnsweredServe ==
  ASSUME Editors!Assumptions, EditorsInv, NEW s \in Editors!NetSlots, Editors!Serve(s) PROVE EditorsInv'
  <1> DEFINE r == editorsNet[s]
             a == editorsNet'[s]
  <1>1. /\ UNCHANGED <<editorsPage, listed, form, editorsSaving, asked, deleting, clicks, meant, missed>>
        /\ r # Editors!Idle /\ r.phase = "sent"
    BY DEF Editors!Serve
  <1>2. /\ r \in Editors!Requests /\ rows \in [Records -> Editors!Contents]
        /\ editorsNet \in [Editors!NetSlots -> Editors!Requests \cup {Editors!Idle}]
    BY <1>1 DEF EditorsInv, EditorsTypes, Editors!TypeOK
  \* The rows, and the answer in the slot of the request.
  <1>3. /\ rows' \in [Records -> Editors!Contents]
        /\ \A t \in Editors!NetSlots : t # s => editorsNet'[t] = editorsNet[t]
        /\ editorsNet' = [editorsNet EXCEPT ![s] = a]
        /\ a \in Editors!Requests /\ a.method = r.method /\ a.id = r.id /\ a.meant = r.meant
        /\ rows' = rows \/ (r.method \in Mutations /\ a.phase \in {"done", "lost"})
        /\ a.phase = "done" /\ r.method = "GET list" => a.list = rows
    <2>1. CASE editorsNet' = [editorsNet EXCEPT ![s].phase = "refused"] /\ UNCHANGED rows
      <3>1. a = [r EXCEPT !.phase = "refused"] /\ \A t \in Editors!NetSlots : t # s => editorsNet'[t] = editorsNet[t]
        BY <1>2, <2>1
      <3>2. a \in Editors!Requests /\ a.method = r.method /\ a.id = r.id /\ a.meant = r.meant /\ a.phase = "refused"
        BY <1>2, <3>1 DEF Editors!Requests, Editors!Phases
      <3>3. editorsNet' = [editorsNet EXCEPT ![s] = a]
        BY <1>2, <2>1, <3>1
      <3> QED  BY <1>2, <2>1, <3>1, <3>2, <3>3
    <2>2. ASSUME rows' \in Editors!Applied(r),
                 NEW ph \in IF r.method \in {"GET list", "GET row"} THEN {"done"} ELSE {"done", "lost"},
                 editorsNet' = [editorsNet EXCEPT ![s].phase = ph,
                                   ![s].list = IF r.method = "GET list" THEN rows ELSE @,
                                   ![s].content = IF r.method = "GET row" THEN rows[r.id] ELSE @]
          PROVE  <1>3!:
      <3>1. /\ rows' \in [Records -> Editors!Contents]
            /\ r.method \in {"GET list", "GET row"} => rows' = rows
        BY <1>1, <2>2, AppliedIs DEF EditorsInv
      <3>2. a = [r EXCEPT !.phase = ph,
                          !.list = IF r.method = "GET list" THEN rows ELSE @,
                          !.content = IF r.method = "GET row" THEN rows[r.id] ELSE @]
        BY <1>2, <2>2
      <3>3. \A t \in Editors!NetSlots : t # s => editorsNet'[t] = editorsNet[t]
        BY <1>2, <2>2
      <3>4. editorsNet' = [editorsNet EXCEPT ![s] = a]
        BY <1>2, <2>2, <3>2
      <3>5. r.method = "GET row" => rows[r.id] \in Editors!Contents
        BY <1>2 DEF EditorsInv, EditorsTypes, RowsNamed
      <3>6. ph \in Editors!Phases /\ ph \in {"done", "lost"}
        BY DEF Editors!Phases
      <3>7. a \in Editors!Requests
        BY <1>2, <3>2, <3>5, <3>6 DEF Editors!Requests
      <3>8. /\ a.method = r.method /\ a.id = r.id /\ a.meant = r.meant /\ a.phase = ph
            /\ r.method = "GET list" => a.list = rows
        BY <1>2, <3>2 DEF Editors!Requests
      <3>9. rows' = rows \/ r.method \in Mutations
        BY <1>2, <3>1 DEF Editors!Requests, Editors!Methods, Mutations
      <3> HIDE DEF r, a
      <3> QED  BY <3>1, <3>3, <3>4, <3>6, <3>7, <3>8, <3>9
    <2> QED  BY <2>1, <2>2 DEF Editors!Serve
  <1>4. r.method \in {"GET row", "PUT row"} => r.id \in Records
    BY DEF EditorsInv, EditorsTypes, RowsNamed
  <1> HIDE DEF r, a
  <1>5. editorsNet' \in [Editors!NetSlots -> Editors!Requests \cup {Editors!Idle}] /\ RowsNamed'
    <2>1. editorsNet' = [editorsNet EXCEPT ![s] = a] /\ a \in Editors!Requests \cup {Editors!Idle}
          /\ (a.method \in {"GET row", "PUT row"} => a.id \in Records)
      BY <1>3, <1>4
    <2> QED  BY <2>1, SentTypes DEF EditorsInv
  <1>6. /\ \A t \in Editors!NetSlots : editorsNet'[t].method = editorsNet[t].method
        /\ \A t \in Editors!NetSlots : Meant(editorsNet[t]) => Meant(editorsNet'[t])
    BY <1>3 DEF r, a, Meant
  <1>7. ListComing'
    <2> SUFFICES ASSUME editorsPage.latest PROVE ListComing'
      BY <1>1 DEF ListComing
    <2>1. CASE r.method \in Mutations /\ a.phase \in {"done", "lost"}
      <3>1. Brings(s)'
        BY <1>3, <2>1 DEF Brings, a
      <3> QED  BY <1>6, <3>1 DEF EditorsInv, ListComing
    <2>2. CASE rows' = rows
      <3>1. \A t \in Editors!NetSlots : Brings(t) => Brings(t)'
        <4> SUFFICES ASSUME NEW t \in Editors!NetSlots, Brings(t) PROVE Brings(t)'
          OBVIOUS
        <4>1. CASE t # s
          BY <1>3, <2>2, <4>1 DEF Brings
        <4>2. CASE t = s
          BY <1>1, <1>3, <2>2, <4>2 DEF Brings, a, r
        <4> QED  BY <4>1, <4>2
      <3>2. UNCHANGED <<rows, listed, missed, editorsPage>>
        BY <1>1, <2>2
      <3> QED  BY <1>6, <3>1, <3>2 DEF EditorsInv, ListComing
    <2> QED  BY <1>3, <2>1, <2>2
  <1>8. Editors!TypeOK'
    BY <1>1, <1>3, <1>5 DEF EditorsInv, EditorsTypes, Editors!TypeOK
  <1>9. ChosenInv'
    <2>1. ChosenOpen'
      BY <1>1, <1>6 DEF EditorsInv, ChosenInv, ChosenOpen, Editors!ClickFilled
    <2>2. Editors!ClickFilled' => \A t \in Editors!NetSlots : Meant(editorsNet'[t])
      BY <1>1, <1>6, MeantRequests DEF EditorsInv, Editors!ClickFilled
    <2>3. Editors!MeantAsSent'
      BY <2>2 DEF Editors!MeantAsSent, Meant
    <2> QED  BY <2>1, <2>3 DEF ChosenInv
  <1> QED  BY <1>5, <1>7, <1>8, <1>9 DEF EditorsInv, EditorsTypes

LEMMA StepEditors ==
  ASSUME Editors!Assumptions, EditorsInv, [Editors!Next]_editorsVars PROVE EditorsInv'
  <1>1. CASE UNCHANGED editorsVars
    <2> USE <1>1 DEF editorsVars
    <2>1. EditorsTypes' /\ ChosenOpen' /\ ListComing'
      <3>1. Editors!TypeOK'
        BY DEF EditorsInv, EditorsTypes, Editors!TypeOK
      <3>2. ChosenOpen'
        BY DEF EditorsInv, ChosenInv, ChosenOpen, Editors!ClickFilled
      <3> QED  BY <3>1, <3>2, NothingSent DEF EditorsTypes
    <2>2. Editors!MeantAsSent'
      <3>1. Editors!ClickFilled' => \A s \in Editors!NetSlots : Meant(editorsNet'[s])
        BY MeantRequests DEF EditorsInv, Editors!ClickFilled
      <3> QED  BY <3>1 DEF Editors!MeantAsSent, Meant
    <2> QED  BY <2>1, <2>2 DEF EditorsInv, ChosenInv
  <1>2. ASSUME NEW s \in Editors!NetSlots, Editors!Answer(s) PROVE EditorsInv'
    BY <1>2, AnsweredServe, ListArrivesStep, RowArrivesStep, ChangeArrives DEF Editors!Answer
  <1>3. ASSUME NEW i \in Records, Editors!OpenEdit(i) \/ Editors!Toggle(i) \/ Editors!AskDelete(i)
        PROVE  EditorsInv'
    BY <1>3, OpenEditStep, ToggleStep, AskDeleteStep
  <1>4. CASE Editors!Save \/ Editors!ConfirmDelete \/ Editors!Refresh
    BY <1>4, SaveStep, ConfirmDeleteStep, RefreshStep
  <1>5. CASE \/ Editors!OpenCreate \/ Editors!CloseForm \/ Editors!RefuseDelete
             \/ \E c \in Editors!Contents : Editors!Type(c)
    BY <1>5, FormSteps
  <1> QED  BY <1>1, <1>2, <1>3, <1>4, <1>5 DEF Editors!Next

LEMMA EditorsPromises == ASSUME EditorsInv PROVE Editors!MeantAsSent /\ Editors!QuietListIsFresh
  <1>1. Editors!QuietListIsFresh
    BY IdleMethod DEF EditorsInv, ListComing, Brings, Mutations, Editors!QuietListIsFresh
  <1> QED  BY <1>1 DEF EditorsInv, ChosenInv

----------------------------------------------------------------------------
(* The settings of mail2im (AdminSettings).                                *)

LEMMA InitConfig == ASSUME Config!SettingsAssumptions, Config!SInit PROVE Config!SettingsTypeOK
  <1> USE DEF Config!SettingsAssumptions, Config!SInit
  <1>1. Config!AllDefault \in Config!Settings
    BY DEF Config!AllDefault, Config!Settings
  <1>2. reload \in [phase : {"none", "sent", "served"}, value : Config!Settings]
    BY <1>1 DEF Config!Reloading
  <1>3. step \in 0..Len(Config!Halves(ui))
    <2>1. Len(Config!Halves(ui)) \in {1, 2}
      BY DEF Config!Halves, Config!ReactSave, Config!VueSave
    <2>2. \A n \in {1, 2} : step \in 0..n
      OBVIOUS
    <2> QED  BY <2>1, <2>2
  <1>4. acts \in 0..MaxActs
    OBVIOUS
  <1> QED  BY <1>1, <1>2, <1>3, <1>4 DEF Config!SettingsTypeOK

LEMMA StepConfig ==
  ASSUME Config!SettingsAssumptions, Config!SettingsTypeOK, [Config!SNext]_configVars
  PROVE  Config!SettingsTypeOK'
  <1> DEFINE last == Len(Config!Halves(ui))
  <1>1. last \in {1, 2}
    BY DEF Config!Halves, Config!ReactSave, Config!VueSave
  <1>2. ui' = ui
    BY DEF Config!SNext, Config!ChangeSetting, Config!ReloadSettings, Config!ServeSettings,
       Config!SettingsArrive, Config!SaveSettings, Config!PayloadStored, Config!SaveFails,
       Config!ImportSettings, configVars
  <1>3. step' \in 0..last
    <2>1. step \in 0..last
      BY DEF Config!SettingsTypeOK
    <2> HIDE DEF last
    <2>2. step' \in {step, 0, 1} \/ (step # last /\ step' = step + 1)
      BY DEF Config!SNext, Config!ChangeSetting, Config!ReloadSettings, Config!ServeSettings,
         Config!SettingsArrive, Config!SaveSettings, Config!PayloadStored, Config!SaveFails,
         Config!ImportSettings, configVars, last
    <2> QED  BY <1>1, <2>1, <2>2
  <1>4. step' \in 0..Len(Config!Halves(ui'))
    BY <1>2, <1>3
  <1> HIDE DEF last
  <1> USE DEF Config!SettingsAssumptions, Config!SettingsTypeOK, Config!Settings, Config!AllDefault,
              Config!Reloading, Config!NoReload, Config!Act
  <1>5. ASSUME NEW f \in Config!Fields, Config!ChangeSetting(f) PROVE Config!SettingsTypeOK'
    BY <1>4, <1>5 DEF Config!ChangeSetting
  <1>6. CASE Config!ReloadSettings
    BY <1>4, <1>6 DEF Config!ReloadSettings
  <1>7. CASE Config!ServeSettings
    BY <1>4, <1>7 DEF Config!ServeSettings
  <1>8. CASE Config!SettingsArrive
    <2>1. inForm' \in [Config!Fields -> {0, 1}] /\ touched' \subseteq Config!Fields
      BY <1>8 DEF Config!SettingsArrive
    <2>2. reload' \in [phase : {"none", "sent", "served"}, value : [Config!Fields -> {0, 1}]]
      BY <1>8 DEF Config!SettingsArrive
    <2>3. UNCHANGED <<ui, config, step, undone, acts>>
      BY <1>8 DEF Config!SettingsArrive
    <2> QED  BY <1>4, <2>1, <2>2, <2>3
  <1>9. CASE Config!SaveSettings
    BY <1>4, <1>9 DEF Config!SaveSettings
  <1>10. CASE Config!PayloadStored
    <2>1. config' \in [Config!Fields -> {0, 1}] /\ undone' \in BOOLEAN
      BY <1>10 DEF Config!PayloadStored
    <2>2. /\ reload' \in [phase : {"none", "sent", "served"}, value : [Config!Fields -> {0, 1}]]
          /\ touched' \subseteq Config!Fields
      BY <1>10 DEF Config!PayloadStored
    <2>3. UNCHANGED <<ui, inForm, acts>>
      BY <1>10 DEF Config!PayloadStored
    <2> QED  BY <1>4, <2>1, <2>2, <2>3
  <1>11. CASE Config!SaveFails
    BY <1>4, <1>11 DEF Config!SaveFails
  <1>12. ASSUME NEW imported \in Config!Settings, Config!ImportSettings(imported) PROVE Config!SettingsTypeOK'
    BY <1>4, <1>12 DEF Config!ImportSettings
  <1>13. CASE UNCHANGED configVars
    BY <1>4, <1>13 DEF configVars
  <1> QED  BY <1>5, <1>6, <1>7, <1>8, <1>9, <1>10, <1>11, <1>12, <1>13 DEF Config!SNext

----------------------------------------------------------------------------
(* All parts together: a step is one of the part the behaviour is of, and  *)
(* that part never changes.                                                *)

PartsInv ==
    /\ part = "editors" => EditorsInv
    /\ part = "config" => Config!SettingsTypeOK
    /\ part = "import" => ImportInv
    /\ part = "policy" => Policy!PolicyTypeOK /\ PolicyIsComing
    /\ part = "dialogs" => Dialogs!TypeOK
    /\ part = "lists" => ListsInv
    /\ part = "fields" => FieldsInv

\* What a step may not do.
Typing ==
    /\ part = "dialogs" => Dialogs!KeepsTyped
    /\ part = "fields" => Fields!KeepsTyping

LEMMA InitParts == FormsInit => PartsInv
  <1> SUFFICES ASSUME FormsInit PROVE PartsInv
    OBVIOUS
  <1>1. /\ part = "editors" => Editors!Init
        /\ part = "config" => Config!SInit
        /\ part = "import" => Import!IInit
        /\ part = "policy" => Policy!PInit
        /\ part = "dialogs" => Dialogs!Init
        /\ part = "lists" => Lists!Init
        /\ part = "fields" => Fields!Init
    BY DEF FormsInit
  <1> QED  BY <1>1, FormsAssumption, InitEditors, InitConfig, InitImport, InitPolicy, InitPolicyTypes,
              InitDialogs, InitLists, InitFields DEF PartsInv

LEMMA StepParts == PartsInv /\ [FormsNext]_formsVars => PartsInv' /\ Typing
  <1> SUFFICES ASSUME PartsInv, [FormsNext]_formsVars PROVE PartsInv' /\ Typing
    OBVIOUS
  <1>1. part' = part
    BY DEF FormsNext, ComposeStep, EditorsStep, ConfigStep, ImportStep, PolicyStep, DialogsStep, ListsStep,
       FieldsStep, SessionStep, formsVars
  <1>2. ASSUME part = "editors" PROVE EditorsInv'
    <2>1. [Editors!Next]_editorsVars
      BY <1>2 DEF FormsNext, ComposeStep, EditorsStep, ConfigStep, ImportStep, PolicyStep, DialogsStep,
         ListsStep, FieldsStep, SessionStep, formsVars
    <2> QED  BY <1>2, <2>1, FormsAssumption, StepEditors DEF PartsInv
  <1>3. ASSUME part = "config" PROVE Config!SettingsTypeOK'
    <2>1. [Config!SNext]_configVars
      BY <1>3 DEF FormsNext, ComposeStep, EditorsStep, ConfigStep, ImportStep, PolicyStep, DialogsStep,
         ListsStep, FieldsStep, SessionStep, formsVars
    <2> QED  BY <1>3, <2>1, FormsAssumption, StepConfig DEF PartsInv
  <1>4. ASSUME part = "import" PROVE ImportInv'
    <2>1. [Import!INext]_importVars
      BY <1>4 DEF FormsNext, ComposeStep, EditorsStep, ConfigStep, ImportStep, PolicyStep, DialogsStep,
         ListsStep, FieldsStep, SessionStep, formsVars
    <2> QED  BY <1>4, <2>1, FormsAssumption, StepImport DEF PartsInv
  <1>5. ASSUME part = "policy" PROVE Policy!PolicyTypeOK' /\ PolicyIsComing'
    <2>1. [Policy!PNext]_policyVars
      BY <1>5 DEF FormsNext, ComposeStep, EditorsStep, ConfigStep, ImportStep, PolicyStep, DialogsStep,
         ListsStep, FieldsStep, SessionStep, formsVars
    <2> QED  BY <1>5, <2>1, FormsAssumption, StepPolicy, StepPolicyTypes DEF PartsInv
  <1>6. ASSUME part = "dialogs" PROVE Dialogs!TypeOK' /\ Dialogs!KeepsTyped
    <2>1. [Dialogs!Next]_dialogsVars
      BY <1>6 DEF FormsNext, ComposeStep, EditorsStep, ConfigStep, ImportStep, PolicyStep, DialogsStep,
         ListsStep, FieldsStep, SessionStep, formsVars
    <2> QED  BY <1>6, <2>1, FormsAssumption, StepDialogs DEF PartsInv
  <1>7. ASSUME part = "lists" PROVE ListsInv'
    <2>1. [Lists!Next]_listsVars
      BY <1>7 DEF FormsNext, ComposeStep, EditorsStep, ConfigStep, ImportStep, PolicyStep, DialogsStep,
         ListsStep, FieldsStep, SessionStep, formsVars
    <2> QED  BY <1>7, <2>1, FormsAssumption, StepLists DEF PartsInv
  <1>8. ASSUME part = "fields" PROVE FieldsInv' /\ Fields!KeepsTyping
    <2>1. [Fields!Next]_fieldsVars
      BY <1>8 DEF FormsNext, ComposeStep, EditorsStep, ConfigStep, ImportStep, PolicyStep, DialogsStep,
         ListsStep, FieldsStep, SessionStep, formsVars
    <2> QED  BY <1>8, <2>1, FormsAssumption, StepFields DEF PartsInv
  <1> QED  BY <1>1, <1>2, <1>3, <1>4, <1>5, <1>6, <1>7, <1>8 DEF PartsInv, Typing

LEMMA PartsKept == FormsSpec => []PartsInv
  BY InitParts, StepParts, PTL DEF FormsSpec

\* On the pages of mail2im whose form is filled by a click on a row, what is
\* sent is what the user chose (saveMutation and deleteMutation), and an import
\* of the React page replaces only accounts and proxies that were refused before
\* and that the user then confirmed (performImport).
THEOREM ChosenIsSent == FormsSpec => []NothingUnmeant
  <1>1. PartsInv => NothingUnmeant
    BY EditorsPromises DEF PartsInv, NothingUnmeant, ImportInv
  <1> QED  BY <1>1, PartsKept, PTL

\* With nothing in flight the pages of React, the delivery policy and the
\* ordered lists of the settings show what the server has.
THEOREM QuietPagesAreStored == FormsSpec => []QuietIsStored
  <1>1. PartsInv => QuietIsStored
    <2>1. PolicyIsComing => Policy!QuietPolicyIsStored
      BY DEF PolicyIsComing, Policy!QuietPolicyIsStored
    <2> QED  BY <2>1, EditorsPromises, ListsPromises DEF PartsInv, QuietIsStored
  <1> QED  BY <1>1, PartsKept, PTL

\* Moves pressed one after the other add up in the section of rules, whose
\* arrows wait for the request (RulesSection.tsx, handleMove).
THEOREM PressedMovesAdd == FormsSpec => []MovesAdd
  <1>1. PartsInv => MovesAdd
    BY ListsPromises DEF PartsInv, MovesAdd
  <1> QED  BY <1>1, PartsKept, PTL

\* Nothing a dialog or a field of the settings holds is overwritten while it
\* is being typed.
THEOREM TypedIsKept == FormsSpec => TypingSurvives
  <1>1. PartsInv /\ [FormsNext]_formsVars => Typing
    BY StepParts
  <1>2. PartsInv /\ [FormsNext]_formsVars => [Typing]_formsVars
    BY <1>1
  <1> QED  BY <1>2, PartsKept, PTL DEF FormsSpec, TypingSurvives, Typing

\* Every variable has its type, in all nine parts: no click, answer or fetch
\* builds a value the pages do not expect.
THEOREM TypesKept == FormsSpec => []TypesOK
  <1>1. FormsInit => ComposeTypes /\ SessionTypes
    BY FormsAssumption, InitComposeTypes, InitSessionTypes DEF FormsInit
  <1>2. ComposeTypes /\ SessionTypes /\ [FormsNext]_formsVars => ComposeTypes' /\ SessionTypes'
    <2> SUFFICES ASSUME ComposeTypes, SessionTypes, [FormsNext]_formsVars PROVE ComposeTypes' /\ SessionTypes'
      OBVIOUS
    <2>1. [Next]_vars /\ [SessionNext]_sessionVars
      BY DEF FormsNext, ComposeStep, EditorsStep, ConfigStep, ImportStep, PolicyStep, DialogsStep, ListsStep,
         FieldsStep, SessionStep, formsVars
    <2> QED  BY <2>1, FormsAssumption, StepComposeTypes, StepSessionTypes
  <1>3. PartsInv /\ ComposeTypes /\ SessionTypes => TypesOK
    BY ComposeTypesSuffice, SessionTypesSuffice
       DEF PartsInv, TypesOK, EditorsInv, EditorsTypes, ImportInv, ListsInv, FieldsInv
  <1> QED  BY <1>1, <1>2, <1>3, PartsKept, PTL DEF FormsSpec
=============================================================================
