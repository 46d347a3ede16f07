--------------------------- MODULE SettingsFields ---------------------------
(***************************************************************************)
(* The sections of FlyMail's settings whose fields are edited in place and *)
(* saved with a button: synchronisation, the address of the server, OAuth, *)
(* the length of notifications, the profile, and the signature of an       *)
(* account.  The fields are on the page before their values have arrived,  *)
(* and are filled by the answer; later answers fill them again, by a rule  *)
(* that differs between the sections.                                      *)
(*                                                                         *)
(* A section edits one field of a stored record; the rest of the record,   *)
(* which other sections and other windows edit, is another field.          *)
(***************************************************************************)
EXTENDS Naturals

CONSTANTS
  MaxValue,   \* values are 1..MaxValue; 0 is the default of an unfilled field
  MaxEdits,   \* values typed (bound)
  MaxElse     \* changes made elsewhere (bound)

\* What the model takes for granted of its constants.
Assumptions == MaxValue \in Nat \ {0} /\ MaxEdits \in Nat /\ MaxElse \in Nat

(* fill = when an answer fills the field: its own value has changed, any   *)
(* value of the record has, or only the first time.                        *)
SyncSection       == [name |-> "sync",      fill |-> "field"]
BaseUrlSection    == [name |-> "baseUrl",   fill |-> "field"]
OAuthSection      == [name |-> "oauth",     fill |-> "field"]
NotifyBodySection == [name |-> "body",      fill |-> "field"]
ProfileBlock      == [name |-> "profile",   fill |-> "record"]
SignatureEditor   == [name |-> "signature", fill |-> "once"]

FieldSections == {SyncSection, BaseUrlSection, OAuthSection, NotifyBodySection, ProfileBlock, SignatureEditor}
Values == 0..MaxValue
StoredValues == [mine : 1..MaxValue, rest : 1..MaxValue]
NotLoaded == [mine |-> 0, rest |-> 0]
NoSave == [phase |-> "none", value |-> 0]

VARIABLES
  section, stored,
  cached,    \* the data of the query, NotLoaded before the first answer
  draft,     \* the field
  synced,    \* syncedRef: {} or the value the field was filled with last
  fetch,     \* the fetch in flight: phase, data
  saving,    \* the request of the save button
  edits, elsewhere

vars == <<section, stored, cached, draft, synced, fetch, saving, edits, elsewhere>>

TypeOK ==
  /\ section \in FieldSections /\ stored \in [mine : Values, rest : 1..MaxValue]
  /\ cached \in [mine : Values, rest : Values] /\ draft \in Values /\ synced \in SUBSET Values
  /\ fetch \in [phase : {"none", "sent", "served"}, data : [mine : Values, rest : Values]]
  /\ saving \in [phase : {"none", "sent", "stored"}, value : Values]
  /\ edits \in 0..MaxEdits /\ elsewhere \in 0..MaxElse

Init ==
  /\ section \in FieldSections /\ stored = [mine |-> 1, rest |-> 1]
  /\ cached = NotLoaded /\ draft = 0 /\ synced = {}
  /\ fetch = [phase |-> "sent", data |-> NotLoaded]
  /\ saving = NoSave /\ edits = 0 /\ elsewhere = 0

-----------------------------------------------------------------------------
Type(v) ==
  /\ edits < MaxEdits /\ v # draft
  /\ edits' = edits + 1 /\ draft' = v
  /\ UNCHANGED <<section, stored, cached, synced, fetch, saving, elsewhere>>

\* The button waits for the request, and for nothing else.
Save ==
  /\ saving = NoSave
  /\ saving' = [phase |-> "sent", value |-> draft]
  /\ UNCHANGED <<section, stored, cached, draft, synced, fetch, edits, elsewhere>>

SaveStored ==
  /\ saving.phase = "sent"
  /\ saving' = [saving EXCEPT !.phase = "stored"]
  /\ stored' = [stored EXCEPT !.mine = saving.value]
  /\ UNCHANGED <<section, cached, draft, synced, fetch, edits, elsewhere>>

\* A success makes the query fetch again; a failure, at any time, is told.
SaveEnds ==
  /\ saving.phase # "none"
  /\ saving' = NoSave
  /\ \/ saving.phase = "stored" /\ fetch' = [phase |-> "sent", data |-> NotLoaded]
     \/ UNCHANGED fetch
  /\ UNCHANGED <<section, stored, cached, draft, synced, edits, elsewhere>>

\* Another section saves and makes the query fetch again.
ChangedElsewhere(r) ==
  /\ elsewhere < MaxElse /\ r # stored /\ elsewhere' = elsewhere + 1
  /\ stored' = r
  /\ fetch' = [phase |-> "sent", data |-> NotLoaded]
  /\ UNCHANGED <<section, cached, draft, synced, saving, edits>>

Serve ==
  /\ fetch.phase = "sent"
  /\ fetch' = [phase |-> "served", data |-> stored]
  /\ UNCHANGED <<section, stored, cached, draft, synced, saving, edits, elsewhere>>

\* The mistake of filling the field with every answer.
FillDueAlways(new) == section.fill = "once" => cached = NotLoaded
\* The effect that fills the field runs.
FillDue(new) ==
  CASE section.fill = "field"  -> synced # {new.mine}
    [] section.fill = "record" -> cached # new
    [] section.fill = "once"   -> cached = NotLoaded

Arrives ==
  /\ fetch.phase = "served"
  /\ cached' = fetch.data
  /\ IF FillDue(fetch.data)
       THEN draft' = fetch.data.mine /\ synced' = {fetch.data.mine}
       ELSE UNCHANGED <<draft, synced>>
  /\ fetch' = [phase |-> "none", data |-> NotLoaded]
  /\ UNCHANGED <<section, stored, saving, edits, elsewhere>>

Next ==
  \/ \E v \in Values : Type(v)
  \/ \E r \in StoredValues : ChangedElsewhere(r)
  \/ Save \/ SaveStored \/ SaveEnds \/ Serve \/ Arrives

Spec == Init /\ [][Next]_vars

-----------------------------------------------------------------------------
\* What the user is typing is replaced only by the first answer and when the
\* stored value of that field has changed: the changes other sections make to
\* the same record, and the fetches they cause, leave it alone.  (The profile
\* compares the whole record and does not keep it.)
KeepsTyping ==
  section.fill # "record" /\ draft' # draft
    => (\E v \in Values : Type(v)) \/ cached = NotLoaded \/ cached'.mine # cached.mine
=============================================================================
