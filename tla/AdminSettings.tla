--------------------------- MODULE AdminSettings ---------------------------
(***************************************************************************)
(* The settings page of mail2im's two administration front ends: a form    *)
(* over the server's configuration, saved in one request (Vue) or in two   *)
(* (React: general settings, then those of Google sign-in).                *)
(*                                                                         *)
(* A setting is 0 (the value a form starts with) or 1.                     *)
(***************************************************************************)
EXTENDS Naturals, Sequences

CONSTANTS MaxActs   \* saves, reloads and imports (bound)

\* What the model takes for granted of its constants.
SettingsAssumptions == MaxActs \in Nat

Fields == {"general", "oauth"}
Settings == [Fields -> {0, 1}]

(* The two pages.  fills: what the server answers is put into the form;    *)
(* halves: the payloads a save sends one after the other.                  *)
ReactConfigQuery == [fills |-> FALSE]
ReactSave        == <<{"general"}, {"oauth"}>>
VueLoad          == [fills |-> TRUE]
VueSave          == <<{"general"}>>

Front(ui) == IF ui = "react" THEN ReactConfigQuery ELSE VueLoad
Halves(ui) == IF ui = "react" THEN ReactSave ELSE VueSave

VARIABLES
  ui,         \* "react" or "vue"
  stored,     \* the server's configuration
  inForm,     \* the form
  touched,    \* history: settings the user has changed and not saved since
  reload,     \* the request for the configuration, and what the server answered
  step,       \* 0, or the number of the payload being saved
  undone,     \* history: a save has changed a setting the user had not touched
  acts        \* counted against MaxActs

sVars == <<ui, stored, inForm, touched, reload, step, undone, acts>>

AllDefault == [f \in Fields |-> 0]
NoReload == [phase |-> "none", value |-> AllDefault]
Reloading == [phase |-> "sent", value |-> AllDefault]

SettingsTypeOK ==
  /\ ui \in {"react", "vue"}
  /\ stored \in Settings /\ inForm \in Settings /\ touched \subseteq Fields
  /\ reload \in [phase : {"none", "sent", "served"}, value : Settings]
  /\ step \in 0..Len(Halves(ui)) /\ undone \in BOOLEAN
  /\ acts \in 0..MaxActs

SInit ==
  /\ ui \in {"react", "vue"}
  /\ stored \in Settings
  /\ inForm = AllDefault
  /\ touched = {} /\ reload = Reloading /\ step = 0 /\ undone = FALSE
  /\ acts = 0

Act == acts < MaxActs /\ acts' = acts + 1

-----------------------------------------------------------------------------
(* The form.                                                               *)

ChangeSetting(f) ==
  /\ inForm' = [inForm EXCEPT ![f] = 1 - @]
  /\ touched' = touched \cup {f}
  /\ UNCHANGED <<ui, stored, reload, step, undone, acts>>

\* Refresh; the Cancel of Vue reloads too.  A second request takes the place of the first.
ReloadSettings ==
  /\ Act
  /\ reload' = Reloading
  /\ UNCHANGED <<ui, stored, inForm, touched, step, undone>>

ServeSettings ==
  /\ reload.phase = "sent"
  /\ reload' = [phase |-> "served", value |-> stored]
  /\ UNCHANGED <<ui, stored, inForm, touched, step, undone, acts>>

\* The options of useQuery hold an onSuccess, which TanStack Query 5 does not
\* call for a query: only the page of Vue puts the answer into its form.
SettingsArrive ==
  /\ reload.phase = "served"
  /\ reload' = NoReload
  /\ IF Front(ui).fills
       THEN /\ inForm' = [f \in Fields |-> IF f = "general" THEN reload.value[f] ELSE inForm[f]]
            /\ touched' = {}
       ELSE UNCHANGED <<inForm, touched>>
  /\ UNCHANGED <<ui, stored, step, undone, acts>>

SaveSettings ==
  /\ Act /\ step = 0
  /\ ui = "vue" => reload = NoReload
  /\ step' = 1
  /\ UNCHANGED <<ui, stored, inForm, touched, reload, undone>>

\* One payload is stored; after the last one the page reloads.
PayloadStored ==
  /\ step > 0
  /\ stored' = [f \in Fields |-> IF f \in Halves(ui)[step] THEN inForm[f] ELSE stored[f]]
  /\ undone' = (undone \/ \E f \in Fields \ touched : stored'[f] # stored[f])
  /\ IF step = Len(Halves(ui)) THEN step' = 0 /\ reload' = Reloading /\ touched' = {}
                               ELSE step' = step + 1 /\ UNCHANGED <<reload, touched>>
  /\ UNCHANGED <<ui, inForm, acts>>

\* An error between the two payloads leaves the first one stored.
SaveFails ==
  /\ step > 0
  /\ step' = 0
  /\ UNCHANGED <<ui, stored, inForm, touched, reload, undone, acts>>

\* An import has written the settings of a file; the page reloads.
ImportSettings(imported) ==
  /\ Act
  /\ stored' = imported
  /\ reload' = Reloading
  /\ UNCHANGED <<ui, inForm, touched, step, undone>>

-----------------------------------------------------------------------------
SNext ==
  \/ \E f \in Fields : ChangeSetting(f)
  \/ ReloadSettings \/ ServeSettings \/ SettingsArrive \/ SaveSettings \/ PayloadStored \/ SaveFails
  \/ \E imported \in Settings : ImportSettings(imported)

SSpec == SInit /\ [][SNext]_sVars

\* A save changes the settings the user has changed, and no other.
UntouchedIsKept == ~undone
=============================================================================
