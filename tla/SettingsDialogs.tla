-------------------------- MODULE SettingsDialogs --------------------------
(***************************************************************************)
(* The dialogs in which the settings of FlyMail are edited: accounts, rules,*)
(* notification channels, providers of AI, the transfer of accounts and the *)
(* aliases of an account.  A dialog is left by Escape, a click on the       *)
(* cross, a click outside it, or the success of its save.  A click outside  *)
(* is refused while the form holds something worth keeping.                 *)
(*                                                                         *)
(* The dialogs differ in what survives their closing, and in how a form is *)
(* compared with the one it was opened with; the records of Dialogs say it. *)
(***************************************************************************)
EXTENDS Naturals, TLC

CONSTANTS
  Records,      \* what can be edited, positive numbers
  MaxContent,   \* contents of a form are 1..MaxContent; 0 is an empty form
  MaxOpenings   \* times a dialog is opened (bound)

\* What the model takes for granted of its constants.
Assumptions ==
  Records \subseteq Nat \ {0} /\ MaxContent \in Nat \ {0} /\ MaxOpenings \in Nat

New == 0                          \* a form for a new record; of the transfer: export
Targets == Records \cup {New}
Contents == 0..MaxContent
Openings == 0..MaxOpenings

(* The forms.  mounted = how long the form, its request and the callbacks  *)
(* of its request live; awaits = the handler awaits the request, and goes  *)
(* on after the dialog is gone; keeps = opening it again on the same       *)
(* target shows what was typed; ids = rows of the form have identifiers    *)
(* that are drawn anew each time the form is built.                        *)

Form(mounted) == [mounted |-> mounted, awaits |-> FALSE, keeps |-> FALSE, ids |-> FALSE]

AccountForm    == [Form("page") EXCEPT !.keeps = TRUE]
RuleForm       == [Form("opened") EXCEPT !.ids = TRUE]
ChannelForm    == Form("page")
AIProviderForm == Form("opened")
PortableForm   == [Form("opened") EXCEPT !.awaits = TRUE]
AliasForm      == Form("opened")

(* Their markup.  outside = a click outside leaves it; clear = a button    *)
(* puts back the form it was opened with.                                  *)

AccountDialog    == [outside |-> TRUE, clear |-> TRUE]
RuleDialog       == [outside |-> TRUE, clear |-> FALSE]
ChannelDialog    == [outside |-> TRUE, clear |-> FALSE]
AIProviderDialog == [outside |-> TRUE, clear |-> FALSE]
PortableDialog   == [outside |-> TRUE, clear |-> FALSE]
AliasList        == [outside |-> FALSE, clear |-> FALSE]

Dialogs ==
  {AccountForm @@ AccountDialog, RuleForm @@ RuleDialog, ChannelForm @@ ChannelDialog,
   AIProviderForm @@ AIProviderDialog, PortableForm @@ PortableDialog, AliasForm @@ AliasList}

VARIABLES
  dialog,    \* the dialog of this behaviour
  list,      \* the records on the page behind it
  form,      \* open, target, content, done (the result of an import is shown)
  base,      \* baseline: the form as it was built for the target
  inited,    \* initializedFor of the account dialog: {} or the target
  opening,   \* openings so far: the number of the current one
  saves      \* requests in flight: opening, target, content

vars == <<dialog, list, form, base, inited, opening, saves>>

Saves == [opening : Openings, target : Targets, content : Contents]

TypeOK ==
  /\ dialog \in Dialogs
  /\ list \in [Records -> Contents]
  /\ form \in [open : BOOLEAN, target : Targets, content : Contents, done : BOOLEAN]
  /\ base \in Contents
  /\ inited \in SUBSET Targets
  /\ opening \in Openings
  /\ saves \subseteq Saves

Init ==
  /\ dialog \in Dialogs
  /\ list = [i \in Records |-> 1]
  /\ form = [open |-> FALSE, target |-> New, content |-> 0, done |-> FALSE]
  /\ base = 0 /\ inited = {} /\ opening = 0 /\ saves = {}

-----------------------------------------------------------------------------
\* formFrom..., initialForm; an import starts without a file.
Built(t) == IF t = New \/ dialog.awaits THEN 0 ELSE list[t]

OpenOn(t) ==
  /\ ~form.open /\ opening < MaxOpenings
  /\ opening' = opening + 1
  /\ form' = [open |-> TRUE, target |-> t, done |-> FALSE,
              content |-> IF dialog.keeps /\ t \in inited THEN form.content ELSE Built(t)]
  /\ base' = Built(t)
  /\ inited' = IF dialog.keeps THEN {t} ELSE {}
  /\ UNCHANGED <<dialog, list, saves>>

\* A field is changed; in an import, a file is chosen.
Type(c) ==
  /\ form.open /\ c # form.content /\ c > 0
  /\ form' = [form EXCEPT !.content = c, !.done = FALSE]
  /\ UNCHANGED <<dialog, list, base, inited, opening, saves>>

ResetForm ==
  /\ form.open /\ dialog.clear
  /\ form' = [form EXCEPT !.content = base]
  /\ UNCHANGED <<dialog, list, base, inited, opening, saves>>

\* sameValue: the identifiers of the rows are compared with the rest.
SameValue == ~dialog.ids /\ form.content = base

\* The mistake of not guarding a form that is being saved.
UnsavedIdle == saves = {} /\ ~SameValue /\ (dialog.awaits => form.target # New /\ ~form.done)
\* What the guard asks at the moment of the click.  The transfer protects an
\* import with a file and without a result, and no export.
Unsaved == ~SameValue /\ (dialog.awaits => form.target # New /\ ~form.done)

Closed(f) == [f EXCEPT !.open = FALSE]

\* dismissProps: pointer and focus outside.
ClickOutside ==
  /\ form.open /\ dialog.outside
  /\ form' = IF Unsaved THEN form ELSE Closed(form)
  /\ UNCHANGED <<dialog, list, base, inited, opening, saves>>

\* Escape, the cross, the cancel button: never refused.
Leave ==
  /\ form.open
  /\ form' = Closed(form)
  /\ UNCHANGED <<dialog, list, base, inited, opening, saves>>

\* isPending of the request that lives with the form.
IsSaving == \E s \in saves : dialog.mounted = "page" \/ s.opening = opening

\* The button waits for the request; an incomplete form is refused.
Save ==
  /\ form.open /\ ~IsSaving
  /\ form.content > 0 \/ (dialog.awaits /\ form.target = New)
  /\ saves' = saves \cup {[opening |-> opening, target |-> form.target, content |-> form.content]}
  /\ UNCHANGED <<dialog, list, form, base, inited, opening>>

\* The callback of a request is called: the form that sent it is still
\* mounted, or the handler awaits the promise itself.
Heard(s) ==
  \/ dialog.mounted = "page"
  \/ dialog.awaits
  \/ form.open /\ s.opening = opening

\* onSuccess.  An import shows its result in the form that asked for it, all
\* others close the dialog, whatever it shows by now.
AfterSave(s) ==
  CASE ~form.open \/ ~Heard(s)            -> form
    [] dialog.awaits /\ s.target # New    -> IF s.opening = opening THEN [form EXCEPT !.done = TRUE] ELSE form
    [] OTHER                              -> Closed(form)

\* The list is invalidated, and shows the record as it was saved.
SaveSucceeds(s) ==
  /\ saves' = saves \ {s}
  /\ list' = IF s.target = New \/ dialog.awaits THEN list ELSE [list EXCEPT ![s.target] = s.content]
  /\ form' = AfterSave(s)
  /\ inited' = IF dialog.keeps THEN {} ELSE inited
  /\ UNCHANGED <<dialog, base, opening>>

\* The reason is shown in the form.
SaveFails(s) ==
  /\ saves' = saves \ {s}
  /\ UNCHANGED <<dialog, list, form, base, inited, opening>>

Next ==
  \/ \E t \in Targets : OpenOn(t)
  \/ \E c \in Contents : Type(c)
  \/ ResetForm \/ ClickOutside \/ Leave \/ Save
  \/ \E s \in saves : SaveSucceeds(s) \/ SaveFails(s)

Spec == Init /\ [][Next]_vars

-----------------------------------------------------------------------------
\* The dialogs whose requests die with them: rules, providers, aliases.
OwnAnswers == dialog.mounted = "opened" /\ ~dialog.awaits

\* A form of these dialogs that holds something typed is left only by the
\* user's decision or by the success of the save it sent itself: a click
\* outside never drops it, nor does the late answer of an earlier form.
KeepsTyped ==
  OwnAnswers /\ form.open /\ form.content # base /\ ~form'.open
    => Leave \/ \E s \in saves : s.opening = opening /\ SaveSucceeds(s)
=============================================================================
