---------------------------- MODULE AdminImport ----------------------------
(***************************************************************************)
(* The export and the import of the settings page of mail2im's front ends: *)
(* the server refuses an import that would replace records, until it comes *)
(* with overwrite, which the user confirms in a dialog.  The boxes stay    *)
(* enabled and the dialogs can be closed while a request is in flight.     *)
(*                                                                         *)
(* The refusal carries the names of the records, but not where the pages   *)
(* look for them (data.conflicts): the list in the dialog is always empty, *)
(* and is not part of the state.                                           *)
(*                                                                         *)
(* A section of the file stands for its records, and existing for the      *)
(* sections whose records the server has already.                          *)
(***************************************************************************)
EXTENDS Naturals, FiniteSets

CONSTANTS
  Sections,     \* the sections of a file
  MaxImports    \* imports started (bound)

\* What the model takes for granted of its constants.
ImportAssumptions ==
  /\ Sections \subseteq {"accounts", "proxies", "channels", "settings"}
  /\ MaxImports \in Nat

VARIABLES
  front,      \* "react" or "vue"
  existing,   \* sections with records that the file has too
  file,       \* sections of the file chosen
  ticked,     \* sections the user wants
  import,     \* the request to import: "none", or what was sent
  conflict,   \* the dialog of conflicts: open, payload kept for the retry
  transfers,  \* import dialog open, export dialog open, exporting
  questioned, \* history: what was refused last, which the dialog is about
  confirmed,  \* history: what the user has confirmed
  replaced,   \* history: sections whose records were replaced; the three are
              \* kept of the sections that are asked about
  imports     \* counted against MaxImports

asking == <<questioned, confirmed>>
iVars == <<front, existing, file, ticked, import, conflict, transfers, asking, replaced,
           imports>>

\* Sections that are not replaced without overwrite.
AskedAbout == {"accounts", "proxies"}

NoImport == [phase |-> "none", payload |-> {}, overwrite |-> FALSE]
NoConflict == [open |-> FALSE, kept |-> {}]

ImportTypeOK ==
  /\ front \in {"react", "vue"}
  /\ existing \subseteq Sections /\ file \subseteq Sections /\ ticked \subseteq file
  /\ import \in [phase : {"none", "sent"}, payload : SUBSET Sections, overwrite : BOOLEAN]
  /\ conflict \in [open : BOOLEAN, kept : SUBSET Sections]
  /\ transfers \in [import : BOOLEAN, export : BOOLEAN, exporting : BOOLEAN]
  /\ questioned \subseteq Sections /\ confirmed \subseteq Sections /\ replaced \subseteq Sections
  /\ imports \in 0..MaxImports

IInit ==
  /\ front \in {"react", "vue"}
  /\ existing \in SUBSET Sections
  /\ file = {} /\ ticked = {} /\ import = NoImport /\ conflict = NoConflict
  /\ transfers = [import |-> FALSE, export |-> FALSE, exporting |-> FALSE]
  /\ questioned = {} /\ confirmed = {} /\ replaced = {} /\ imports = 0

-----------------------------------------------------------------------------
(* Export and import.                                                      *)

OpenExport ==
  /\ ~transfers.import /\ ~transfers.export
  /\ transfers' = [transfers EXCEPT !.export = TRUE]
  /\ UNCHANGED <<front, existing, file, ticked, import, conflict, asking, replaced, imports>>

\* Nothing is sent without a section, or for accounts without the password.
Export ==
  /\ transfers.export /\ ~transfers.exporting
  /\ transfers' = [transfers EXCEPT !.exporting = TRUE]
  /\ UNCHANGED <<front, existing, file, ticked, import, conflict, asking, replaced, imports>>

ExportEnds ==
  /\ transfers.exporting
  /\ \E fine \in BOOLEAN :
       transfers' = [transfers EXCEPT !.exporting = FALSE, !.export = IF fine THEN FALSE ELSE @]
  /\ UNCHANGED <<front, existing, file, ticked, import, conflict, asking, replaced, imports>>

CloseExport ==
  /\ transfers.export
  /\ transfers' = [transfers EXCEPT !.export = FALSE]
  /\ UNCHANGED <<front, existing, file, ticked, import, conflict, asking, replaced, imports>>

OpenImport ==
  /\ ~transfers.import /\ ~transfers.export
  /\ transfers' = [transfers EXCEPT !.import = TRUE]
  /\ file' = {} /\ ticked' = {} /\ conflict' = NoConflict
  /\ UNCHANGED <<front, existing, import, asking, replaced, imports>>

\* Every section of the file is ticked; a file with none is refused.
ChooseFile(avail) ==
  /\ transfers.import /\ ~conflict.open
  /\ file' = avail /\ ticked' = avail
  /\ UNCHANGED <<front, existing, import, conflict, transfers, asking, replaced, imports>>

\* The boxes stay enabled while an import is in flight.
TickSection(s) ==
  /\ transfers.import /\ ~conflict.open /\ s \in file
  /\ ticked' = IF s \in ticked THEN ticked \ {s} ELSE ticked \cup {s}
  /\ UNCHANGED <<front, existing, file, import, conflict, transfers, asking, replaced,
                 imports>>

CloseImport ==
  /\ transfers.import /\ ~conflict.open
  /\ transfers' = [transfers EXCEPT !.import = FALSE]
  /\ UNCHANGED <<front, existing, file, ticked, import, conflict, asking, replaced, imports>>

StartImport ==
  /\ transfers.import /\ ~conflict.open /\ import.phase = "none" /\ ticked # {}
  /\ imports < MaxImports /\ imports' = imports + 1
  /\ import' = [phase |-> "sent", payload |-> ticked, overwrite |-> FALSE]
  /\ UNCHANGED <<front, existing, file, ticked, conflict, transfers, asking, replaced>>

\* The user confirms: what was kept for the retry is sent.  The dialog of React
\* closes at once, that of Vue when the import has succeeded.
Overwrite ==
  /\ conflict.open /\ import.phase = "none" /\ conflict.kept # {}
  /\ import' = [phase |-> "sent", payload |-> conflict.kept, overwrite |-> TRUE]
  /\ conflict' = [conflict EXCEPT !.open = (front = "vue")]
  /\ confirmed' = confirmed \cup questioned
  /\ UNCHANGED <<front, existing, file, ticked, transfers, questioned, replaced, imports>>

CloseConflict ==
  /\ conflict.open
  /\ conflict' = [conflict EXCEPT !.open = FALSE]
  /\ UNCHANGED <<front, existing, file, ticked, import, transfers, asking, replaced,
                 imports>>

\* ImportConfig of the server: what it would replace, and when it refuses.
Conflicts(payload) == payload \cap existing \cap {"accounts", "proxies", "channels"}
\* Mutant of Refused: the retry flag is not looked at for one of the sections.
RefusedForProxies(payload, overwrite) == "proxies" \in Conflicts(payload) /\ ~overwrite
Refused(payload, overwrite) == Conflicts(payload) \cap AskedAbout # {} /\ ~overwrite
NothingToImport(payload) == payload \cap {"accounts", "proxies", "settings"} = {}

\* Mutant of KeptForRetry: both pages look at the boxes when the answer comes.
KeptAsTicked(payload) == ticked

\* What a refusal keeps for the retry: React has the boxes of the click, Vue
\* those of the moment.
KeptForRetry(payload) == IF front = "react" THEN payload ELSE ticked

ImportRefused ==
  /\ import.phase = "sent"
  /\ ~NothingToImport(import.payload) /\ Refused(import.payload, import.overwrite)
  /\ conflict' = [open |-> TRUE, kept |-> KeptForRetry(import.payload)]
  /\ questioned' = import.payload \cap AskedAbout
  /\ import' = NoImport
  /\ UNCHANGED <<front, existing, file, ticked, transfers, confirmed, replaced, imports>>

\* The records are written section by section and the page reloads; an error
\* in between leaves the sections before it written.
ImportDone ==
  /\ import.phase = "sent"
  /\ ~NothingToImport(import.payload) /\ ~Refused(import.payload, import.overwrite)
  /\ \E written \in SUBSET import.payload :
       /\ existing' = existing \cup written
       /\ replaced' = replaced \cup (written \cap existing \cap AskedAbout)
       /\ IF written = import.payload
            THEN /\ transfers' = [transfers EXCEPT !.import = FALSE]
                 /\ conflict' = [conflict EXCEPT !.open = FALSE]
                 /\ file' = {} /\ ticked' = {}
            ELSE UNCHANGED <<transfers, conflict, file, ticked>>
  /\ import' = NoImport
  /\ UNCHANGED <<front, asking, imports>>

\* Nothing to import, or an error before anything is written.
ImportFails ==
  /\ import.phase = "sent"
  /\ import' = NoImport
  /\ UNCHANGED <<front, existing, file, ticked, conflict, transfers, asking, replaced,
                 imports>>

-----------------------------------------------------------------------------
INext ==
  \/ OpenExport \/ Export \/ ExportEnds \/ CloseExport
  \/ OpenImport \/ CloseImport \/ StartImport \/ Overwrite \/ CloseConflict
  \/ \E avail \in SUBSET Sections : ChooseFile(avail)
  \/ \E s \in Sections : TickSection(s)
  \/ ImportRefused \/ ImportDone \/ ImportFails

ISpec == IInit /\ [][INext]_iVars

\* In the React page accounts and proxies the server has are replaced only by
\* what was refused before and then confirmed, whatever is ticked, which file
\* is chosen and which dialog is closed or opened anew while the imports are in
\* flight.  In the Vue page the retry sends the boxes as they are when the
\* refusal comes; channels and settings are replaced without a question.
ReplacesTheConfirmed ==
  front = "react" => replaced \subseteq confirmed
=============================================================================
