------------------------------ MODULE MCForms ------------------------------
(* Model-checking instance of the modules about what is entered in the three *)
(* web fronts: mails (Compose), the pages of mail2im (AdminEditors,          *)
(* AdminSettings, AdminImport, AdminPolicy), the settings of FlyMail         *)
(* (SettingsDialogs, SettingsLists, SettingsFields) and the login (Session). *)
(* A behaviour is one of one module; part says of which.  The variables of   *)
(* Compose and Session rest in an initial state in the other behaviours,     *)
(* those of the other modules keep the value Off.                            *)
EXTENDS Compose, Session

CONSTANTS
    Records, MaxContent, MaxNet, MaxClicks,
    MaxActs, Sections, MaxImports, PolicyRows, MaxChanges,
    MaxOpenings, Rows, MaxMoves, MaxFlight, MaxOther, MaxValue, MaxEdits, MaxElse

VARIABLES
    part,
    \* AdminEditors
    editorsPage, rows, listed, form, editorsSaving, asked, deleting, editorsNet,
    clicks, meant, missed,
    \* AdminSettings
    ui, config, inForm, touched, reload, step, undone, acts,
    \* AdminImport
    importFront, existing, file, ticked, import, conflict, transfers, questioned,
    confirmed, replaced, imports,
    \* AdminPolicy
    edition, policy, display, savingRow, puts, policyFetch, policyFailed,
    changes,
    \* SettingsDialogs
    dialog, list, dialogForm, base, inited, opening, saves,
    \* SettingsLists
    section, order, cached, fetch, reorders, askedRow, moves, others, wanted,
    failed, missedRow,
    \* SettingsFields
    fieldSection, value, fieldCached, draft, synced, fieldFetch,
    fieldSaving, edits, elsewhere

editorsVars == <<editorsPage, rows, listed, form, editorsSaving, asked, deleting, editorsNet,
                  clicks, meant, missed>>
configVars == <<ui, config, inForm, touched, reload, step, undone, acts>>
importVars == <<importFront, existing, file, ticked, import, conflict, transfers,
                questioned, confirmed, replaced, imports>>
policyVars == <<edition, policy, display, savingRow, puts, policyFetch,
                 policyFailed, changes>>
dialogsVars == <<dialog, list, dialogForm, base, inited, opening, saves>>
listsVars == <<section, order, cached, fetch, reorders, askedRow, moves,
                others, wanted, failed, missedRow>>
fieldsVars == <<fieldSection, value, fieldCached, draft, synced,
                 fieldFetch, fieldSaving, edits, elsewhere>>
formsVars == <<part, vars, editorsVars, configVars, importVars, policyVars,
               dialogsVars, listsVars, fieldsVars, sessionVars>>

Editors == INSTANCE AdminEditors WITH page <- editorsPage,
        saving <- editorsSaving, net <- editorsNet
Config == INSTANCE AdminSettings WITH stored <- config
Import == INSTANCE AdminImport WITH front <- importFront
Policy == INSTANCE AdminPolicy WITH front <- edition, saving <- savingRow,
        fetch <- policyFetch, failed <- policyFailed
Dialogs == INSTANCE SettingsDialogs WITH form <- dialogForm
Lists == INSTANCE SettingsLists WITH stored <- order, requests <- reorders,
        asked <- askedRow, missed <- missedRow
Fields == INSTANCE SettingsFields WITH section <- fieldSection,
        stored <- value, cached <- fieldCached, fetch <- fieldFetch,
        saving <- fieldSaving

ASSUME FormsAssumption ==
    /\ Assumptions /\ SessionAssumptions
    /\ Editors!Assumptions /\ Config!SettingsAssumptions
    /\ Import!ImportAssumptions /\ Policy!PolicyAssumptions
    /\ Dialogs!Assumptions /\ Lists!Assumptions /\ Fields!Assumptions

\* Nobody writes a mail, nobody is signed in.
ComposeRests ==
    account = (CHOOSE a \in Accounts : TRUE) /\ drafts = [d \in Drafts |-> Free]
SessionRests == front = "flymail"

Off == "off"

editorsOff ==
    /\ editorsPage = Off /\ rows = Off /\ listed = Off /\ form = Off /\ editorsSaving = Off
    /\ asked = Off /\ deleting = Off /\ editorsNet = Off /\ clicks = Off
    /\ meant = Off /\ missed = Off

configOff ==
    /\ ui = Off /\ config = Off /\ inForm = Off /\ touched = Off
    /\ reload = Off /\ step = Off /\ undone = Off /\ acts = Off

importOff ==
    /\ importFront = Off /\ existing = Off /\ file = Off /\ ticked = Off
    /\ import = Off /\ conflict = Off /\ transfers = Off /\ questioned = Off
    /\ confirmed = Off /\ replaced = Off /\ imports = Off

policyOff ==
    /\ edition = Off /\ policy = Off /\ display = Off /\ savingRow = Off
    /\ puts = Off /\ policyFetch = Off /\ policyFailed = Off /\ changes = Off

dialogsOff ==
    /\ dialog = Off /\ list = Off /\ dialogForm = Off /\ base = Off
    /\ inited = Off /\ opening = Off /\ saves = Off

listsOff ==
    /\ section = Off /\ order = Off /\ cached = Off /\ fetch = Off
    /\ reorders = Off /\ askedRow = Off /\ moves = Off /\ others = Off
    /\ wanted = Off /\ failed = Off /\ missedRow = Off

fieldsOff ==
    /\ fieldSection = Off /\ value = Off /\ fieldCached = Off /\ draft = Off
    /\ synced = Off /\ fieldFetch = Off /\ fieldSaving = Off
    /\ edits = Off /\ elsewhere = Off

\* The sections of accounts and of trusted senders do what those of AI and of
\* blocked senders do.
Different ==
    Lists!ListSections \ {Lists!AccountsSection, Lists!TrustedSendersSection}

FormsInit ==
    /\ part \in {"compose", "editors", "config", "import", "policy", "dialogs",
                 "lists", "fields", "session"}
    /\ Init /\ (part # "compose" => ComposeRests)
    /\ SessionInit /\ (part # "session" => SessionRests)
    /\ IF part = "editors" THEN Editors!Init ELSE editorsOff
    /\ IF part = "config" THEN Config!SInit ELSE configOff
    /\ IF part = "import" THEN Import!IInit ELSE importOff
    /\ IF part = "policy" THEN Policy!PInit ELSE policyOff
    /\ IF part = "dialogs" THEN Dialogs!Init ELSE dialogsOff
    /\ IF part = "lists" THEN Lists!Init /\ section \in Different ELSE listsOff
    /\ IF part = "fields" THEN Fields!Init ELSE fieldsOff

ComposeStep ==
    /\ part = "compose" /\ Next
    /\ UNCHANGED <<part, editorsVars, configVars, importVars, policyVars,
                   dialogsVars, listsVars, fieldsVars, sessionVars>>

EditorsStep ==
    /\ part = "editors" /\ Editors!Next
    /\ UNCHANGED <<part, vars, configVars, importVars, policyVars,
                   dialogsVars, listsVars, fieldsVars, sessionVars>>

ConfigStep ==
    /\ part = "config" /\ Config!SNext
    /\ UNCHANGED <<part, vars, editorsVars, importVars, policyVars,
                   dialogsVars, listsVars, fieldsVars, sessionVars>>

ImportStep ==
    /\ part = "import" /\ Import!INext
    /\ UNCHANGED <<part, vars, editorsVars, configVars, policyVars,
                   dialogsVars, listsVars, fieldsVars, sessionVars>>

PolicyStep ==
    /\ part = "policy" /\ Policy!PNext
    /\ UNCHANGED <<part, vars, editorsVars, configVars, importVars,
                   dialogsVars, listsVars, fieldsVars, sessionVars>>

DialogsStep ==
    /\ part = "dialogs" /\ Dialogs!Next
    /\ UNCHANGED <<part, vars, editorsVars, configVars, importVars,
                   policyVars, listsVars, fieldsVars, sessionVars>>

ListsStep ==
    /\ part = "lists" /\ Lists!Next
    /\ UNCHANGED <<part, vars, editorsVars, configVars, importVars,
                   policyVars, dialogsVars, fieldsVars, sessionVars>>

FieldsStep ==
    /\ part = "fields" /\ Fields!Next
    /\ UNCHANGED <<part, vars, editorsVars, configVars, importVars,
                   policyVars, dialogsVars, listsVars, sessionVars>>

SessionStep ==
    /\ part = "session" /\ SessionNext
    /\ UNCHANGED <<part, vars, editorsVars, configVars, importVars,
                   policyVars, dialogsVars, listsVars, fieldsVars>>

FormsNext ==
    \/ ComposeStep \/ EditorsStep \/ ConfigStep \/ ImportStep \/ PolicyStep
    \/ DialogsStep \/ ListsStep \/ FieldsStep \/ SessionStep

FormsSpec == FormsInit /\ [][FormsNext]_formsVars

\* Sessions are followed as long as something is promised about them.
Undisturbed == ~disturbed

----------------------------------------------------------------------------
(* The properties are those of the modules, each for its part.              *)

\* Types, and what the code takes for granted about its own state.
TypesOK ==
    /\ TypeOK /\ SessionTypeOK
    /\ part = "editors" => Editors!TypeOK
    /\ part = "config" => Config!SettingsTypeOK
    /\ part = "import" => Import!ImportTypeOK
    /\ part = "policy" => Policy!PolicyTypeOK
    /\ part = "dialogs" => Dialogs!TypeOK
    /\ part = "lists" => Lists!TypeOK
    /\ part = "fields" => Fields!TypeOK

\* What reaches the server is what the user chose: the record whose form was
\* opened, and, from the React page, the import that was refused and confirmed.
NothingUnmeant ==
    /\ part = "editors" => Editors!MeantAsSent
    /\ part = "import" => Import!ReplacesTheConfirmed

\* When nothing is under way a page shows what the server has.
QuietIsStored ==
    /\ part = "editors" => Editors!QuietListIsFresh
    /\ part = "policy" => Policy!QuietPolicyIsStored
    /\ part = "lists" => Lists!QuietListIsServer

\* Moves that are pressed one after the other add up.
MovesAdd == part = "lists" => Lists!MovesAdd

\* What is being typed is not lost to a click, an answer or a fetch.
TypingSurvives ==
    [][/\ part = "dialogs" => Dialogs!KeepsTyped
       /\ part = "fields" => Fields!KeepsTyping]_formsVars
=============================================================================
