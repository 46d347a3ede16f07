------------------------------- MODULE Compose -------------------------------
(***************************************************************************)
(* The window in which a mail is written, and the drafts                   *)
(* (flymail/frontend/src: components/mail/ComposeDialog.tsx, DraftsList,   *)
(* composer/RichEditor.tsx, the openers of pages/Shell.tsx, the mutations  *)
(* of lib/queries.ts).                                                     *)
(*                                                                         *)
(* What the user writes is the set of places where something was typed:    *)
(* among the recipients, in Bcc, or in the body, which lives in the editor *)
(* and not in the state of the window.                                     *)
(***************************************************************************)
EXTENDS Integers, FiniteSets

CONSTANTS
    Accounts,
    Signed,         \* accounts that have a signature
    Drafts,         \* ids of drafts
    Places,         \* where something can be typed
    MaxSessions,    \* bound on the sessions
    MaxRequests,    \* bound on the requests sent
    None            \* no draft, no account

\* What the model takes for granted of its constants.
Assumptions ==
    /\ {"to"} \subseteq Places /\ Places \subseteq {"to", "bcc", "body"}
    /\ Signed \subseteq Accounts /\ None \notin Accounts \cup Drafts
    /\ MaxSessions \in Nat /\ MaxRequests \in Nat

VARIABLES
    \* The window.  What it holds means nothing while it is closed.
    win,            \* open, minimized, asking (closeGuard), draft
    initial,        \* what it was opened with
    text,           \* what it holds
    from,           \* fromOverride
    signature,      \* the block in the body and for whom it was put there; seen
                    \* is history: the query had found the signature of that
                    \* account and the editor was there, and still is
    \* The rest.
    session,        \* openings so far
    account,        \* the account of the main window
    sigs,           \* [Accounts -> SigStates]: the queries for the signatures
    saving,         \* drafts that are being prepared (await)
    flight,         \* requests under way
    calls,          \* requests so far
    drafts,         \* the drafts of the server
    sent            \* history: the drafts whose mail was sent

window == <<win, initial, text, from, signature>>
net == <<saving, flight, calls>>
world == <<account, sigs>>
backend == <<drafts, sent>>
vars == <<window, session, net, world, backend>>

Free == [state |-> "free", text |-> {}]
Gone == [state |-> "gone", text |-> {}]
There(t) == [state |-> "there", text |-> t]

Closed == [open |-> FALSE, minimized |-> FALSE, asking |-> FALSE, draft |-> None]
Opened(d) == [Closed EXCEPT !.open = TRUE, !.draft = d]
Unsigned == [block |-> None, session |-> 0, account |-> None, seen |-> FALSE]
SigStates == {"loading", "failed", "loaded"}

\* Tells calls apart that are alike otherwise.
FreshId(S) == CHOOSE i \in 0..Cardinality(S) : \A q \in S : q.id # i

\* Of the window, and of the list of drafts.
Kinds == {"send", "create", "update", "delete", "sendDraft", "deleteDraft"}
Request(kind, d, t) ==
    [kind |-> kind, id |-> FreshId(flight), draft |-> d, text |-> t, heard |-> TRUE]

\* effectiveAccountId.
Sender == IF from # None THEN from ELSE account

\* isSending, isSavingDraft and isBusy.  The deletion of a draft after its
\* sending is not among them.
Pending(kinds) == \E r \in flight : r.kind \in kinds /\ r.heard
IsBusy == Pending({"send", "create", "update"})

Init ==
    /\ win = Closed /\ initial = {} /\ text = {} /\ from = None /\ signature = Unsigned
    /\ session = 0
    /\ account \in Accounts /\ sigs = [a \in Accounts |-> "loading"]
    /\ saving = {} /\ flight = {} /\ calls = 0
    /\ drafts \in [Drafts -> {Free, There({"to"})}]
    /\ sent = {}

----------------------------------------------------------------------------
(* Opening *)

\* The effect of open, initial, draftId and accountId: the form is filled, a
\* new session begins, and the editor is filled with it.
Filled(d, t) ==
    /\ session < MaxSessions
    /\ session' = session + 1
    /\ win' = Opened(d)
    /\ text' = t /\ initial' = t
    /\ from' = None
    /\ signature' = Unsigned

\* onCompose, onReply, onForward, onMailto.
OpenNew ==
    /\ Filled(None, {})
    /\ UNCHANGED <<net, world, backend>>

\* openDraft: Bcc is not among what is taken over.
OpenDraft(d) ==
    /\ drafts[d].state = "there"
    /\ Filled(d, drafts[d].text \ {"bcc"})
    /\ UNCHANGED <<net, world, backend>>

\* The main window goes to another account; an open window is filled anew.
SwitchAccount(a) ==
    /\ a # account
    /\ account' = a
    /\ IF win.open THEN Filled(win.draft, initial) ELSE UNCHANGED <<window, session>>
    /\ UNCHANGED <<sigs, net, backend>>

\* onOpenChange(false).
Closes ==
    /\ win' = Closed /\ initial' = {} /\ text' = {} /\ from' = None
    /\ signature' = Unsigned

----------------------------------------------------------------------------
(* Writing *)

Shown == win.open /\ ~win.minimized

Type(p) ==
    /\ Shown /\ ~IsBusy
    /\ p \notin text
    /\ text' = text \cup {p}
    /\ UNCHANGED <<win, initial, from, signature, session, net, world, backend>>

\* Mutant of ChooseFrom: the key of the option is kept, not its account.
ChooseFromKey(a) ==
    /\ Shown /\ ~IsBusy /\ a # Sender
    /\ from' = {a}
    /\ UNCHANGED <<win, initial, text, signature, session, net, world, backend>>

ChooseFrom(a) ==
    /\ Shown /\ ~IsBusy /\ a # Sender
    /\ from' = a
    /\ UNCHANGED <<win, initial, text, signature, session, net, world, backend>>

\* The query of an account's signature ends, well or not; one that failed is
\* made again (focus of the window, another page that needs it).
SignatureLoads(a) ==
    /\ \/ sigs[a] = "loading" /\ \E s \in {"loaded", "failed"} : sigs' = [sigs EXCEPT ![a] = s]
       \/ sigs[a] = "failed" /\ sigs' = [sigs EXCEPT ![a] = "loading"]
    /\ UNCHANGED <<window, session, account, net, backend>>

\* signatureReady: a query that failed has ended, too.
SignatureReady == sigs[Sender] # "loading"

\* Mutant of SignatureDue: a change of the sender is not looked at.
SignatureDueOnce == win.open /\ SignatureReady /\ signature.session # session

\* The effect on the signature: once for a session, and whenever the sender
\* changes.
SignatureDue ==
    /\ win.open /\ SignatureReady
    /\ signature.session # session \/ signature.account # Sender

SignatureOf(a) == IF a \in Signed THEN a ELSE None
Found(a) == IF sigs[a] = "loaded" THEN SignatureOf(a) ELSE None

\* A draft carries its signature already; the bar has no editor to put one in.
\* After a query that failed the empty signature counts as put there.
ApplySignature ==
    LET fresh == signature.session # session
        kept == win.minimized \/ (fresh /\ (win.draft # None \/ Found(Sender) = None))
    IN  /\ SignatureDue
        /\ signature' = [block |-> IF kept THEN signature.block ELSE Found(Sender),
                         session |-> session, account |-> Sender,
                         seen |-> sigs[Sender] = "loaded" /\ ~win.minimized]
        /\ UNCHANGED <<win, initial, text, from, session, net, world, backend>>

\* The bar has no editor: the body and its signature go with it, and the body
\* comes back as it was when the window was opened.
Minimize ==
    /\ Shown
    /\ win' = [win EXCEPT !.minimized = TRUE]
    /\ text' = text \ {"body"}
    /\ signature' = [signature EXCEPT !.block = None, !.seen = FALSE]
    /\ UNCHANGED <<initial, from, session, net, world, backend>>

Expand ==
    /\ win.open /\ win.minimized
    /\ win' = [win EXCEPT !.minimized = FALSE]
    /\ text' = text \cup (initial \cap {"body"})
    /\ UNCHANGED <<initial, from, signature, session, net, world, backend>>

----------------------------------------------------------------------------
(* Closing *)

\* requestClose: the buttons and Esc.
RequestClose ==
    /\ win.open /\ ~IsBusy
    /\ IF text # {} THEN /\ win' = [win EXCEPT !.asking = TRUE]
                         /\ UNCHANGED <<initial, text, from, signature>>
                    ELSE Closes
    /\ UNCHANGED <<session, net, world, backend>>

\* The answers to the question; it is not on the bar.
KeepWriting ==
    /\ Shown /\ win.asking
    /\ win' = [win EXCEPT !.asking = FALSE]
    /\ UNCHANGED <<initial, text, from, signature, session, net, world, backend>>

Discard ==
    /\ Shown /\ win.asking
    /\ Closes
    /\ UNCHANGED <<session, net, world, backend>>

----------------------------------------------------------------------------
(* Sending and saving *)

\* The hook of a mutation follows its last call: an earlier one that is still
\* under way no longer counts as pending, and its callbacks do not run.
Joined(S, r) == {IF q.kind = r.kind THEN [q EXCEPT !.heard = FALSE] ELSE q : q \in S} \cup {r}

Begin(r) ==
    /\ calls < MaxRequests
    /\ calls' = calls + 1
    /\ flight' = Joined(flight, r)

\* Mutant of CanSend: the shortcut does not look at what is under way.
CanSendAlways == win.open

\* The button is disabled and sendRef returns while something is under way.
CanSend == win.open /\ ~IsBusy

\* handleSend; the button needs the window, Ctrl+Enter works on the bar too.
Send ==
    /\ CanSend
    /\ "to" \in text
    /\ Begin(Request("send", win.draft, {}))
    /\ UNCHANGED <<window, session, saving, world, backend>>

\* handleSaveDraft up to its await: the button and the third answer.
SaveDraft ==
    /\ Shown /\ ~IsBusy /\ Cardinality(saving) + calls < MaxRequests
    /\ saving' = saving \cup {[draft |-> win.draft, text |-> text, id |-> FreshId(saving)]}
    /\ win' = [win EXCEPT !.asking = FALSE]
    /\ UNCHANGED <<initial, text, from, signature, session, flight, calls,
                   world, backend>>

\* ... and after it.
Prepared(s) ==
    /\ s \in saving
    /\ saving' = saving \ {s}
    /\ Begin(Request(IF s.draft = None THEN "create" ELSE "update", s.draft, s.text))
    /\ UNCHANGED <<window, session, world, backend>>

\* Mutant of DraftOf: the draft that is open when the answer comes.
DraftOfWindow(r) == win.draft

\* The callback keeps the draft of the call.
DraftOf(r) == r.draft

\* The answer to a sending: the draft is deleted, and then the window closes.
Delivered(r) ==
    /\ r \in flight /\ r.kind = "send"
    /\ sent' = sent \cup ({r.draft} \ {None})
    /\ IF DraftOf(r) # None
       THEN /\ calls' = calls + 1
            /\ flight' = Joined(flight \ {r}, [r EXCEPT !.kind = "delete", !.draft = DraftOf(r)])
            /\ UNCHANGED window
       ELSE /\ flight' = flight \ {r}
            /\ calls' = calls
            /\ Closes
    /\ UNCHANGED <<session, saving, world, drafts>>

ClosesIfHeard(r) == IF r.heard THEN Closes ELSE UNCHANGED window

\* A draft is stored under a new id or under its own, if it is still there.
Stored(r) ==
    /\ r \in flight /\ r.kind \in {"create", "update"}
    /\ flight' = flight \ {r}
    /\ \E d \in Drafts :
          /\ IF r.kind = "create" THEN drafts[d].state = "free" ELSE d = r.draft /\ drafts[d].state = "there"
          /\ drafts' = [drafts EXCEPT ![d] = There(r.text)]
    /\ ClosesIfHeard(r)
    /\ UNCHANGED <<session, saving, calls, world, sent>>

\* The deletion ends, well or not: the window closes.
Deleted(r, ok) ==
    /\ r \in flight /\ r.kind = "delete"
    /\ flight' = flight \ {r}
    /\ drafts' = IF ok THEN [drafts EXCEPT ![r.draft] = Gone] ELSE drafts
    /\ ClosesIfHeard(r)
    /\ UNCHANGED <<session, saving, calls, world, sent>>

\* An error is shown and the window stays.
Fails(r) ==
    /\ r \in flight /\ r.kind # "delete"
    /\ flight' = flight \ {r}
    /\ UNCHANGED <<window, session, saving, calls, world, backend>>

\* DraftsList: the buttons of a row send or delete the draft where it is listed,
\* beside the window and whatever is under way.
ListRequest(kind, d) ==
    /\ drafts[d].state = "there"
    /\ Begin(Request(kind, d, {}))
    /\ UNCHANGED <<window, session, saving, world, backend>>

SendListed(d) == ListRequest("sendDraft", d)
DeleteListed(d) == ListRequest("deleteDraft", d)

\* SendDraft of the server has read the draft, sent its mail and deleted it, or
\* could not delete it.
ListedSent(r) ==
    /\ r \in flight /\ r.kind = "sendDraft"
    /\ flight' = flight \ {r}
    /\ sent' = sent \cup {r.draft}
    /\ drafts' \in {drafts, [drafts EXCEPT ![r.draft] = Gone]}
    /\ UNCHANGED <<window, session, saving, calls, world>>

ListedDeleted(r) ==
    /\ r \in flight /\ r.kind = "deleteDraft"
    /\ flight' = flight \ {r}
    /\ drafts' = [drafts EXCEPT ![r.draft] = Gone]
    /\ UNCHANGED <<window, session, saving, calls, world, sent>>

Answer ==
    \E r \in flight :
       \/ Delivered(r) \/ Stored(r) \/ Fails(r) \/ \E ok \in BOOLEAN : Deleted(r, ok)
       \/ ListedSent(r) \/ ListedDeleted(r)

User ==
    \/ OpenNew \/ \E d \in Drafts : OpenDraft(d) \/ SendListed(d) \/ DeleteListed(d)
    \/ \E a \in Accounts : SwitchAccount(a) \/ ChooseFrom(a)
    \/ \E p \in Places : Type(p)
    \/ Minimize \/ Expand \/ RequestClose \/ KeepWriting \/ Discard
    \/ Send \/ SaveDraft

Preparation == \E s \in saving : Prepared(s)

\* The effect on the signature runs before the next event.
Next ==
    \/ ApplySignature
    \/ ~SignatureDue /\ (User \/ Answer \/ Preparation \/ \E a \in Accounts : SignatureLoads(a))

Spec == Init /\ [][Next]_vars

----------------------------------------------------------------------------
(* Properties *)

TypeOK ==
    /\ win \in [open : BOOLEAN, minimized : BOOLEAN, asking : BOOLEAN,
                draft : Drafts \cup {None}]
    /\ initial \subseteq Places /\ text \subseteq Places
    /\ account \in Accounts /\ from \in Accounts \cup {None}
    /\ session \in 0..MaxSessions
    /\ signature.block \in Signed \cup {None} /\ signature.account \in Accounts \cup {None}
    /\ signature.seen \in BOOLEAN /\ sigs \in [Accounts -> SigStates]
    /\ \A d \in Drafts : drafts[d].state \in {"free", "there", "gone"} /\ drafts[d].text \subseteq Places
    /\ \A r \in flight : r.kind \in Kinds /\ r.draft \in Drafts \cup {None}

\* The window never has two mails of its own on their way, over all sessions:
\* button and shortcut wait for the answer, also when the window was closed and
\* opened.  What the list of drafts sends is beside it and waits for nothing.
OneSendAtATime == Cardinality({r \in flight : r.kind = "send"}) <= 1

\* A mail that was written anew is signed by its sender, however often the
\* sender changed and however late the signatures came.  Two ways to lose the
\* signature are left out: a query that fails counts as an empty signature,
\* which a later success does not replace, and the bar drops the editor; the
\* next change of the sender signs the mail again.
SignatureOfSender ==
    win.open /\ win.draft = None /\ ~SignatureDue /\ SignatureReady /\ signature.seen
        => signature.block = SignatureOf(Sender)

DeletesTheSent ==
    \A d \in Drafts : drafts[d].state = "there" /\ drafts'[d].state # "there" =>
        \/ d \in sent'
        \/ \E r \in flight : r.kind = "deleteDraft" /\ r.draft = d /\ ListedDeleted(r)

\* Only the draft whose mail was sent is deleted after it, whatever is open
\* when the answer comes; or the one that was deleted in the list.
RightDraftDeleted == [][DeletesTheSent]_vars
=============================================================================
