------------------------ MODULE ComposeSession_proofs -----------------------
(***************************************************************************)
(* The window in which a mail is written, for every number of accounts,    *)
(* drafts, openings and requests: the window has one mail on its way at a  *)
(* time, whatever the list of drafts sends beside it, only the draft that  *)
(* was sent is deleted, and a new mail is signed by its sender.            *)
(* And the session of the three fronts, for every number of windows: nobody *)
(* is signed out by the renewals of a single window.                       *)
(***************************************************************************)
EXTENDS Compose, Session, FiniteSetTheorems, TLAPS

----------------------------------------------------------------------------
(* The window in which a mail is written (Compose).                        *)

\* The steps that touch neither the requests nor the drafts.
InWindow ==
    \/ ApplySignature \/ Minimize \/ Expand \/ RequestClose \/ KeepWriting \/ Discard
    \/ OpenNew \/ SaveDraft
    \/ \E d \in Drafts : OpenDraft(d)
    \/ \E a \in Accounts : SwitchAccount(a) \/ ChooseFrom(a) \/ SignatureLoads(a)
    \/ \E p \in Places : Type(p)

LEMMA WindowSteps == ASSUME InWindow PROVE UNCHANGED <<flight, backend>>
  BY DEF InWindow, ApplySignature, Minimize, Expand, RequestClose, KeepWriting, Discard,
     OpenNew, SaveDraft, OpenDraft, SwitchAccount, ChooseFrom, SignatureLoads, Type,
     window, net, world, backend

\* Every step, by what it touches.
LEMMA StepKinds == ASSUME Next
  PROVE \/ InWindow \/ Send
        \/ \E d \in Drafts : SendListed(d) \/ DeleteListed(d)
        \/ \E s \in saving : Prepared(s)
        \/ \E r \in flight : Delivered(r) \/ Stored(r) \/ Fails(r) \/ ListedSent(r) \/ ListedDeleted(r)
        \/ \E r \in flight, ok \in BOOLEAN : Deleted(r, ok)
  BY DEF Next, User, Answer, Preparation, InWindow

----------------------------------------------------------------------------
(* One mail at a time.  A mail of the window that is on its way is the one   *)
(* the window waits for, so that no second one can be sent from it.  What    *)
(* the list of drafts sends goes its own way.                                *)

\* The list asks for something that is no sending of the window.
LEMMA ListKinds ==
  ASSUME NEW d \in Drafts, SendListed(d) \/ DeleteListed(d)
  PROVE  /\ \E r : r.kind \in {"sendDraft", "deleteDraft"} /\ flight' = Joined(flight, r)
         /\ UNCHANGED <<window, session, saving, world, backend>>
  <1>1. PICK kind \in {"sendDraft", "deleteDraft"} : ListRequest(kind, d)
    BY DEF SendListed, DeleteListed
  <1> DEFINE call == Request(kind, d, {})
  <1>2. call.kind = kind
    BY DEF Request
  <1>3. flight' = Joined(flight, call)
    BY <1>1 DEF ListRequest, Begin
  <1>4. UNCHANGED <<window, session, saving, world, backend>>
    BY <1>1 DEF ListRequest
  <1> HIDE DEF call
  <1> QED  BY <1>2, <1>3, <1>4

SendsHeard == \A r \in flight : r.kind = "send" => r.heard
OneSend == \A q, r \in flight : q.kind = "send" /\ r.kind = "send" => q = r

SendInv == SendsHeard /\ OneSend

\* A call of another kind leaves the mails that are on their way alone.
LEMMA JoinedOther ==
  ASSUME NEW S, NEW r, r.kind # "send"
  PROVE  \A t \in Joined(S, r) : t.kind = "send" => t \in S
  <1> SUFFICES ASSUME NEW t \in Joined(S, r), t.kind = "send" PROVE t \in S
    OBVIOUS
  <1>1. t # r
    OBVIOUS
  <1>2. PICK q \in S : t = IF q.kind = r.kind THEN [q EXCEPT !.heard = FALSE] ELSE q
    BY <1>1 DEF Joined
  <1>3. CASE q.kind = r.kind
    <2>1. t.kind = q.kind
      BY <1>2, <1>3
    <2> QED  BY <2>1, <1>3
  <1>4. CASE q.kind # r.kind
    BY <1>2, <1>4
  <1> QED  BY <1>3, <1>4

LEMMA InitSend == Init => SendInv
  BY DEF Init, SendInv, SendsHeard, OneSend

LEMMA StepSend == SendInv /\ [Next]_vars => SendInv'
  <1> SUFFICES ASSUME SendInv, [Next]_vars PROVE SendInv'
    OBVIOUS
  <1> USE DEF SendInv, SendsHeard, OneSend
  <1>0. ASSUME \A t \in flight' : t.kind = "send" => t \in flight PROVE SendInv'
    BY <1>0
  <1>1. CASE InWindow
    BY <1>1, WindowSteps
  <1>2. CASE Send
    <2> DEFINE mail == Request("send", win.draft, {})
    <2>1. mail.kind = "send" /\ mail.heard
      BY DEF Request
    <2>2. flight' = Joined(flight, mail)
      BY <1>2 DEF Send, Begin
    <2>3. \A q \in flight : q.kind # "send"
      BY <1>2 DEF Send, CanSend, IsBusy, Pending
    <2> HIDE DEF mail
    <2>4. \A t \in flight' : t.kind = "send" => t = mail
      BY <2>1, <2>2, <2>3 DEF Joined
    <2> QED  BY <2>1, <2>4
  <1>3. ASSUME NEW s \in saving, Prepared(s) PROVE SendInv'
    <2> DEFINE call == Request(IF s.draft = None THEN "create" ELSE "update", s.draft, s.text)
    <2>1. call.kind # "send"
      BY DEF Request
    <2>2. flight' = Joined(flight, call)
      BY <1>3 DEF Prepared, Begin
    <2> HIDE DEF call
    <2> QED  BY <2>1, <2>2, <1>0, JoinedOther
  <1>4. ASSUME NEW r \in flight, Delivered(r) PROVE SendInv'
    <2>1. CASE flight' = flight \ {r}
      BY <2>1, <1>0
    <2>2. CASE flight' = Joined(flight \ {r}, [r EXCEPT !.kind = "delete", !.draft = DraftOf(r)])
      <3> DEFINE call == [r EXCEPT !.kind = "delete", !.draft = DraftOf(r)]
      <3>1. call.kind # "send"
        BY <1>4 DEF Delivered
      <3>2. flight' = Joined(flight \ {r}, call)
        BY <2>2
      <3> HIDE DEF call
      <3>3. \A t \in flight' : t.kind = "send" => t \in flight \ {r}
        BY <3>1, <3>2, JoinedOther
      <3> QED  BY <3>3, <1>0
    <2> QED  BY <1>4, <2>1, <2>2 DEF Delivered
  <1>5. ASSUME NEW r \in flight, Stored(r) \/ Fails(r) \/ ListedSent(r) \/ ListedDeleted(r) PROVE SendInv'
    BY <1>5, <1>0 DEF Stored, Fails, ListedSent, ListedDeleted
  <1>6. ASSUME NEW r \in flight, NEW ok \in BOOLEAN, Deleted(r, ok) PROVE SendInv'
    BY <1>6, <1>0 DEF Deleted
  <1>7. CASE UNCHANGED vars
    BY <1>7 DEF vars, net
  <1>8. ASSUME NEW d \in Drafts, SendListed(d) \/ DeleteListed(d) PROVE SendInv'
    <2>1. PICK r : r.kind \in {"sendDraft", "deleteDraft"} /\ flight' = Joined(flight, r)
      BY <1>8, ListKinds
    <2>2. \A t \in flight' : t.kind = "send" => t \in flight
      BY <2>1, JoinedOther
    <2> QED  BY <2>2, <1>0
  <1> QED  BY <1>1, <1>2, <1>3, <1>4, <1>5, <1>6, <1>7, <1>8, StepKinds

\* The window has at most one mail on its way, whatever was closed, minimized,
\* opened and answered in between, and whatever the list of drafts asks for.
THEOREM OneMailAtATime == Spec => []OneSendAtATime
  <1>1. SendInv => OneSendAtATime
    <2> SUFFICES ASSUME SendInv PROVE OneSendAtATime
      OBVIOUS
    <2> DEFINE S == {r \in flight : r.kind = "send"}
    <2>1. S = {} \/ \E x \in S : S = {x}
      BY DEF SendInv, OneSend
    <2>2. Cardinality(S) <= 1
      <3>1. CASE S = {}
        BY <3>1, FS_EmptySet
      <3>2. ASSUME NEW x \in S, S = {x} PROVE Cardinality(S) <= 1
        <4>1. Cardinality({x}) = 1
          BY FS_Singleton
        <4> QED  BY <3>2, <4>1
      <3> QED  BY <2>1, <3>1, <3>2
    <2> QED  BY <2>2 DEF OneSendAtATime
  <1> QED  BY <1>1, InitSend, StepSend, PTL DEF Spec

----------------------------------------------------------------------------
(* The draft that is deleted.  A deletion is only asked for by the answer to *)
(* a sending, for the draft of that sending.                                 *)

DeleteInv == \A r \in flight : r.kind = "delete" => r.draft \in sent

\* The same of every call that is not a deletion.
LEMMA JoinedKeepsDrafts ==
  ASSUME NEW S, NEW r
  PROVE  \A t \in Joined(S, r) : t = r \/ \E q \in S : t.kind = q.kind /\ t.draft = q.draft
  <1> SUFFICES ASSUME NEW t \in Joined(S, r), t # r
               PROVE  \E q \in S : t.kind = q.kind /\ t.draft = q.draft
    OBVIOUS
  <1>1. PICK q \in S : t = IF q.kind = r.kind THEN [q EXCEPT !.heard = FALSE] ELSE q
    BY DEF Joined
  <1>2. t.kind = q.kind /\ t.draft = q.draft
    <2>1. CASE q.kind = r.kind
      BY <1>1, <2>1
    <2>2. CASE q.kind # r.kind
      BY <1>1, <2>2
    <2> QED  BY <2>1, <2>2
  <1> QED  BY <1>2

LEMMA InitDelete == Init => DeleteInv
  BY DEF Init, DeleteInv

LEMMA StepDelete == DeleteInv /\ [Next]_vars => DeleteInv'
  <1> SUFFICES ASSUME DeleteInv, [Next]_vars PROVE DeleteInv'
    OBVIOUS
  <1> USE DEF DeleteInv
  <1>0. ASSUME \A t \in flight' : t.kind = "delete" => \E q \in flight : q.kind = "delete" /\ q.draft = t.draft,
               sent \subseteq sent'
        PROVE  DeleteInv'
    BY <1>0
  <1>1. CASE InWindow
    BY <1>1, WindowSteps DEF backend
  <1>2. CASE Send
    <2> DEFINE mail == Request("send", win.draft, {})
    <2>1. mail.kind = "send"
      BY DEF Request
    <2>2. flight' = Joined(flight, mail)
      BY <1>2 DEF Send, Begin
    <2>3. sent' = sent
      BY <1>2 DEF Send, backend
    <2> HIDE DEF mail
    <2>4. \A t \in flight' : t.kind = "delete" => \E q \in flight : q.kind = "delete" /\ q.draft = t.draft
      BY <2>1, <2>2, JoinedKeepsDrafts
    <2> QED  BY <2>3, <2>4
  <1>3. ASSUME NEW s \in saving, Prepared(s) PROVE DeleteInv'
    <2> DEFINE call == Request(IF s.draft = None THEN "create" ELSE "update", s.draft, s.text)
    <2>1. call.kind # "delete"
      BY DEF Request
    <2>2. flight' = Joined(flight, call)
      BY <1>3 DEF Prepared, Begin
    <2>3. sent' = sent
      BY <1>3 DEF Prepared, backend
    <2> HIDE DEF call
    <2>4. \A t \in flight' : t.kind = "delete" => \E q \in flight : q.kind = "delete" /\ q.draft = t.draft
      BY <2>1, <2>2, JoinedKeepsDrafts
    <2> QED  BY <2>3, <2>4
  <1>4. ASSUME NEW r \in flight, Delivered(r) PROVE DeleteInv'
    <2>1. sent' = sent \cup ({r.draft} \ {None})
      BY <1>4 DEF Delivered
    <2>2. CASE flight' = flight \ {r}
      BY <2>1, <2>2
    <2>3. CASE r.draft # None /\ flight' = Joined(flight \ {r}, [r EXCEPT !.kind = "delete", !.draft = DraftOf(r)])
      <3> DEFINE call == [r EXCEPT !.kind = "delete", !.draft = DraftOf(r)]
      <3>1. flight' = Joined(flight \ {r}, call)
        BY <2>3
      <3>2. call.draft = r.draft
        BY DEF DraftOf
      <3> HIDE DEF call
      <3>3. \A t \in flight' : t.kind = "delete" =>
               t = call \/ \E q \in flight : q.kind = "delete" /\ q.draft = t.draft
        BY <3>1, JoinedKeepsDrafts
      <3> QED  BY <2>1, <2>3, <3>2, <3>3
    <2> QED  BY <1>4, <2>2, <2>3 DEF Delivered, DraftOf
  <1>5. ASSUME NEW r \in flight, Stored(r) \/ Fails(r) \/ ListedSent(r) \/ ListedDeleted(r) PROVE DeleteInv'
    BY <1>5 DEF Stored, Fails, ListedSent, ListedDeleted, backend
  <1>6. ASSUME NEW r \in flight, NEW ok \in BOOLEAN, Deleted(r, ok) PROVE DeleteInv'
    BY <1>6 DEF Deleted
  <1>7. CASE UNCHANGED vars
    BY <1>7 DEF vars, net, backend
  <1>8. ASSUME NEW d \in Drafts, SendListed(d) \/ DeleteListed(d) PROVE DeleteInv'
    <2>1. PICK r : r.kind \in {"sendDraft", "deleteDraft"} /\ flight' = Joined(flight, r)
      BY <1>8, ListKinds
    <2>2. sent' = sent
      BY <1>8, ListKinds DEF backend
    <2>3. \A t \in flight' : t.kind = "delete" => \E q \in flight : q.kind = "delete" /\ q.draft = t.draft
      BY <2>1, JoinedKeepsDrafts
    <2> QED  BY <2>2, <2>3
  <1> QED  BY <1>1, <1>2, <1>3, <1>4, <1>5, <1>6, <1>7, <1>8, StepKinds

DraftsOK == drafts = [d \in Drafts |-> drafts[d]]

LEMMA InitDrafts == Init => DraftsOK
  BY DEF Init, DraftsOK

LEMMA StepDrafts == DraftsOK /\ [Next]_vars => DraftsOK'
  <1> SUFFICES ASSUME DraftsOK, [Next]_vars PROVE DraftsOK'
    OBVIOUS
  <1>1. CASE UNCHANGED drafts
    BY <1>1 DEF DraftsOK
  <1>2. ASSUME NEW e, NEW v, drafts' = [drafts EXCEPT ![e] = v] PROVE DraftsOK'
    BY <1>2 DEF DraftsOK
  <1>3. UNCHANGED drafts \/ \E e, v : drafts' = [drafts EXCEPT ![e] = v]
    <2>1. ASSUME NEW r \in flight, Stored(r) PROVE <1>3!2
      BY <2>1 DEF Stored
    <2>2. ASSUME NEW r \in flight, Delivered(r) \/ Fails(r) PROVE <1>3!1
      BY <2>2 DEF Delivered, Fails, backend
    <2>3. ASSUME NEW s \in saving, Prepared(s) PROVE <1>3!1
      BY <2>3 DEF Prepared, backend
    <2>4. ASSUME NEW d \in Drafts, SendListed(d) \/ DeleteListed(d) PROVE <1>3!1
      BY <2>4, ListKinds DEF backend
    <2>5. ASSUME NEW r \in flight, ListedSent(r) \/ ListedDeleted(r) PROVE UNCHANGED drafts \/ <1>3!2
      BY <2>5 DEF ListedSent, ListedDeleted
    <2> QED  BY <2>1, <2>2, <2>3, <2>4, <2>5, StepKinds, WindowSteps DEF Send, Deleted, vars, backend
  <1> QED  BY <1>1, <1>2, <1>3

\* A draft disappears because it was deleted where it is listed, or because
\* its own mail was sent.
LEMMA StepDeletes == DraftsOK /\ DeleteInv /\ [Next]_vars => DeletesTheSent
  <1> SUFFICES ASSUME DraftsOK, DeleteInv, [Next]_vars,
                      NEW d \in Drafts, drafts[d].state = "there", drafts'[d].state # "there"
               PROVE  \/ d \in sent'
                      \/ \E r \in flight : r.kind = "deleteDraft" /\ r.draft = d /\ ListedDeleted(r)
    BY DEF DeletesTheSent
  <1>1. ASSUME NEW r \in flight, ListedSent(r) PROVE d \in sent'
    <2>1. drafts' = [drafts EXCEPT ![r.draft] = Gone] /\ sent' = sent \cup {r.draft}
      BY <1>1 DEF ListedSent
    <2>2. r.draft = d
      BY <2>1 DEF DraftsOK
    <2> QED  BY <2>1, <2>2
  <1>2. ASSUME NEW r \in flight, NEW ok \in BOOLEAN, Deleted(r, ok) PROVE d \in sent'
    <2>1. r.draft = d
      BY <1>2 DEF Deleted, DraftsOK
    <2> QED  BY <1>2, <2>1 DEF Deleted, DeleteInv
  <1>3. ASSUME NEW r \in flight, Stored(r) PROVE FALSE
    <2>1. PICK e \in Drafts : drafts' = [drafts EXCEPT ![e] = There(r.text)]
      BY <1>3 DEF Stored
    <2> QED  BY <2>1 DEF There, DraftsOK
  <1>4. ASSUME NEW r \in flight, Delivered(r) \/ Fails(r) PROVE FALSE
    BY <1>4 DEF Delivered, Fails, backend
  <1>5. ASSUME NEW s \in saving, Prepared(s) PROVE FALSE
    BY <1>5 DEF Prepared, backend
  <1>6. ASSUME NEW r \in flight, ListedDeleted(r) PROVE r.kind = "deleteDraft" /\ r.draft = d
    BY <1>6 DEF ListedDeleted, DraftsOK
  <1>7. ASSUME NEW e \in Drafts, SendListed(e) \/ DeleteListed(e) PROVE FALSE
    BY <1>7, ListKinds DEF backend
  <1> QED  BY <1>1, <1>2, <1>3, <1>4, <1>5, <1>6, <1>7, StepKinds, WindowSteps DEF Send, vars, backend

\* Whatever draft is open when the answer comes, the one that was sent is the
\* one that is deleted.
THEOREM SentDraftDeleted == Spec => RightDraftDeleted
  <1>1. Init => DraftsOK /\ DeleteInv
    BY InitDrafts, InitDelete
  <1>2. DraftsOK /\ DeleteInv /\ [Next]_vars => DraftsOK' /\ DeleteInv' /\ DeletesTheSent
    BY StepDrafts, StepDelete, StepDeletes
  <1> QED  BY <1>1, <1>2, PTL DEF Spec, RightDraftDeleted

----------------------------------------------------------------------------
(* The signature.  Between two runs of its effect the block belongs to the   *)
(* account the effect saw last, if that had found its signature and the      *)
(* editor is still there; a window that was filled since has none.           *)

SessionOK == session \in Nat /\ signature.session \in Nat /\ (win.open => session > 0)

Signs ==
    win.open /\ win.draft = None =>
        IF signature.session = session
        THEN signature.seen => signature.block = SignatureOf(signature.account)
        ELSE signature.block = None

SignInv == SessionOK /\ Signs

LEMMA InitSign == Init => SignInv
  BY DEF Init, SignInv, SessionOK, Signs, Closed, Unsigned

\* A window that is filled or closed starts without a signature.
LEMMA FilledSigns == ASSUME SignInv, NEW d, NEW t, Filled(d, t) PROVE SignInv'
  <1> USE DEF SignInv, SessionOK, Signs, Filled
  <1>1. /\ session' = session + 1 /\ session' > 0 /\ session' \in Nat
        /\ signature' = [block |-> None, session |-> 0, account |-> None, seen |-> FALSE]
    BY DEF Unsigned
  <1> QED  BY <1>1

LEMMA ClosesSigns == ASSUME SignInv, Closes, session' = session PROVE SignInv'
  <1> USE DEF SignInv, SessionOK, Signs
  <1>1. win'.open = FALSE
    BY DEF Closes, Closed
  <1>2. signature'.session \in Nat
    BY DEF Closes, Unsigned
  <1> QED  BY <1>1, <1>2

LEMMA SameWindowSigns ==
  ASSUME SignInv, UNCHANGED <<session, signature>>, win'.open = win.open, win'.draft = win.draft
  PROVE  SignInv'
  BY DEF SignInv, SessionOK, Signs

LEMMA AppliedSigns == ASSUME SignInv, ApplySignature PROVE SignInv'
  <1> USE DEF SignInv, SessionOK
  <1> DEFINE fresh == signature.session # session
             kept == win.minimized \/ (fresh /\ (win.draft # None \/ Found(Sender) = None))
  <1>1. signature' = [block |-> IF kept THEN signature.block ELSE Found(Sender),
                      session |-> session, account |-> Sender,
                      seen |-> sigs[Sender] = "loaded" /\ ~win.minimized]
    BY DEF ApplySignature
  <1>2. UNCHANGED <<win, session>>
    BY DEF ApplySignature
  <1>3. signature'.session = session /\ signature'.account = Sender
    BY <1>1
  <1>4. ASSUME win.open, win.draft = None, signature'.seen PROVE signature'.block = SignatureOf(Sender)
    <2>1. ~win.minimized /\ Found(Sender) = SignatureOf(Sender)
      BY <1>1, <1>4 DEF Found
    <2>2. CASE kept
      <3>1. signature.block = None /\ Found(Sender) = None
        BY <1>4, <2>1, <2>2 DEF Signs
      <3> QED  BY <1>1, <2>1, <2>2, <3>1
    <2>3. CASE ~kept
      BY <1>1, <2>1, <2>3
    <2> QED  BY <2>2, <2>3
  <1>5. Signs'
    BY <1>2, <1>3, <1>4 DEF Signs, SignatureOf
  <1> QED  BY <1>2, <1>3, <1>5

\* The editor goes with the window, or comes back empty.
LEMMA MinimizeSigns == ASSUME SignInv, Minimize PROVE SignInv'
  <1> USE DEF SignInv, SessionOK, Signs
  <1>1. session' = session
    BY DEF Minimize
  <1>2. win'.open = win.open /\ win'.draft = win.draft
    BY DEF Minimize
  <1>3. signature' = [signature EXCEPT !.block = None, !.seen = FALSE]
    BY DEF Minimize
  <1>4. signature'.session = signature.session /\ (signature'.block = None \/ signature' = signature)
    BY <1>3
  <1>5. signature'.seen => signature' = signature
    BY <1>3
  <1> QED  BY <1>1, <1>2, <1>4, <1>5

LEMMA ExpandSigns == ASSUME SignInv, Expand PROVE SignInv'
  <1>1. UNCHANGED <<session, signature>> /\ win' = [win EXCEPT !.minimized = FALSE]
    BY DEF Expand
  <1>2. win'.open = win.open /\ win'.draft = win.draft
    BY <1>1
  <1> QED  BY <1>1, <1>2, SameWindowSigns

\* The steps that leave the fields of the window that matter here alone.
LEMMA OtherSigns ==
  ASSUME SignInv,
         \/ RequestClose \/ KeepWriting \/ Discard \/ Send \/ SaveDraft
         \/ \E d \in Drafts : SendListed(d) \/ DeleteListed(d)
         \/ \E a \in Accounts : ChooseFrom(a) \/ SignatureLoads(a)
         \/ \E p \in Places : Type(p)
         \/ \E s \in saving : Prepared(s)
         \/ \E r \in flight : Delivered(r) \/ Stored(r) \/ Fails(r) \/ ListedSent(r) \/ ListedDeleted(r)
         \/ \E r \in flight, ok \in BOOLEAN : Deleted(r, ok)
  PROVE  SignInv'
  <1>1. \/ UNCHANGED <<win, session, signature>>
        \/ Closes /\ session' = session
        \/ \E b \in BOOLEAN : win' = [win EXCEPT !.asking = b] /\ UNCHANGED <<session, signature>>
    BY ListKinds
       DEF RequestClose, KeepWriting, Discard, Send, SaveDraft, ChooseFrom, SignatureLoads, Type,
           Prepared, Delivered, Stored, Fails, Deleted, ListedSent, ListedDeleted, ClosesIfHeard, window
  <1>2. ASSUME NEW b \in BOOLEAN, win' = [win EXCEPT !.asking = b], UNCHANGED <<session, signature>>
        PROVE  SignInv'
    BY <1>2, SameWindowSigns
  <1> QED  BY <1>1, <1>2, ClosesSigns, SameWindowSigns

LEMMA StepSign == SignInv /\ [Next]_vars => SignInv'
  <1> SUFFICES ASSUME SignInv, [Next]_vars PROVE SignInv'
    OBVIOUS
  <1>1. CASE OpenNew
    BY <1>1, FilledSigns DEF OpenNew
  <1>2. ASSUME NEW d \in Drafts, OpenDraft(d) PROVE SignInv'
    BY <1>2, FilledSigns DEF OpenDraft
  <1>3. ASSUME NEW a \in Accounts, SwitchAccount(a) PROVE SignInv'
    BY <1>3, FilledSigns, SameWindowSigns DEF SwitchAccount, window
  <1>4. CASE ApplySignature \/ Minimize \/ Expand
    BY <1>4, AppliedSigns, MinimizeSigns, ExpandSigns
  <1>5. CASE UNCHANGED vars
    BY <1>5, SameWindowSigns DEF vars, window
  <1> QED  BY <1>1, <1>2, <1>3, <1>4, <1>5, OtherSigns, StepKinds DEF InWindow

\* A new mail carries the signature of its sender, whatever order senders,
\* signatures and windows came in, unless the query had failed when the window
\* asked for it or the bar has dropped the editor since.
THEOREM SenderSigns == Spec => []SignatureOfSender
  <1>1. SignInv => SignatureOfSender
    BY DEF SignInv, SessionOK, Signs, SignatureOfSender, SignatureDue
  <1> QED  BY <1>1, InitSign, StepSign, PTL DEF Spec

----------------------------------------------------------------------------
(* The session (Session).                                                  *)

----------------------------------------------------------------------------
(* What the proof knows of the state.                                        *)

Shapes ==
    /\ at = [w \in Windows |-> at[w]]
    /\ memory = [w \in Windows |-> memory[w]]
    /\ requests = [w \in Windows |-> requests[w]]

ServerOK ==
    /\ server = [issued |-> server.issued, live |-> server.live, valid |-> server.valid]
    /\ server.issued \in Nat /\ server.valid \subseteq 1..server.issued

IsRenewal(r) ==
    /\ r.win \in Windows
    /\ r = [win |-> r.win, session |-> r.session, stage |-> r.stage, got |-> r.got,
            waiting |-> r.waiting]

RenewalsOK == \A r \in renewals : IsRenewal(r)

TypeInv == Shapes /\ ServerOK /\ RenewalsOK

\* Every renewal will be granted: it was sent with a token that is good, or it
\* brings one.
GoodRenewals ==
    \A r \in renewals :
        \/ r.stage = "sent" /\ r.session \in server.valid
        \/ r.stage = "granted" /\ r.got \in server.valid

\* Where refresh tokens are not used up the stored one is good.
GoodStored == ~Rotates => stored \in server.valid \cup {0}

\* Where they are, one window is open, ...
Alone == \A v, w \in Windows : at[v] # "closed" /\ at[w] # "closed" => v = w

\* ... it holds the stored session, ...
Holds == \A w \in Windows : at[w] # "closed" => memory[w] = stored

\* ... no other one has a request ...
Idle == \A w \in Windows, s \in Slots : at[w] = "closed" => requests[w][s].stage = "none"

\* ... or a renewal, of which there is one at most, ...
Owned == \A r \in renewals : at[r.win] # "closed"

Single == \A q, r \in renewals : q = r

\* ... and the stored session is good or being renewed.
Covered == stored \in server.valid \cup {0} \cup {r.session : r \in renewals}

OneWindow == Alone /\ Holds /\ Idle /\ Owned /\ Single /\ Covered

Sound ==
    /\ signedIn => stored # 0
    /\ GoodRenewals /\ GoodStored
    /\ Rotates => OneWindow

SessionInv == TypeInv /\ (~disturbed => Sound)

LEMMA InitInv == SessionInit => SessionInv
  <1> SUFFICES ASSUME SessionInit PROVE SessionInv
    OBVIOUS
  <1>1. TypeInv
    BY DEF SessionInit, TypeInv, Shapes, ServerOK, RenewalsOK, IsRenewal
  <1>2. GoodRenewals /\ GoodStored
    BY DEF SessionInit, GoodRenewals, GoodStored
  <1>3. OneWindow
    BY DEF SessionInit, OneWindow, Alone, Holds, Idle, Owned, Single, Covered, NoRequest
  <1> QED  BY <1>1, <1>2, <1>3 DEF SessionInv, Sound, SessionInit

\* What was disturbed stays so.
LEMMA Disturbing == ASSUME SessionNext, ~disturbed' PROVE ~disturbed
  BY DEF SessionNext, Load, Navigate, Login, Logout, SendRequest, Serve, Unauthorized, RenewalServed, RenewalFails,
     RenewalGranted, RenewalDenied, Expire, history, page

LEMMA FrontStays == ASSUME SessionNext PROVE front' = front
  BY DEF SessionNext, Load, Navigate, Login, Logout, SendRequest, Serve, Unauthorized, RenewalServed, RenewalFails,
     RenewalGranted, RenewalDenied, Expire

----------------------------------------------------------------------------
(* Types                                                                     *)

LEMMA RenewalShape == ASSUME NEW w \in Windows, NEW n, NEW W
  PROVE LET r == Renewal(w, n, W) IN
        IsRenewal(r) /\ r.win = w /\ r.session = n /\ r.stage = "sent" /\ r.waiting = W
  BY DEF Renewal, IsRenewal

\* A renewal that is answered, and one that is joined.
LEMMA AnsweredShape == ASSUME NEW r, IsRenewal(r), NEW x
  PROVE LET q == [r EXCEPT !.stage = x] IN
        IsRenewal(q) /\ q.win = r.win /\ q.session = r.session /\ q.stage = x /\ q.got = r.got
  BY DEF IsRenewal

LEMMA GrantedShape == ASSUME NEW r, IsRenewal(r), NEW n
  PROVE LET q == Granted(r, n) IN
        IsRenewal(q) /\ q.win = r.win /\ q.session = r.session /\ q.stage = "granted" /\ q.got = n
  BY DEF IsRenewal, Granted

LEMMA JoinedRenewalShape == ASSUME NEW r, IsRenewal(r), NEW s
  PROVE LET q == JoinedRenewal(r, s) IN
        IsRenewal(q) /\ q.win = r.win /\ q.session = r.session /\ q.stage = r.stage /\ q.got = r.got
  BY DEF IsRenewal, JoinedRenewal

LEMMA IssuedShape == ASSUME ServerOK, NEW spent
  PROVE LET n == server.issued + 1 IN
        /\ n \in Nat /\ n # 0 /\ n \notin server.valid
        /\ (server.valid \cup {n}) \ spent \subseteq 1..n
  BY DEF ServerOK

\* The arrays of windows stay arrays.
LEMMA StepShapes == ASSUME Shapes, RenewalsOK, SessionNext PROVE Shapes'
  <1> USE DEF Shapes
  <1>1. at' = at \/ \E w \in Windows : \E x : at' = [at EXCEPT ![w] = x]
    <2>1. ASSUME NEW r \in renewals, NEW m PROVE Shows(r, m) = at \/ \E w \in Windows : \E x : Shows(r, m) = [at EXCEPT ![w] = x]
      BY DEF Shows, Lost, Renewed, RenewalsOK, IsRenewal
    <2>2. ASSUME NEW w \in Windows PROVE Lost(w) = at \/ \E x : Lost(w) = [at EXCEPT ![w] = x]
      BY DEF Lost
    <2>3. ASSUME NEW w \in Windows, NEW s \in Slots, Unauthorized(w, s) PROVE <1>1!1 \/ <1>1!2
      BY <2>2, <2>3 DEF Unauthorized, page
    <2>4. ASSUME NEW w \in Windows, Load(w) \/ Navigate(w) \/ Login(w) \/ Logout(w) PROVE <1>1!1 \/ <1>1!2
      BY <2>4 DEF Load, Navigate, Login, Logout
    <2>5. ASSUME NEW r \in renewals, RenewalServed(r) \/ RenewalFails(r) \/ RenewalGranted(r) \/ RenewalDenied(r)
          PROVE  <1>1!1 \/ <1>1!2
      <3>1. at' = at \/ at' = Shows(r, r.got) \/ at' = Shows(r, 0)
        BY <2>5 DEF RenewalServed, RenewalFails, RenewalGranted, RenewalDenied, page
      <3>2. Shows(r, r.got) = at \/ \E w \in Windows : \E x : Shows(r, r.got) = [at EXCEPT ![w] = x]
        BY <2>1
      <3>3. Shows(r, 0) = at \/ \E w \in Windows : \E x : Shows(r, 0) = [at EXCEPT ![w] = x]
        BY <2>1
      <3> QED  BY <3>1, <3>2, <3>3, Zenon
    <2> QED  BY <2>3, <2>4, <2>5 DEF SessionNext, SendRequest, Serve, Expire, page
  <1>2. memory' = memory \/ \E w \in Windows : \E x : memory' = [memory EXCEPT ![w] = x]
    <2>1. ASSUME NEW r \in renewals, RenewalServed(r) \/ RenewalFails(r) \/ RenewalGranted(r) \/ RenewalDenied(r)
          PROVE  <1>2!1 \/ <1>2!2
      BY <2>1 DEF RenewalServed, RenewalFails, RenewalGranted, RenewalDenied, page, SetSession,
         ClearSession, RenewalsOK, IsRenewal
    <2>2. ASSUME NEW w \in Windows, NEW s \in Slots, Unauthorized(w, s) PROVE <1>2!1 \/ <1>2!2
      BY <2>2 DEF Unauthorized, page, ClearSession
    <2> QED  BY <2>1, <2>2 DEF SessionNext, Load, Navigate, Login, Logout, SendRequest, Serve, Expire, page, SetSession,
                ClearSession
  <1>3. requests' = requests \/ \E w \in Windows : \E x : requests' = [requests EXCEPT ![w] = x]
    <2>1. ASSUME NEW r \in renewals, RenewalServed(r) \/ RenewalFails(r) \/ RenewalGranted(r) \/ RenewalDenied(r)
          PROVE  <1>3!1 \/ <1>3!2
      BY <2>1 DEF RenewalServed, RenewalFails, RenewalGranted, RenewalDenied, Forget, RenewalsOK, IsRenewal
    <2>2. ASSUME NEW w \in Windows, NEW s \in Slots, Unauthorized(w, s) PROVE <1>3!1 \/ <1>3!2
      BY <2>2 DEF Unauthorized, Forget
    <2>3. ASSUME NEW w \in Windows, NEW s \in Slots, SendRequest(w, s) \/ Serve(w, s) PROVE <1>3!1 \/ <1>3!2
      BY <2>3 DEF SendRequest, Serve
    <2> QED  BY <2>1, <2>2, <2>3 DEF SessionNext, Load, Navigate, Login, Logout, Expire, Forget
  <1> QED  BY <1>1, <1>2, <1>3

LEMMA StepServer == ASSUME ServerOK, SessionNext PROVE ServerOK'
  <1>1. ASSUME NEW spent, server' = Issued(server.issued + 1, spent) PROVE ServerOK'
    BY <1>1, IssuedShape DEF ServerOK, Issued
  <1>2. ASSUME NEW n, Expire(n) PROVE ServerOK'
    <2>1. server' = [server EXCEPT !.live = server.live \ {n}]
      BY <1>2 DEF Expire
    <2>2. server' = [issued |-> server.issued, live |-> server.live \ {n}, valid |-> server.valid]
      BY <2>1 DEF ServerOK
    <2> QED  BY <2>2 DEF ServerOK
  <1>3. ASSUME server' = server PROVE ServerOK'
    BY <1>3 DEF ServerOK
  <1>4. ASSUME NEW r \in renewals, RenewalServed(r) PROVE ServerOK'
    BY <1>1, <1>3, <1>4 DEF RenewalServed
  <1> QED  BY <1>1, <1>2, <1>3, <1>4 DEF SessionNext, Load, Navigate, Login, Logout, SendRequest, Serve, Unauthorized,
              RenewalFails, RenewalGranted, RenewalDenied

LEMMA StepRenewals == ASSUME RenewalsOK, SessionNext PROVE RenewalsOK'
  <1> USE DEF RenewalsOK
  <1>1. ASSUME NEW w \in Windows, Load(w) \/ Navigate(w) PROVE RenewalsOK'
    BY <1>1, RenewalShape DEF Load, Navigate, GuardRenewal
  <1>2. ASSUME NEW w \in Windows, NEW s \in Slots, Unauthorized(w, s) PROVE RenewalsOK'
    BY <1>2, RenewalShape, JoinedRenewalShape DEF Unauthorized, Shared, RenewalsOf
  <1>3. ASSUME NEW r \in renewals, RenewalServed(r) PROVE RenewalsOK'
    BY <1>3, AnsweredShape, GrantedShape DEF RenewalServed
  <1>4. ASSUME NEW r \in renewals, RenewalFails(r) PROVE RenewalsOK'
    BY <1>4, AnsweredShape DEF RenewalFails
  <1> QED  BY <1>1, <1>2, <1>3, <1>4 DEF SessionNext, Login, Logout, SendRequest, Serve, Expire, RenewalGranted,
              RenewalDenied

LEMMA StepTypes == ASSUME TypeInv, SessionNext PROVE TypeInv'
  BY StepShapes, StepServer, StepRenewals DEF TypeInv

----------------------------------------------------------------------------
(* The steps that disturb nothing                                            *)

\* The one window that is open may change.
LEMMA WindowMoves ==
  ASSUME NEW w \in Windows, Idle, at'[w] # "closed", memory'[w] = stored',
         \A v \in Windows \ {w} : /\ at[v] = "closed" /\ at'[v] = at[v]
                                  /\ memory'[v] = memory[v] /\ requests'[v] = requests[v]
  PROVE  Alone' /\ Holds' /\ Idle'
  BY DEF Alone, Holds, Idle

LEMMA Others == ASSUME OneWindow, RenewalsOK, NEW w \in Windows, at[w] # "closed"
  PROVE  /\ \A v \in Windows \ {w} : at[v] = "closed"
         /\ \A r \in renewals : r.win = w
         /\ memory[w] = stored
         /\ RenewalsOf(w) = {} => renewals = {}
  BY DEF OneWindow, Alone, Owned, Holds, RenewalsOK, IsRenewal, RenewalsOf

\* Windows are opened and loaded.
LEMMA StepLoad == ASSUME TypeInv, Sound, NEW w \in Windows, Load(w), ~disturbed' PROVE Sound'
  <1> USE DEF TypeInv, Shapes
  <1>1. PICK guard : /\ renewals' = (renewals \ RenewalsOf(w)) \cup guard
                     /\ guard = IF front = "vue" THEN GuardRenewal(w, stored) ELSE {}
    BY DEF Load
  <1>2. /\ front' = front /\ stored' = stored /\ server' = server /\ signedIn' = signedIn
        /\ at'[w] # "closed" /\ memory'[w] = stored'
        /\ \A v \in Windows \ {w} : at'[v] = at[v] /\ memory'[v] = memory[v] /\ requests'[v] = requests[v]
    BY DEF Load, Forget
  <1>3. CASE ~Rotates
    <2>1. guard = {}
      BY <1>1, <1>3 DEF Rotates
    <2> QED  BY <1>1, <1>2, <1>3, <2>1 DEF Sound, GoodRenewals, GoodStored, Rotates
  <1>4. CASE Rotates
    <2>1. RenewalsOf(w) = {} /\ \A v \in Windows \ {w} : at[v] = "closed"
      BY <1>4 DEF Load
    <2>2. renewals = {}
      BY <1>4, <2>1 DEF Sound, OneWindow, Owned, RenewalsOf, RenewalsOK, IsRenewal
    <2>3. Alone' /\ Holds' /\ Idle'
      BY <1>2, <1>4, <2>1, WindowMoves DEF Sound, OneWindow
    <2>4. stored \in server.valid \cup {0}
      BY <1>4, <2>2 DEF Sound, OneWindow, Covered
    <2>5. \A r \in renewals' : r = Renewal(w, stored, {}) /\ stored # 0
      BY <1>1, <2>2 DEF GuardRenewal
    <2>6. Owned' /\ Single' /\ Covered' /\ GoodRenewals'
      BY <1>2, <2>4, <2>5, RenewalShape DEF Owned, Single, Covered, GoodRenewals
    <2> QED  BY <1>2, <1>4, <2>3, <2>6 DEF Sound, OneWindow, GoodStored, Rotates
  <1> QED  BY <1>3, <1>4

LEMMA StepNavigate == ASSUME TypeInv, Sound, NEW w \in Windows, Navigate(w), ~disturbed' PROVE Sound'
  <1> USE DEF TypeInv, Shapes
  <1>1. Rotates /\ at[w] # "closed"
    BY DEF Navigate, Rotates
  <1>2. PICK guard : /\ renewals' = renewals \cup guard /\ guard = GuardRenewal(w, memory[w])
                     /\ guard # {} => RenewalsOf(w) = {}
    BY DEF Navigate
  <1>3. /\ front' = front /\ stored' = stored /\ server' = server /\ signedIn' = signedIn
        /\ memory' = memory /\ requests' = requests /\ at'[w] # "closed"
        /\ \A v \in Windows \ {w} : at'[v] = at[v]
    BY <1>1 DEF Navigate
  <1>4. /\ \A v \in Windows \ {w} : at[v] = "closed"
        /\ \A r \in renewals : r.win = w
        /\ memory[w] = stored
        /\ guard # {} => renewals = {}
    BY <1>1, <1>2, Others DEF Sound
  <1>5. Alone' /\ Holds' /\ Idle'
    BY <1>1, <1>3, <1>4, WindowMoves DEF Sound, OneWindow
  <1>6. Owned' /\ Single' /\ Covered' /\ GoodRenewals'
    <2>1. CASE guard = {}
      BY <1>1, <1>2, <1>3, <1>4, <2>1 DEF Sound, OneWindow, Owned, Single, Covered, GoodRenewals
    <2>2. CASE guard # {}
      <3>1. \A r \in renewals' : r = Renewal(w, stored, {}) /\ stored # 0
        BY <1>2, <1>4, <2>2 DEF GuardRenewal
      <3>2. stored \in server.valid \cup {0}
        BY <1>1, <1>4, <2>2 DEF Sound, OneWindow, Covered
      <3> QED  BY <1>3, <3>1, <3>2, RenewalShape DEF Owned, Single, Covered, GoodRenewals
    <2> QED  BY <2>1, <2>2
  <1> QED  BY <1>1, <1>3, <1>5, <1>6 DEF Sound, OneWindow, GoodStored, Rotates

LEMMA StepLogin == ASSUME TypeInv, Sound, NEW w \in Windows, Login(w) PROVE Sound'
  <1> USE DEF TypeInv, Shapes
  <1> DEFINE n == server.issued + 1
  <1>1. n # 0 /\ server'.valid = server.valid \cup {n}
    BY IssuedShape DEF Login, Issued
  <1>2. /\ front' = front /\ stored' = n /\ renewals' = renewals /\ requests' = requests
        /\ at[w] # "closed" /\ at'[w] # "closed" /\ memory'[w] = stored'
        /\ \A v \in Windows \ {w} : at'[v] = at[v] /\ memory'[v] = memory[v]
    BY DEF Login, SetSession
  <1> HIDE DEF n
  <1>3. GoodRenewals' /\ GoodStored' /\ Covered'
    BY <1>1, <1>2 DEF Sound, GoodRenewals, GoodStored, Covered
  <1>4. ASSUME Rotates PROVE Alone' /\ Holds' /\ Idle' /\ Owned' /\ Single'
    <2>1. /\ \A v \in Windows \ {w} : at[v] = "closed"
          /\ \A r \in renewals : r.win = w
      BY <1>2, <1>4, Others DEF Sound
    <2>2. Alone' /\ Holds' /\ Idle'
      BY <1>2, <1>4, <2>1, WindowMoves DEF Sound, OneWindow
    <2> QED  BY <1>2, <1>4, <2>1, <2>2 DEF Sound, OneWindow, Owned, Single
  <1> QED  BY <1>1, <1>2, <1>3, <1>4 DEF Sound, OneWindow, Rotates

LEMMA StepLogout == ASSUME TypeInv, Sound, NEW w \in Windows, Logout(w) PROVE Sound'
  <1> USE DEF TypeInv, Shapes
  <1>1. /\ front' = front /\ stored' = 0 /\ server' = server /\ ~signedIn' /\ renewals' \subseteq renewals
        /\ at[w] # "closed" /\ at'[w] # "closed" /\ memory'[w] = stored'
        /\ \A v \in Windows \ {w} : /\ at'[v] = at[v] /\ memory'[v] = memory[v]
                                    /\ requests'[v] = requests[v]
    BY DEF Logout, ClearSession, Forget
  <1>2. GoodRenewals' /\ GoodStored' /\ Covered'
    BY <1>1 DEF Sound, GoodRenewals, GoodStored, Covered
  <1>3. ASSUME Rotates PROVE Alone' /\ Holds' /\ Idle' /\ Owned' /\ Single'
    <2>1. /\ \A v \in Windows \ {w} : at[v] = "closed"
          /\ \A r \in renewals : r.win = w
      BY <1>1, <1>3, Others DEF Sound
    <2>2. Alone' /\ Holds' /\ Idle'
      BY <1>1, <1>3, <2>1, WindowMoves DEF Sound, OneWindow
    <2> QED  BY <1>1, <1>3, <2>1, <2>2 DEF Sound, OneWindow, Owned, Single
  <1> QED  BY <1>1, <1>2, <1>3 DEF Sound, OneWindow, Rotates

\* Requests of the open window change.
LEMMA StepRequests ==
  ASSUME Sound, NEW w \in Windows, Rotates => at[w] # "closed",
         \A v \in Windows \ {w} : requests'[v] = requests[v],
         UNCHANGED <<front, page, renewals, server, signedIn>>
  PROVE  Sound'
  BY DEF page, Sound, GoodRenewals, GoodStored, Rotates, OneWindow, Alone, Holds, Idle, Owned, Single, Covered

LEMMA StepSendServe ==
  ASSUME TypeInv, Sound, NEW w \in Windows, NEW s \in Slots, SendRequest(w, s) \/ Serve(w, s)
  PROVE  Sound'
  <1>1. \A v \in Windows \ {w} : requests'[v] = requests[v]
    BY DEF SendRequest, Serve, TypeInv, Shapes
  <1>2. Rotates => at[w] # "closed"
    BY DEF SendRequest, Serve, Sound, OneWindow, Idle
  <1> QED  BY <1>1, <1>2, StepRequests DEF SendRequest, Serve, history

\* A request that met a 401 joins a renewal, starts one or ends the session.
LEMMA StepUnauthorized ==
  ASSUME TypeInv, Sound, NEW w \in Windows, NEW s \in Slots, Unauthorized(w, s), ~disturbed'
  PROVE  Sound'
  <1> USE DEF TypeInv, Shapes
  <1>1. Rotates => at[w] # "closed"
    BY DEF Unauthorized, Sound, OneWindow, Idle
  <1>2. \A v \in Windows \ {w} : requests'[v] = requests[v]
    BY DEF Unauthorized, Forget
  <1>3. front' = front /\ server' = server /\ signedIn' = signedIn
    BY DEF Unauthorized
  <1>4. CASE UNCHANGED <<page, renewals>>
    BY <1>1, <1>2, <1>3, <1>4, StepRequests DEF page
  <1>5. ASSUME UNCHANGED page,
               renewals' = (renewals \ Shared(w)) \cup {JoinedRenewal(r, s) : r \in Shared(w)}
        PROVE  Sound'
    <2>1. \A q \in renewals' : \E r \in renewals :
             /\ q = IF r \in Shared(w) THEN JoinedRenewal(r, s) ELSE r
             /\ q.win = r.win /\ q.session = r.session /\ q.stage = r.stage /\ q.got = r.got
      BY <1>5, JoinedRenewalShape DEF RenewalsOK, Shared, RenewalsOf
    <2>2. \A r \in renewals : \E q \in renewals' : q.session = r.session
      <3>1. ASSUME NEW r \in renewals PROVE \E q \in renewals' : q.session = r.session
        <4>1. CASE r \in Shared(w)
          <5>1. JoinedRenewal(r, s) \in renewals' /\ JoinedRenewal(r, s).session = r.session
            BY <1>5, <4>1, JoinedRenewalShape DEF RenewalsOK
          <5> QED  BY <5>1
        <4> QED  BY <1>5, <4>1
      <3> QED  BY <3>1
    <2>3. GoodRenewals' /\ GoodStored'
      BY <1>3, <1>5, <2>1 DEF Sound, GoodRenewals, GoodStored, page, Rotates
    <2>4. ASSUME Rotates PROVE Owned' /\ Single' /\ Covered'
      <3>1. Covered'
        BY <1>3, <1>5, <2>2, <2>4 DEF Sound, OneWindow, Covered, page
      <3>2. Owned' /\ Single'
        BY <1>5, <2>1, <2>4 DEF Sound, OneWindow, Owned, Single, page
      <3> QED  BY <3>1, <3>2
    <2>5. ASSUME Rotates PROVE Alone' /\ Holds' /\ Idle'
      BY <1>1, <1>2, <1>5, <2>5 DEF Sound, OneWindow, Alone, Holds, Idle, page
    <2> QED  BY <1>3, <1>5, <2>3, <2>4, <2>5 DEF Sound, OneWindow, Rotates, page
  <1>6. ASSUME UNCHANGED page, Shared(w) = {}, RefreshOf(w) # 0,
               renewals' = renewals \cup {Renewal(w, RefreshOf(w), {s})},
               Rotates => \A r \in RenewalsOf(w) : r.waiting # {}
        PROVE  Sound'
    <2>1. CASE ~Rotates
      <3>1. RefreshOf(w) \in server.valid
        BY <1>6, <2>1 DEF RefreshOf, Rotates, Sound, GoodStored
      <3> QED  BY <1>3, <1>6, <2>1, <3>1, RenewalShape DEF Sound, GoodRenewals, GoodStored, Rotates, page
    <2>2. CASE Rotates
      <3>1. RenewalsOf(w) = {}
        BY <1>6, <2>2 DEF Shared
      <3>2. renewals = {} /\ memory[w] = stored
        BY <1>1, <2>2, <3>1, Others DEF Sound
      <3>3. stored \in server.valid
        BY <1>6, <2>2, <3>2 DEF Sound, OneWindow, Covered, RefreshOf, Rotates
      <3>4. \A r \in renewals' : r.win = w /\ r.session = stored /\ r.stage = "sent"
        BY <1>6, <2>2, <3>2, RenewalShape DEF RefreshOf, Rotates
      <3>5. Single'
        BY <1>6, <3>2 DEF Single
      <3>6. Owned' /\ Covered' /\ GoodRenewals'
        BY <1>1, <1>3, <1>6, <2>2, <3>3, <3>4 DEF Owned, Covered, GoodRenewals, page
      <3>7. Alone' /\ Holds' /\ Idle'
        BY <1>1, <1>2, <1>6, <2>2 DEF Sound, OneWindow, Alone, Holds, Idle, page
      <3> QED  BY <1>3, <1>6, <2>2, <3>5, <3>6, <3>7 DEF Sound, OneWindow, GoodStored, Rotates, page
    <2> QED  BY <2>1, <2>2
  <1>7. ASSUME RefreshOf(w) = 0, ClearSession(w), at' = Lost(w), renewals' \subseteq renewals
        PROVE  Sound'
    <2>1. /\ stored' = 0 /\ memory'[w] = stored' /\ (at[w] # "closed" => at'[w] # "closed")
          /\ \A v \in Windows \ {w} : at'[v] = at[v] /\ memory'[v] = memory[v]
      BY <1>7 DEF ClearSession, Lost
    <2>2. GoodRenewals' /\ GoodStored' /\ Covered'
      BY <1>3, <1>7, <2>1 DEF Sound, GoodRenewals, GoodStored, Covered
    <2>3. CASE ~Rotates
      BY <1>3, <1>7, <2>1, <2>2, <2>3 DEF Sound, RefreshOf, Rotates
    <2>4. CASE Rotates
      <3>1. /\ \A v \in Windows \ {w} : at[v] = "closed"
            /\ \A r \in renewals : r.win = w
            /\ memory[w] = stored
        BY <1>1, <2>4, Others DEF Sound
      <3>2. ~signedIn
        BY <1>7, <2>4, <3>1 DEF Sound, RefreshOf, Rotates
      <3>3. Alone' /\ Holds' /\ Idle'
        BY <1>1, <1>2, <2>1, <2>4, <3>1, WindowMoves DEF Sound, OneWindow
      <3>4. Owned' /\ Single'
        BY <1>1, <1>7, <2>1, <2>4, <3>1 DEF Sound, OneWindow, Owned, Single
      <3> QED  BY <1>3, <2>2, <3>2, <3>3, <3>4 DEF Sound, OneWindow
    <2> QED  BY <2>3, <2>4
  <1>8. Rotates /\ ~disturbed' /\ Shared(w) = {} /\ RefreshOf(w) # 0 /\ ~requests[w][s].retried
        => \A r \in RenewalsOf(w) : r.waiting # {}
    BY DEF Unauthorized
  <1>9. \/ UNCHANGED <<page, renewals>>
        \/ <1>5!1 /\ <1>5!2
        \/ <1>6!1 /\ <1>6!2 /\ <1>6!3 /\ <1>6!4 /\ <1>6!5
        \/ <1>7!1 /\ <1>7!2 /\ <1>7!3 /\ <1>7!4
    BY <1>8 DEF Unauthorized
  <1> QED  BY <1>4, <1>5, <1>6, <1>7, <1>9

----------------------------------------------------------------------------
(* Renewals are answered                                                     *)

LEMMA StepServed == ASSUME TypeInv, Sound, NEW r \in renewals, RenewalServed(r) PROVE Sound'
  <1> DEFINE n == server.issued + 1
             q == Granted(r, n)
  <1>1. r.session \in server.valid /\ n # 0 /\ n \notin server.valid
    BY IssuedShape DEF RenewalServed, Sound, GoodRenewals, TypeInv
  <1>2. server'.valid = (server.valid \cup {n}) \ Spent(r) /\ renewals' = (renewals \ {r}) \cup {q}
    BY <1>1 DEF RenewalServed, Issued
  <1>3. q.win = r.win /\ q.session = r.session /\ q.stage = "granted" /\ q.got = n
    BY GrantedShape DEF TypeInv, RenewalsOK
  <1>4. front' = front /\ at' = at /\ memory' = memory /\ stored' = stored /\ requests' = requests /\ signedIn' = signedIn
    BY DEF RenewalServed, page, history
  <1> HIDE DEF n, q
  <1>5. CASE ~Rotates
    BY <1>2, <1>3, <1>4, <1>5 DEF Sound, GoodRenewals, GoodStored, Spent, Rotates
  <1>6. CASE Rotates
    <2>1. renewals = {r}
      BY <1>6 DEF Sound, OneWindow, Single
    <2>2. renewals' = {q} /\ n \in server'.valid /\ server.valid \subseteq server'.valid \cup {q.session}
      BY <1>1, <1>2, <1>3, <1>6, <2>1 DEF Spent
    <2>3. GoodRenewals' /\ Single' /\ Owned'
      BY <1>3, <1>4, <1>6, <2>1, <2>2 DEF Sound, GoodRenewals, OneWindow, Single, Owned
    <2>4. Covered'
      BY <1>3, <1>4, <1>6, <2>1, <2>2 DEF Sound, OneWindow, Covered
    <2>5. Alone' /\ Holds' /\ Idle'
      BY <1>4, <1>6 DEF Sound, OneWindow, Alone, Holds, Idle
    <2> QED  BY <1>4, <1>6, <2>3, <2>4, <2>5 DEF Sound, OneWindow, GoodStored, Rotates
  <1> QED  BY <1>5, <1>6

LEMMA StepGranted == ASSUME TypeInv, Sound, NEW r \in renewals, RenewalGranted(r) PROVE Sound'
  <1> USE DEF TypeInv, Shapes
  <1> DEFINE w == r.win
  <1>1. w \in Windows /\ r.got \in server.valid /\ r.got # 0
    BY DEF RenewalGranted, RenewalsOK, IsRenewal, Sound, GoodRenewals, ServerOK
  <1>2. /\ front' = front /\ server' = server /\ signedIn' = signedIn
        /\ stored' = r.got /\ renewals' = renewals \ {r}
        /\ memory'[w] = stored' /\ (at[w] # "closed" => at'[w] # "closed")
        /\ \A v \in Windows \ {w} : /\ at'[v] = at[v] /\ memory'[v] = memory[v]
                                    /\ requests'[v] = requests[v]
    BY <1>1 DEF RenewalGranted, SetSession, Shows, Renewed, history
  <1> HIDE DEF w
  <1>3. GoodRenewals' /\ GoodStored' /\ Covered'
    BY <1>1, <1>2 DEF Sound, GoodRenewals, GoodStored, Covered
  <1>4. ASSUME Rotates PROVE Alone' /\ Holds' /\ Idle' /\ Owned' /\ Single'
    <2>1. renewals' = {}
      BY <1>2, <1>4 DEF Sound, OneWindow, Single
    <2>2. at[w] # "closed"
      BY <1>4 DEF Sound, OneWindow, Owned, w
    <2>3. Alone' /\ Holds' /\ Idle'
      BY <1>1, <1>2, <1>4, <2>2, Others, WindowMoves DEF Sound, OneWindow
    <2> QED  BY <2>1, <2>3 DEF Owned, Single
  <1> QED  BY <1>1, <1>2, <1>3, <1>4 DEF Sound, OneWindow, Rotates

LEMMA StepSound == ASSUME TypeInv, Sound, SessionNext, ~disturbed' PROVE Sound'
  <1>1. ASSUME NEW w \in Windows, Load(w) \/ Navigate(w) \/ Login(w) \/ Logout(w) PROVE Sound'
    BY <1>1, StepLoad, StepNavigate, StepLogin, StepLogout
  <1>2. ASSUME NEW w \in Windows, NEW s \in Slots, SendRequest(w, s) \/ Serve(w, s) \/ Unauthorized(w, s)
        PROVE  Sound'
    BY <1>2, StepSendServe, StepUnauthorized
  <1>3. ASSUME NEW r \in renewals,
               RenewalServed(r) \/ RenewalFails(r) \/ RenewalGranted(r) \/ RenewalDenied(r)
        PROVE  Sound'
    <2>1. ~RenewalFails(r)
      BY DEF RenewalFails
    <2>2. ~RenewalDenied(r)
      BY DEF RenewalDenied, Sound, GoodRenewals
    <2> QED  BY <1>3, <2>1, <2>2, StepServed, StepGranted
  <1>4. ASSUME NEW n, Expire(n) PROVE Sound'
    <2>1. server'.valid = server.valid
      <3>1. server' = [server EXCEPT !.live = server.live \ {n}]
        BY <1>4 DEF Expire
      <3> QED  BY <3>1 DEF TypeInv, ServerOK
    <2> QED  BY <1>4, <2>1 DEF Expire, page, history, Sound, GoodRenewals, GoodStored, Rotates, OneWindow,
                Alone, Holds, Idle, Owned, Single, Covered
  <1> QED  BY <1>1, <1>2, <1>3, <1>4 DEF SessionNext

----------------------------------------------------------------------------
(* For every number of windows, of requests that meet an expired token and   *)
(* of sessions, a user who signed in stays signed in until a logout, unless  *)
(* the network loses a renewal or, with mail2im, one of the three            *)
(* disturbances of StaysSignedIn happens.                                    *)
THEOREM SessionKept == SessionSpec => []StaysSignedIn
  <1>1. SessionInit => SessionInv
    BY InitInv
  <1>2. SessionInv /\ [SessionNext]_sessionVars => SessionInv'
    <2> SUFFICES ASSUME SessionInv, [SessionNext]_sessionVars PROVE SessionInv'
      OBVIOUS
    <2>1. CASE SessionNext
      BY <2>1, StepTypes, StepSound, Disturbing DEF SessionInv
    <2>2. CASE UNCHANGED sessionVars
      BY <2>2 DEF sessionVars, page, history, SessionInv, TypeInv, Shapes, ServerOK, RenewalsOK, Sound,
         GoodRenewals, GoodStored, Rotates, OneWindow, Alone, Holds, Idle, Owned, Single, Covered
    <2> QED  BY <2>1, <2>2
  <1>3. SessionInv => StaysSignedIn
    BY DEF SessionInv, Sound, StaysSignedIn
  <1> QED  BY <1>1, <1>2, <1>3, PTL DEF SessionSpec

-----------------------------------------------------------------------------
(* Types of the composer.                                                    *)

Windowed == [open : BOOLEAN, minimized : BOOLEAN, asking : BOOLEAN, draft : Drafts \cup {None}]
Blocks == [block : Signed \cup {None}, session : Nat, account : Accounts \cup {None}, seen : BOOLEAN]

WindowTypes ==
    /\ win \in Windowed /\ initial \subseteq Places /\ text \subseteq Places
    /\ from \in Accounts \cup {None} /\ signature \in Blocks /\ session \in 0..MaxSessions

IsCall(r) ==
    /\ r = [kind |-> r.kind, id |-> r.id, draft |-> r.draft, text |-> r.text, heard |-> r.heard]
    /\ r.kind \in Kinds /\ r.draft \in Drafts \cup {None} /\ r.text \subseteq Places

ServerTypes ==
    /\ \A r \in flight : IsCall(r)
    /\ \A s \in saving : s.draft \in Drafts \cup {None} /\ s.text \subseteq Places
    /\ drafts \in [Drafts -> [state : {"free", "there", "gone"}, text : SUBSET Places]]

WorldTypes == account \in Accounts /\ sigs \in [Accounts -> SigStates]

ComposeTypes == WindowTypes /\ ServerTypes /\ WorldTypes

LEMMA InitComposeTypes == ASSUME Assumptions, Init PROVE ComposeTypes
  <1> USE DEF Assumptions, Init
  <1>1. win \in Windowed /\ signature \in Blocks
    BY DEF Windowed, Blocks, Closed, Unsigned
  <1>2. Free \in [state : {"free", "there", "gone"}, text : SUBSET Places]
        /\ There({"to"}) \in [state : {"free", "there", "gone"}, text : SUBSET Places]
    BY DEF Free, There
  <1>3. drafts \in [Drafts -> [state : {"free", "there", "gone"}, text : SUBSET Places]]
    BY <1>2
  <1> QED  BY <1>1, <1>3 DEF ComposeTypes, WindowTypes, ServerTypes, WorldTypes, SigStates

LEMMA FilledTypes ==
  ASSUME Assumptions, ComposeTypes, NEW d \in Drafts \cup {None}, NEW t \in SUBSET Places, Filled(d, t)
  PROVE  WindowTypes'
  <1>1. win' \in Windowed
    BY DEF Filled, Opened, Closed, Windowed
  <1>2. signature' \in Blocks
    BY DEF Filled, Unsigned, Blocks
  <1>3. session' \in 0..MaxSessions
    BY DEF Filled, Assumptions, ComposeTypes, WindowTypes
  <1> QED  BY <1>1, <1>2, <1>3 DEF Filled, WindowTypes

LEMMA ClosedTypes == ASSUME ComposeTypes, Closes, UNCHANGED session PROVE WindowTypes'
  <1>1. win' \in Windowed /\ signature' \in Blocks
    BY DEF Closes, Closed, Unsigned, Windowed, Blocks
  <1> QED  BY <1>1 DEF Closes, ComposeTypes, WindowTypes

LEMMA CallShape ==
  ASSUME NEW k \in Kinds, NEW d \in Drafts \cup {None}, NEW t \in SUBSET Places, NEW i, NEW h
  PROVE  IsCall([kind |-> k, id |-> i, draft |-> d, text |-> t, heard |-> h])
  BY DEF IsCall

LEMMA HeardCall == ASSUME NEW o, IsCall(o), NEW h
  PROVE [o EXCEPT !.heard = h] = [kind |-> o.kind, id |-> o.id, draft |-> o.draft, text |-> o.text,
                                  heard |-> h]
  BY DEF IsCall

LEMMA OtherCall == ASSUME NEW o, IsCall(o), NEW k, NEW d
  PROVE [o EXCEPT !.kind = k, !.draft = d]
          = [kind |-> k, id |-> o.id, draft |-> d, text |-> o.text, heard |-> o.heard]
  <1> DEFINE p == [kind |-> k, id |-> o.id, draft |-> o.draft, text |-> o.text,
                   heard |-> o.heard]
  <1>1. [o EXCEPT !.kind = k] = p
    BY DEF IsCall
  <1>2. [p EXCEPT !.draft = d]
          = [kind |-> k, id |-> o.id, draft |-> d, text |-> o.text, heard |-> o.heard]
    OBVIOUS
  <1>3. [o EXCEPT !.kind = k, !.draft = d] = [[o EXCEPT !.kind = k] EXCEPT !.draft = d]
    OBVIOUS
  <1> HIDE DEF p
  <1> QED  BY <1>1, <1>2, <1>3

LEMMA RequestCalls ==
  ASSUME NEW k \in Kinds, NEW d \in Drafts \cup {None}, NEW t \in SUBSET Places
  PROVE  IsCall(Request(k, d, t))
  BY DEF Request, IsCall

LEMMA JoinedCalls == ASSUME NEW S, \A q \in S : IsCall(q), NEW r, IsCall(r) PROVE \A q \in Joined(S, r) : IsCall(q)
  <1> SUFFICES ASSUME NEW q \in Joined(S, r), q # r PROVE IsCall(q)
    OBVIOUS
  <1>1. PICK o \in S : q = IF o.kind = r.kind THEN [o EXCEPT !.heard = FALSE] ELSE o
    BY DEF Joined
  <1>2. IsCall(o)
    OBVIOUS
  <1>3. IsCall([o EXCEPT !.heard = FALSE])
    <2>1. [o EXCEPT !.heard = FALSE] = [kind |-> o.kind, id |-> o.id, draft |-> o.draft, text |-> o.text,
                                        heard |-> FALSE]
      BY <1>2, HeardCall
    <2>2. o.kind \in Kinds /\ o.draft \in Drafts \cup {None} /\ o.text \in SUBSET Places
      BY <1>2 DEF IsCall
    <2> QED  BY <2>1, <2>2, CallShape
  <1> QED  BY <1>1, <1>2, <1>3

LEMMA StepWindowTypes == ASSUME Assumptions, ComposeTypes, [Next]_vars PROVE WindowTypes'
  <1>0. WindowTypes
    BY DEF ComposeTypes
  <1>1. CASE OpenNew
    BY <1>1, FilledTypes DEF OpenNew
  <1>2. ASSUME NEW d \in Drafts, OpenDraft(d) PROVE WindowTypes'
    <2>1. drafts[d].text \ {"bcc"} \in SUBSET Places
      BY DEF ComposeTypes, ServerTypes
    <2> QED  BY <1>2, <2>1, FilledTypes DEF OpenDraft
  <1>3. ASSUME NEW a \in Accounts, SwitchAccount(a) PROVE WindowTypes'
    <2>1. CASE win.open
      <3>1. win.draft \in Drafts \cup {None} /\ initial \in SUBSET Places
        BY <1>0 DEF WindowTypes, Windowed
      <3> QED  BY <1>3, <2>1, <3>1, FilledTypes DEF SwitchAccount
    <2>2. CASE ~win.open
      BY <1>0, <1>3, <2>2 DEF SwitchAccount, WindowTypes, window
    <2> QED  BY <2>1, <2>2
  <1>4. ASSUME NEW a \in Accounts, ChooseFrom(a) PROVE WindowTypes'
    BY <1>0, <1>4 DEF ChooseFrom, WindowTypes
  <1>5. ASSUME NEW p \in Places, Type(p) PROVE WindowTypes'
    BY <1>0, <1>5 DEF Type, WindowTypes
  <1>6. CASE Minimize
    <2>1. win' \in Windowed /\ signature' \in Blocks
      BY <1>0, <1>6 DEF Minimize, WindowTypes, Windowed, Blocks
    <2> QED  BY <1>0, <1>6, <2>1 DEF Minimize, WindowTypes
  <1>7. CASE Expand
    <2>1. win' \in Windowed
      BY <1>0, <1>7 DEF Expand, WindowTypes, Windowed
    <2> QED  BY <1>0, <1>7, <2>1 DEF Expand, WindowTypes
  <1>8. CASE RequestClose \/ KeepWriting \/ SaveDraft
    <2>1. CASE /\ win' \in {[win EXCEPT !.asking = TRUE], [win EXCEPT !.asking = FALSE]}
               /\ UNCHANGED <<initial, text, from, signature, session>>
      <3>1. win' \in Windowed
        BY <1>0, <2>1 DEF WindowTypes, Windowed
      <3> QED  BY <1>0, <2>1, <3>1 DEF WindowTypes
    <2>2. CASE Closes /\ UNCHANGED session
      BY <2>2, ClosedTypes
    <2> QED  BY <1>8, <2>1, <2>2 DEF RequestClose, KeepWriting, SaveDraft
  <1>9. CASE Discard
    BY <1>9, ClosedTypes DEF Discard
  <1>10. CASE ApplySignature
    <2>1. Sender \in Accounts /\ Found(Sender) \in Signed \cup {None}
      BY <1>0 DEF ComposeTypes, WorldTypes, WindowTypes, Sender, SignatureOf, Found
    <2>2. PICK b \in {signature.block, Found(Sender)} :
             signature' = [block |-> b, session |-> session, account |-> Sender,
                           seen |-> sigs[Sender] = "loaded" /\ ~win.minimized]
      BY <1>10 DEF ApplySignature
    <2>3. b \in Signed \cup {None} /\ session \in Nat
      BY <1>0, <2>1 DEF WindowTypes, Blocks, Assumptions
    <2>4. (sigs[Sender] = "loaded" /\ ~win.minimized) \in BOOLEAN
      OBVIOUS
    <2>5. signature' \in Blocks
      BY <2>1, <2>2, <2>3, <2>4 DEF Blocks
    <2> QED  BY <1>0, <1>10, <2>5 DEF ApplySignature, WindowTypes
  <1>11. CASE UNCHANGED <<window, session>>
    BY <1>0, <1>11 DEF WindowTypes, window
  <1>12. ASSUME NEW r \in flight, Answer PROVE UNCHANGED <<window, session>> \/ (Closes /\ UNCHANGED session)
    BY <1>12 DEF Answer, Delivered, Stored, Fails, Deleted, ListedSent, ListedDeleted, ClosesIfHeard
  <1>13. CASE Answer
    BY <1>11, <1>12, <1>13, ClosedTypes DEF Answer
  <1>14. CASE Preparation \/ Send \/ (\E a \in Accounts : SignatureLoads(a)) \/ UNCHANGED vars
    BY <1>11, <1>14 DEF Preparation, Prepared, Send, SignatureLoads, vars
  <1>15. ASSUME NEW d \in Drafts, SendListed(d) \/ DeleteListed(d) PROVE WindowTypes'
    BY <1>11, <1>15, ListKinds
  <1> QED  BY <1>1, <1>2, <1>3, <1>4, <1>5, <1>6, <1>7, <1>8, <1>9, <1>10, <1>13, <1>14, <1>15 DEF Next, User

LEMMA StepServerTypes == ASSUME Assumptions, ComposeTypes, [Next]_vars PROVE ServerTypes'
  <1>0. ServerTypes /\ win.draft \in Drafts \cup {None} /\ text \in SUBSET Places
    BY DEF ComposeTypes, WindowTypes, Windowed
  <1>1. CASE UNCHANGED <<flight, saving, drafts>>
    BY <1>0, <1>1 DEF ServerTypes
  <1>2. CASE Send
    <2>1. IsCall(Request("send", win.draft, {}))
      <3>1. PICK k \in Kinds : k = "send"
        BY DEF Kinds
      <3>2. {} \in SUBSET Places
        OBVIOUS
      <3> QED  BY <1>0, <3>1, <3>2, RequestCalls
    <2> QED  BY <1>0, <1>2, <2>1, JoinedCalls DEF Send, Begin, ServerTypes, backend
  <1>3. CASE SaveDraft
    BY <1>0, <1>3 DEF SaveDraft, ServerTypes, backend
  <1>4. ASSUME NEW s \in saving, Prepared(s) PROVE ServerTypes'
    <2>1. PICK k \in Kinds : k = IF s.draft = None THEN "create" ELSE "update"
      BY DEF Kinds
    <2>2. IsCall(Request(k, s.draft, s.text))
      BY <1>0, RequestCalls DEF ServerTypes
    <2>3. flight' = Joined(flight, Request(k, s.draft, s.text))
      BY <1>4, <2>1 DEF Prepared, Begin
    <2> QED  BY <1>0, <1>4, <2>2, <2>3, JoinedCalls DEF Prepared, ServerTypes, backend
  <1>5. ASSUME NEW r \in flight, Delivered(r) PROVE ServerTypes'
    <2> DEFINE c == [r EXCEPT !.kind = "delete", !.draft = DraftOf(r)]
    <2>1. flight' = flight \ {r} \/ flight' = Joined(flight \ {r}, c)
      BY <1>5 DEF Delivered
    <2>2. IsCall(c)
      <3>1. IsCall(r)
        BY <1>0 DEF ServerTypes
      <3>2. c = [kind |-> "delete", id |-> r.id, draft |-> r.draft, text |-> r.text,
                 heard |-> r.heard]
        BY <3>1, OtherCall DEF DraftOf
      <3>3. r.draft \in Drafts \cup {None} /\ r.text \in SUBSET Places
        BY <3>1 DEF IsCall
      <3>4. PICK k \in Kinds : k = "delete"
        BY DEF Kinds
      <3>5. IsCall([kind |-> k, id |-> r.id, draft |-> r.draft, text |-> r.text,
                    heard |-> r.heard])
        BY <3>3, CallShape
      <3> QED  BY <3>2, <3>4, <3>5
    <2> HIDE DEF c
    <2>3. \A q \in Joined(flight \ {r}, c) : IsCall(q)
      BY <1>0, <2>2, JoinedCalls DEF ServerTypes
    <2> QED  BY <1>0, <1>5, <2>1, <2>3 DEF Delivered, ServerTypes
  <1>6. ASSUME NEW r \in flight, Stored(r) PROVE ServerTypes'
    <2>1. There(r.text) \in [state : {"free", "there", "gone"}, text : SUBSET Places]
      BY <1>0 DEF There, ServerTypes, IsCall
    <2> QED  BY <1>0, <1>6, <2>1 DEF Stored, ServerTypes
  <1>7. ASSUME NEW r \in flight, NEW ok \in BOOLEAN, Deleted(r, ok) PROVE ServerTypes'
    <2>1. Gone \in [state : {"free", "there", "gone"}, text : SUBSET Places]
      BY DEF Gone
    <2> QED  BY <1>0, <1>7, <2>1 DEF Deleted, ServerTypes
  <1>8. ASSUME NEW r \in flight, Fails(r) PROVE ServerTypes'
    BY <1>0, <1>8 DEF Fails, ServerTypes, backend
  <1>9. ASSUME NEW d \in Drafts, SendListed(d) \/ DeleteListed(d) PROVE ServerTypes'
    <2>1. PICK k \in {"sendDraft", "deleteDraft"} : ListRequest(k, d)
      BY <1>9 DEF SendListed, DeleteListed
    <2>2. IsCall(Request(k, d, {}))
      <3>1. k \in Kinds /\ {} \in SUBSET Places
        BY DEF Kinds
      <3> QED  BY <3>1, RequestCalls
    <2>3. flight' = Joined(flight, Request(k, d, {})) /\ UNCHANGED <<saving, drafts>>
      BY <2>1 DEF ListRequest, Begin, backend
    <2> QED  BY <1>0, <2>2, <2>3, JoinedCalls DEF ServerTypes
  <1>12. ASSUME NEW r \in flight, ListedSent(r) \/ ListedDeleted(r) PROVE ServerTypes'
    <2>1. Gone \in [state : {"free", "there", "gone"}, text : SUBSET Places]
      BY DEF Gone
    <2>2. flight' = flight \ {r} /\ saving' = saving
      BY <1>12 DEF ListedSent, ListedDeleted
    <2>3. drafts' = drafts \/ drafts' = [drafts EXCEPT ![r.draft] = Gone]
      BY <1>12 DEF ListedSent, ListedDeleted
    <2> QED  BY <1>0, <2>1, <2>2, <2>3 DEF ServerTypes
  <1>10. CASE ApplySignature \/ UNCHANGED vars \/ \E a \in Accounts : SignatureLoads(a)
    BY <1>1, <1>10 DEF ApplySignature, SignatureLoads, vars, net, backend
  <1>11. CASE User
    <2>1. CASE OpenNew \/ (\E d \in Drafts : OpenDraft(d)) \/ (\E a \in Accounts : SwitchAccount(a) \/ ChooseFrom(a))
               \/ (\E p \in Places : Type(p))
      BY <1>1, <2>1 DEF OpenNew, OpenDraft, SwitchAccount, ChooseFrom, Type, net, backend
    <2>2. CASE Minimize \/ Expand \/ RequestClose \/ KeepWriting \/ Discard
      BY <1>1, <2>2 DEF Minimize, Expand, RequestClose, KeepWriting, Discard, net, backend
    <2> QED  BY <1>2, <1>3, <1>9, <1>11, <2>1, <2>2 DEF User
  <1> QED  BY <1>4, <1>5, <1>6, <1>7, <1>8, <1>10, <1>11, <1>12 DEF Next, Answer, Preparation

LEMMA StepWorldTypes == ASSUME ComposeTypes, [Next]_vars PROVE WorldTypes'
  <1>1. ASSUME NEW d \in Drafts, SendListed(d) \/ DeleteListed(d) PROVE UNCHANGED world
    BY <1>1, ListKinds
  <1>2. UNCHANGED world \/ \E a \in Accounts : SwitchAccount(a) \/ SignatureLoads(a)
    BY <1>1 DEF Next, User, Answer, Preparation, ApplySignature, OpenNew, OpenDraft, ChooseFrom, Type,
       Minimize, Expand, RequestClose, KeepWriting, Discard, Send, SaveDraft, Prepared, Delivered, Stored, Fails,
       Deleted, ListedSent, ListedDeleted, vars
  <1> QED  BY <1>2 DEF SwitchAccount, SignatureLoads, ComposeTypes, WorldTypes, SigStates, world

LEMMA StepComposeTypes == ASSUME Assumptions, ComposeTypes, [Next]_vars PROVE ComposeTypes'
  BY StepWindowTypes, StepServerTypes, StepWorldTypes DEF ComposeTypes

LEMMA ComposeTypesSuffice == ComposeTypes => TypeOK
  <1> SUFFICES ASSUME ComposeTypes PROVE TypeOK
    OBVIOUS
  <1>1. /\ signature.block \in Signed \cup {None} /\ signature.account \in Accounts \cup {None}
        /\ signature.seen \in BOOLEAN
    BY DEF ComposeTypes, WindowTypes, Blocks
  <1>2. \A r \in flight : r.kind \in Kinds /\ r.draft \in Drafts \cup {None}
    BY DEF ComposeTypes, ServerTypes, IsCall
  <1>3. \A d \in Drafts : drafts[d].state \in {"free", "there", "gone"} /\ drafts[d].text \subseteq Places
    BY DEF ComposeTypes, ServerTypes
  <1> QED  BY <1>1, <1>2, <1>3 DEF ComposeTypes, WindowTypes, WorldTypes, Windowed, TypeOK

-----------------------------------------------------------------------------
(* Types of the session.                                                     *)

Displays == {"closed", "opening", "login", "app"}
Attempts == [stage : {"none", "sent", "refused", "waiting"}, session : Sessions, retried : BOOLEAN]

StoreTypes ==
    /\ at \in [Windows -> Displays]
    /\ memory \in [Windows -> Sessions] /\ stored \in Sessions

RequestTypes == requests \in [Windows -> [Slots -> Attempts]]

TokenTypes ==
    /\ server = [issued |-> server.issued, live |-> server.live, valid |-> server.valid]
    /\ server.issued \in Sessions
    /\ server.live \subseteq 1..server.issued /\ server.valid \subseteq 1..server.issued

IsTyped(r) == IsRenewal(r) /\ r.session \in Sessions /\ r.got \in Sessions /\ r.waiting \subseteq Slots

RenewalTypes == \A r \in renewals : IsTyped(r)

SessionTypes == StoreTypes /\ RequestTypes /\ TokenTypes /\ RenewalTypes

LEMMA InitSessionTypes == ASSUME SessionAssumptions, SessionInit PROVE SessionTypes
  <1> USE DEF SessionAssumptions, SessionInit, Sessions
  <1>1. StoreTypes
    BY DEF StoreTypes, Displays
  <1>2. RequestTypes
    <2>1. NoRequest \in Attempts
      BY DEF NoRequest, Attempts
    <2> QED  BY <2>1 DEF RequestTypes
  <1>3. TokenTypes /\ RenewalTypes
    BY DEF TokenTypes, RenewalTypes
  <1> QED  BY <1>1, <1>2, <1>3 DEF SessionTypes

LEMMA ShownTypes ==
  ASSUME StoreTypes, NEW r, IsRenewal(r), NEW m
  PROVE  Shows(r, m) \in [Windows -> Displays]
  <1>1. r.win \in Windows
    BY DEF IsRenewal
  <1> USE DEF StoreTypes, Displays
  <1>2. [at EXCEPT ![r.win] = IF m = 0 THEN "login" ELSE "app"] \in [Windows -> Displays]
    BY <1>1
  <1>3. Lost(r.win) \in [Windows -> Displays] /\ Renewed(r.win) \in [Windows -> Displays]
    BY <1>1 DEF Lost, Renewed
  <1> QED  BY <1>2, <1>3 DEF Shows

LEMMA StepStoreTypes == ASSUME SessionAssumptions, SessionTypes, SessionNext PROVE StoreTypes'
  <1>0. StoreTypes /\ 0 \in Sessions
    BY DEF SessionTypes, SessionAssumptions, Sessions
  <1>1. CASE UNCHANGED page
    BY <1>0, <1>1 DEF page, StoreTypes
  <1>2. ASSUME NEW w \in Windows, Load(w) PROVE StoreTypes'
    <2>1. memory' \in [Windows -> Sessions] /\ stored' = stored
      BY <1>0, <1>2 DEF Load, StoreTypes
    <2>2. at' \in [Windows -> Displays]
      BY <1>0, <1>2 DEF Load, StoreTypes, Displays
    <2> QED  BY <1>0, <2>1, <2>2 DEF StoreTypes
  <1>3. ASSUME NEW w \in Windows, Navigate(w) PROVE StoreTypes'
    <2>1. at' \in [Windows -> Displays]
      BY <1>0, <1>3 DEF Navigate, StoreTypes, Displays
    <2> QED  BY <1>0, <1>3, <2>1 DEF Navigate, StoreTypes
  <1>4. ASSUME NEW w \in Windows, Login(w) PROVE StoreTypes'
    <2>1. server.issued + 1 \in Sessions
      BY <1>4 DEF Login, SessionTypes, TokenTypes, Sessions, SessionAssumptions
    <2> QED  BY <1>0, <1>4, <2>1 DEF Login, SetSession, StoreTypes, Displays
  <1>5. ASSUME NEW w \in Windows, Logout(w) PROVE StoreTypes'
    BY <1>0, <1>5 DEF Logout, ClearSession, StoreTypes, Displays
  <1>6. ASSUME NEW w \in Windows, NEW s \in Slots, Unauthorized(w, s) PROVE StoreTypes'
    <2>1. UNCHANGED page \/ (ClearSession(w) /\ at' = Lost(w))
      BY <1>6 DEF Unauthorized
    <2>2. CASE ClearSession(w) /\ at' = Lost(w)
      BY <1>0, <2>2 DEF ClearSession, Lost, StoreTypes, Displays
    <2> QED  BY <1>1, <2>1, <2>2
  <1>7. ASSUME NEW r \in renewals, RenewalGranted(r) \/ RenewalDenied(r) PROVE StoreTypes'
    <2>1. IsRenewal(r) /\ r.got \in Sessions /\ r.win \in Windows
      BY DEF SessionTypes, RenewalTypes, IsTyped, IsRenewal
    <2>2. Shows(r, r.got) \in [Windows -> Displays] /\ Shows(r, 0) \in [Windows -> Displays]
      BY <1>0, <2>1, ShownTypes
    <2> QED  BY <1>0, <1>7, <2>1, <2>2 DEF RenewalGranted, RenewalDenied, SetSession, ClearSession, StoreTypes
  <1> QED  BY <1>1, <1>2, <1>3, <1>4, <1>5, <1>6, <1>7
           DEF SessionNext, SendRequest, Serve, RenewalServed, RenewalFails, Expire

LEMMA ForgetTypes == ASSUME SessionAssumptions, RequestTypes, NEW w \in Windows
                     PROVE  Forget(w) \in [Windows -> [Slots -> Attempts]] /\ NoRequest \in Attempts
  <1>1. NoRequest \in Attempts
    BY DEF NoRequest, Attempts, SessionAssumptions, Sessions
  <1> QED  BY <1>1 DEF Forget, RequestTypes

\* One request becomes another.
LEMMA OneRequestTypes ==
  ASSUME RequestTypes, NEW w \in Windows, NEW s \in Slots, NEW a \in Attempts,
         requests' = [requests EXCEPT ![w][s] = a]
  PROVE  RequestTypes'
  BY DEF RequestTypes

LEMMA StagedTypes ==
  ASSUME NEW a \in Attempts, NEW x \in {"none", "sent", "refused", "waiting"}
  PROVE  [a EXCEPT !.stage = x] \in Attempts
  BY DEF Attempts

LEMMA StepRequestTypes == ASSUME SessionAssumptions, SessionTypes, SessionNext PROVE RequestTypes'
  <1>0. RequestTypes /\ NoRequest \in Attempts
    BY DEF SessionTypes, NoRequest, Attempts, SessionAssumptions, Sessions
  <1>1. CASE UNCHANGED requests
    BY <1>0, <1>1 DEF RequestTypes
  <1>2. ASSUME NEW w \in Windows, Load(w) \/ Navigate(w) \/ Login(w) \/ Logout(w) PROVE RequestTypes'
    <2>1. requests' = requests \/ requests' = Forget(w)
      BY <1>2 DEF Load, Navigate, Login, Logout
    <2> QED  BY <1>0, <1>1, <2>1, ForgetTypes DEF RequestTypes
  <1>3. ASSUME NEW w \in Windows, NEW s \in Slots, SendRequest(w, s) PROVE RequestTypes'
    <2>1. AccessOf(w) \in Sessions
      BY DEF AccessOf, SessionTypes, StoreTypes
    <2>2. Attempt("sent", AccessOf(w), FALSE) \in Attempts
      BY <2>1 DEF Attempt, Attempts
    <2> QED  BY <1>0, <1>3, <2>2, OneRequestTypes DEF SendRequest
  <1>4. ASSUME NEW w \in Windows, NEW s \in Slots, Serve(w, s) PROVE RequestTypes'
    <2> DEFINE a == IF requests[w][s].session \in server.live THEN NoRequest
                    ELSE [requests[w][s] EXCEPT !.stage = "refused"]
    <2>1. requests[w][s] \in Attempts
      BY <1>0 DEF RequestTypes
    <2>2. PICK x \in {"none", "sent", "refused", "waiting"} : x = "refused"
      OBVIOUS
    <2>3. [requests[w][s] EXCEPT !.stage = x] \in Attempts
      BY <2>1, StagedTypes
    <2>4. a \in Attempts
      BY <1>0, <2>2, <2>3
    <2>5. requests' = [requests EXCEPT ![w][s] = a]
      BY <1>4 DEF Serve
    <2> HIDE DEF a
    <2> QED  BY <1>0, <2>4, <2>5, OneRequestTypes
  <1>5. ASSUME NEW w \in Windows, NEW s \in Slots, Unauthorized(w, s) PROVE RequestTypes'
    <2>1. requests[w][s] \in Attempts
      BY <1>0 DEF RequestTypes
    <2>2. PICK x \in {"none", "sent", "refused", "waiting"} : x = "waiting"
      OBVIOUS
    <2>3. [requests[w][s] EXCEPT !.stage = x] \in Attempts
      BY <2>1, StagedTypes
    <2>4. \/ requests' = [requests EXCEPT ![w][s] = NoRequest]
          \/ requests' = [requests EXCEPT ![w][s] = [requests[w][s] EXCEPT !.stage = x]]
          \/ requests' = Forget(w)
      BY <1>5, <2>2 DEF Unauthorized
    <2> QED  BY <1>0, <2>3, <2>4, OneRequestTypes, ForgetTypes DEF RequestTypes
  <1>6. ASSUME NEW r \in renewals, RenewalGranted(r) \/ RenewalDenied(r) PROVE RequestTypes'
    <2>1. r.win \in Windows /\ r.got \in Sessions
      BY DEF SessionTypes, RenewalTypes, IsTyped, IsRenewal
    <2>2. Attempt("sent", r.got, TRUE) \in Attempts
      BY <2>1 DEF Attempt, Attempts
    <2>3. \/ requests' = [requests EXCEPT ![r.win] =
                [s \in Slots |-> IF s \in r.waiting THEN Attempt("sent", r.got, TRUE) ELSE requests[r.win][s]]]
          \/ requests' = [requests EXCEPT ![r.win] =
                [s \in Slots |-> IF s \in r.waiting THEN NoRequest ELSE requests[r.win][s]]]
          \/ requests' = Forget(r.win)
      BY <1>6 DEF RenewalGranted, RenewalDenied
    <2>4. requests[r.win] \in [Slots -> Attempts]
      BY <1>0, <2>1 DEF RequestTypes
    <2>5. ASSUME NEW new \in [Slots -> Attempts], requests' = [requests EXCEPT ![r.win] = new] PROVE RequestTypes'
      BY <1>0, <2>1, <2>5 DEF RequestTypes
    <2>6. /\ [s \in Slots |-> IF s \in r.waiting THEN Attempt("sent", r.got, TRUE) ELSE requests[r.win][s]]
               \in [Slots -> Attempts]
          /\ [s \in Slots |-> IF s \in r.waiting THEN NoRequest ELSE requests[r.win][s]] \in [Slots -> Attempts]
      BY <1>0, <2>2, <2>4
    <2>7. Forget(r.win) \in [Windows -> [Slots -> Attempts]]
      BY <1>0, <2>1, ForgetTypes
    <2> QED  BY <2>3, <2>5, <2>6, <2>7 DEF RequestTypes
  <1> QED  BY <1>1, <1>2, <1>3, <1>4, <1>5, <1>6 DEF SessionNext, RenewalServed, RenewalFails, Expire

LEMMA StepTokenTypes == ASSUME SessionAssumptions, SessionTypes, SessionNext PROVE TokenTypes'
  <1>0. TokenTypes
    BY DEF SessionTypes
  <1>1. CASE UNCHANGED server
    BY <1>0, <1>1 DEF TokenTypes
  <1>2. ASSUME NEW spent, server.issued < MaxPairs, server' = Issued(server.issued + 1, spent) PROVE TokenTypes'
    BY <1>0, <1>2 DEF TokenTypes, Issued, Sessions, SessionAssumptions
  <1>3. ASSUME NEW n, Expire(n) PROVE TokenTypes'
    <2>1. server' = [server EXCEPT !.live = server.live \ {n}]
      BY <1>3 DEF Expire
    <2>2. server' = [issued |-> server.issued, live |-> server.live \ {n}, valid |-> server.valid]
      BY <1>0, <2>1 DEF TokenTypes
    <2> QED  BY <1>0, <2>2 DEF TokenTypes
  <1>4. ASSUME NEW r \in renewals, RenewalServed(r) PROVE TokenTypes'
    BY <1>1, <1>2, <1>4 DEF RenewalServed
  <1> QED  BY <1>1, <1>2, <1>3, <1>4 DEF SessionNext, Load, Navigate, Login, Logout, SendRequest, Serve,
              Unauthorized, RenewalFails, RenewalGranted, RenewalDenied

\* A renewal that is sent, joined or answered has the types of one.
LEMMA SentRenewalTypes ==
  ASSUME SessionAssumptions, NEW w \in Windows, NEW n \in Sessions, NEW W \in SUBSET Slots
  PROVE  IsTyped(Renewal(w, n, W))
  BY DEF IsTyped, IsRenewal, Renewal, Sessions, SessionAssumptions

LEMMA JoinedRenewalTypes ==
  ASSUME NEW r, IsTyped(r), NEW s \in Slots PROVE IsTyped(JoinedRenewal(r, s))
  <1>1. JoinedRenewal(r, s) = [win |-> r.win, session |-> r.session, stage |-> r.stage, got |-> r.got,
                               waiting |-> r.waiting \cup {s}]
    BY DEF IsTyped, IsRenewal, JoinedRenewal
  <1> QED  BY <1>1 DEF IsTyped, IsRenewal

LEMMA AnsweredRenewalTypes ==
  ASSUME NEW r, IsTyped(r), NEW x PROVE IsTyped([r EXCEPT !.stage = x])
  <1>1. [r EXCEPT !.stage = x] = [win |-> r.win, session |-> r.session, stage |-> x, got |-> r.got,
                                  waiting |-> r.waiting]
    BY DEF IsTyped, IsRenewal
  <1> QED  BY <1>1 DEF IsTyped, IsRenewal

LEMMA GrantedRenewalTypes ==
  ASSUME NEW r, IsTyped(r), NEW n \in Sessions PROVE IsTyped(Granted(r, n))
  BY DEF IsTyped, IsRenewal, Granted

LEMMA StepRenewalTypes == ASSUME SessionAssumptions, SessionTypes, SessionNext PROVE RenewalTypes'
  <1>0. RenewalTypes
    BY DEF SessionTypes
  <1>1. ASSUME NEW w \in Windows, Load(w) \/ Navigate(w) PROVE RenewalTypes'
    <2>1. stored \in Sessions /\ memory[w] \in Sessions /\ {} \in SUBSET Slots
      BY DEF SessionTypes, StoreTypes
    <2>2. IsTyped(Renewal(w, stored, {})) /\ IsTyped(Renewal(w, memory[w], {}))
      BY <2>1, SentRenewalTypes
    <2> QED  BY <1>0, <1>1, <2>2 DEF Load, Navigate, GuardRenewal, RenewalTypes
  <1>2. ASSUME NEW w \in Windows, NEW s \in Slots, Unauthorized(w, s) PROVE RenewalTypes'
    <2>1. RefreshOf(w) \in Sessions /\ {s} \in SUBSET Slots
      BY DEF SessionTypes, StoreTypes, RefreshOf
    <2>2. IsTyped(Renewal(w, RefreshOf(w), {s}))
      BY <2>1, SentRenewalTypes
    <2>3. \A r \in Shared(w) : IsTyped(JoinedRenewal(r, s))
      BY <1>0, JoinedRenewalTypes DEF Shared, RenewalsOf, RenewalTypes
    <2>4. \/ renewals' \subseteq renewals
          \/ renewals' = (renewals \ Shared(w)) \cup {JoinedRenewal(r, s) : r \in Shared(w)}
          \/ renewals' = renewals \cup {Renewal(w, RefreshOf(w), {s})}
      BY <1>2 DEF Unauthorized
    <2> QED  BY <1>0, <2>2, <2>3, <2>4 DEF RenewalTypes
  <1>3. ASSUME NEW r \in renewals, RenewalServed(r) PROVE RenewalTypes'
    <2>1. IsTyped(r) /\ IsTyped([r EXCEPT !.stage = "denied"])
      BY <1>0, AnsweredRenewalTypes DEF RenewalTypes
    <2>2. CASE r.session \in server.valid
      <3>1. server.issued + 1 \in Sessions
        BY <1>3, <2>2 DEF RenewalServed, SessionTypes, TokenTypes, Sessions, SessionAssumptions
      <3>2. IsTyped(Granted(r, server.issued + 1))
        BY <2>1, <3>1, GrantedRenewalTypes
      <3> QED  BY <1>0, <1>3, <2>2, <3>2 DEF RenewalServed, RenewalTypes
    <2>3. CASE r.session \notin server.valid
      BY <1>0, <1>3, <2>1, <2>3 DEF RenewalServed, RenewalTypes
    <2> QED  BY <2>2, <2>3
  <1>4. ASSUME NEW r \in renewals, RenewalFails(r) PROVE RenewalTypes'
    <2>1. IsTyped([r EXCEPT !.stage = "denied"])
      BY <1>0, AnsweredRenewalTypes DEF RenewalTypes
    <2> QED  BY <1>0, <1>4, <2>1 DEF RenewalFails, RenewalTypes
  <1>5. ASSUME renewals' \subseteq renewals PROVE RenewalTypes'
    BY <1>0, <1>5 DEF RenewalTypes
  <1> QED  BY <1>1, <1>2, <1>3, <1>4, <1>5 DEF SessionNext, Login, Logout, SendRequest, Serve, Expire, RenewalGranted,
              RenewalDenied

LEMMA StepSessionTypes ==
  ASSUME SessionAssumptions, SessionTypes, [SessionNext]_sessionVars PROVE SessionTypes'
  <1>1. CASE SessionNext
    BY <1>1, StepStoreTypes, StepRequestTypes, StepTokenTypes, StepRenewalTypes DEF SessionTypes
  <1>2. CASE UNCHANGED sessionVars
    BY <1>2 DEF sessionVars, page, history, SessionTypes, StoreTypes, RequestTypes, TokenTypes, RenewalTypes
  <1> QED  BY <1>1, <1>2

LEMMA SessionTypesSuffice == SessionTypes => SessionTypeOK
  <1> SUFFICES ASSUME SessionTypes PROVE SessionTypeOK
    OBVIOUS
  <1>1. \A w \in Windows, s \in Slots : requests[w][s].stage \in {"none", "sent", "refused", "waiting"}
    BY DEF SessionTypes, RequestTypes, Attempts
  <1>2. \A r \in renewals : r.win \in Windows /\ r.waiting \subseteq Slots /\ r.session \in Sessions
    BY DEF SessionTypes, RenewalTypes, IsTyped, IsRenewal
  <1> QED  BY <1>1, <1>2 DEF SessionTypes, StoreTypes, TokenTypes, Displays, SessionTypeOK
=============================================================================
