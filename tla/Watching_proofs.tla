--------------------------- MODULE Watching_proofs ---------------------------
(***************************************************************************)
(* What a page shows of a server that goes on without it, for every number *)
(* of subjects, requests and changes: types, and a quiet view shows its    *)
(* own subject, not older than when it was last asked for.                 *)
(***************************************************************************)
EXTENDS MCWatching, FiniteSets, Sequences, FiniteSetTheorems, TLAPS

----------------------------------------------------------------------------
(* The views of mail2im (AdminViews).                                      *)

CallRecords == [phase : {"sent", "served"}, subject : Subjects, version : Views!Versions]

ViewTypes ==
    /\ view \in Views!Views /\ subject \in Subjects
    /\ cache \in [Subjects -> Views!Versions]
    /\ panel \in [subject : Subjects \cup {Views!Nothing}, version : Views!Versions]
    /\ calls \in [Views!Calls -> {Views!NoCall} \cup CallRecords]
    /\ version \in Views!Versions /\ moves \in 0..MaxMoves /\ fails \in 0..MaxFails
    /\ acting \in BOOLEAN
    /\ floor \in [Subjects -> Views!Versions]

\* Nothing comes from a version the server has not reached.
NotFromLater ==
    /\ \A s \in Subjects : cache[s] <= version /\ floor[s] <= version
    /\ \A c \in Views!Calls : calls[c] # Views!NoCall => calls[c].version <= version

\* A query has one request per subject.
OnePerSubject ==
    view.keyed => \A c, d \in Views!Calls :
        calls[c] # Views!NoCall /\ calls[d] # Views!NoCall /\ calls[c].subject = calls[d].subject => c = d

\* An answer on its way is not older than the last question about its subject:
\* an explicit question cancels the request it replaces, or waits for it.
NotOutdated ==
    Views!Ordered /\ view.asks => \A c \in Views!Calls :
        calls[c] # Views!NoCall /\ calls[c].phase = "served" => calls[c].version >= floor[calls[c].subject]

\* The requests of a plain fetch that its button alone repeats.
OwnCalls ==
    Views!Ordered /\ ~view.keyed => /\ ~acting
                                    /\ \A c \in Views!Calls : calls[c] # Views!NoCall => calls[c].subject = subject

\* The answer to the last question is there, or a request will bring it.
AnswerComes ==
    Views!Ordered /\ view.asks /\ fails = 0 =>
        IF view.keyed
          THEN \A s \in Subjects : cache[s] >= floor[s] \/ \E c \in Views!Calls : c \in Views!InFlight(s)
          ELSE \/ panel.subject = subject /\ panel.version >= floor[subject]
               \/ \E c \in Views!Calls : calls[c] # Views!NoCall

ViewsInv == ViewTypes /\ NotFromLater /\ OnePerSubject /\ NotOutdated /\ OwnCalls /\ AnswerComes

LEMMA SentCall ==
  ASSUME Views!ViewsAssumptions, NEW s \in Subjects
  PROVE  /\ Views!Call(s) \in CallRecords /\ Views!Call(s) # Views!NoCall
         /\ Views!Call(s).phase = "sent" /\ Views!Call(s).subject = s /\ Views!Call(s).version = 0
  <1>1. 0 \in Views!Versions
    BY DEF Views!Versions, Views!ViewsAssumptions
  <1>2. /\ Views!Call(s) \in CallRecords
        /\ Views!Call(s).phase = "sent" /\ Views!Call(s).subject = s /\ Views!Call(s).version = 0
    BY <1>1 DEF Views!Call, CallRecords
  <1>3. Views!NoCall.phase = "none"
    BY DEF Views!NoCall
  <1> QED  BY <1>2, <1>3

LEMMA InitViews == ASSUME Views!ViewsAssumptions, Views!VInit PROVE ViewsInv
  <1> USE DEF Views!ViewsAssumptions, Views!VInit
  <1>1. /\ 0 \in Views!Versions /\ subject \in Subjects /\ 1 \in Views!Calls
        /\ calls = [c \in Views!Calls |-> IF c = 1 /\ view.asks THEN Views!Call(subject) ELSE Views!NoCall]
    BY DEF Views!Versions, Views!Calls
  <1>2. /\ Views!Call(subject) \in CallRecords /\ Views!Call(subject) # Views!NoCall
        /\ Views!Call(subject).phase = "sent" /\ Views!Call(subject).subject = subject
        /\ Views!Call(subject).version = 0
    BY <1>1, SentCall
  <1>3. /\ \A c \in Views!Calls : calls[c] # Views!NoCall => c = 1 /\ calls[c] = Views!Call(subject)
        /\ view.asks => calls[1] = Views!Call(subject)
    BY <1>1
  <1>4. ViewTypes
    <2>1. calls \in [Views!Calls -> {Views!NoCall} \cup CallRecords]
      BY <1>1, <1>2
    <2>2. floor \in [Subjects -> Views!Versions] /\ version \in Views!Versions
      BY DEF Views!Versions
    <2>3. panel \in [subject : Subjects \cup {Views!Nothing}, version : Views!Versions]
      BY <1>1
    <2>4. moves \in 0..MaxMoves /\ fails \in 0..MaxFails /\ cache \in [Subjects -> Views!Versions]
      BY <1>1
    <2> QED  BY <1>1, <2>1, <2>2, <2>3, <2>4 DEF ViewTypes
  <1>5. NotFromLater /\ OnePerSubject /\ NotOutdated /\ OwnCalls
    BY <1>2, <1>3 DEF NotFromLater, OnePerSubject, NotOutdated, OwnCalls
  <1>6. AnswerComes
    BY <1>1, <1>2, <1>3 DEF AnswerComes, Views!InFlight
  <1> QED  BY <1>4, <1>5, <1>6 DEF ViewsInv

\* A question is sent in slot d, in place of the one in flight for its subject.
AskedIn(d, s) ==
    /\ calls' \in [Views!Calls -> {Views!NoCall} \cup CallRecords]
    /\ calls'[d] = Views!Call(s)
    /\ calls[d] = Views!NoCall \/ (view.keyed /\ d \in Views!InFlight(s))
    /\ \A c \in Views!Calls : c # d =>
          calls'[c] = IF view.keyed /\ c \in Views!InFlight(s) THEN Views!NoCall ELSE calls[c]

LEMMA AskedForms ==
  ASSUME Views!ViewsAssumptions, ViewTypes, NEW s \in Subjects, NEW e \in BOOLEAN, calls' \in Views!Asked(s, e)
  PROVE  \/ view.keyed /\ ~e /\ Views!InFlight(s) # {} /\ calls' = calls
         \/ \E d \in Views!Calls : AskedIn(d, s)
  <1>0. calls \in [Views!Calls -> {Views!NoCall} \cup CallRecords] /\ Views!Call(s) \in CallRecords
    BY SentCall DEF ViewTypes
  <1>1. CASE view.keyed /\ ~(Views!InFlight(s) # {} /\ ~e)
    <2> DEFINE rest == [c \in Views!Calls |-> IF c \in Views!InFlight(s) THEN Views!NoCall ELSE calls[c]]
    <2>1. PICK d \in Views!Calls : rest[d] = Views!NoCall /\ calls' = [rest EXCEPT ![d] = Views!Call(s)]
      BY <1>1 DEF Views!Asked, Views!AskedQuery
    <2>2. rest \in [Views!Calls -> {Views!NoCall} \cup CallRecords]
      BY <1>0
    <2>3. \A c \in Views!Calls : rest[c] = IF c \in Views!InFlight(s) THEN Views!NoCall ELSE calls[c]
      OBVIOUS
    <2> HIDE DEF rest
    <2> QED  BY <1>0, <1>1, <2>1, <2>2, <2>3 DEF AskedIn
  <1>2. CASE ~view.keyed
    <2>1. PICK d \in Views!FreeCalls : calls' = [calls EXCEPT ![d] = Views!Call(s)]
      BY <1>2 DEF Views!Asked, Views!AskedFetch
    <2> QED  BY <1>0, <1>2, <2>1 DEF AskedIn, Views!FreeCalls
  <1>3. CASE view.keyed /\ Views!InFlight(s) # {} /\ ~e
    BY <1>3 DEF Views!Asked, Views!AskedQuery
  <1> QED  BY <1>1, <1>2, <1>3

LEMMA AskStep ==
  ASSUME Views!ViewsAssumptions, ViewsInv, NEW s \in Subjects, NEW e \in BOOLEAN, calls' \in Views!Asked(s, e),
         UNCHANGED <<view, cache, panel, fails>>,
         version' \in Views!Versions, version <= version',
         floor' = floor \/ (floor' = [floor EXCEPT ![s] = version'] /\ (view.keyed => e \/ Views!InFlight(s) = {})),
         Views!Ordered /\ ~view.keyed => /\ subject' = subject /\ s = subject /\ ~acting'
                                         /\ \A c \in Views!Calls : calls[c] = Views!NoCall
  PROVE  /\ calls' \in [Views!Calls -> {Views!NoCall} \cup CallRecords]
         /\ floor' \in [Subjects -> Views!Versions]
         /\ NotFromLater' /\ OnePerSubject' /\ NotOutdated' /\ OwnCalls' /\ AnswerComes'
  <1> USE DEF Views!InFlight
  <1>0. /\ ViewTypes /\ NotFromLater /\ OnePerSubject /\ NotOutdated /\ OwnCalls /\ AnswerComes
        /\ Views!Ordered' <=> Views!Ordered
    BY DEF ViewsInv, Views!Ordered
  <1>1. /\ calls \in [Views!Calls -> {Views!NoCall} \cup CallRecords] /\ floor \in [Subjects -> Views!Versions]
        /\ cache \in [Subjects -> Views!Versions] /\ version \in Views!Versions
        /\ Views!Versions \subseteq Nat
    BY <1>0 DEF ViewTypes, Views!Versions, Views!ViewsAssumptions
  <1>6. /\ \A c \in Views!Calls : calls[c] # Views!NoCall => calls[c].version \in Nat
        /\ \A t \in Subjects : cache[t] \in Nat /\ floor[t] \in Nat
        /\ version \in Nat /\ version' \in Nat
    BY <1>1 DEF CallRecords
  <1>7. /\ \A c \in Views!Calls : calls[c] # Views!NoCall => calls[c].version <= version'
        /\ \A t \in Subjects : cache[t] <= version' /\ floor[t] <= version'
    BY <1>0, <1>6 DEF NotFromLater
  <1>2. /\ floor' \in [Subjects -> Views!Versions]
        /\ \A t \in Subjects : t # s => floor'[t] = floor[t]
        /\ floor'[s] \in {floor[s], version'}
    BY <1>1
  <1>3. /\ Views!Call(s) \in CallRecords /\ Views!Call(s) # Views!NoCall
        /\ Views!Call(s).phase = "sent" /\ Views!Call(s).subject = s /\ Views!Call(s).version = 0
    BY SentCall
  <1>4. CASE view.keyed /\ ~e /\ Views!InFlight(s) # {} /\ calls' = calls
    <2>1. floor' = floor
      BY <1>4
    <2>2. NotFromLater' /\ OnePerSubject'
      BY <1>0, <1>7, <1>4, <2>1 DEF NotFromLater, OnePerSubject
    <2>3. NotOutdated' /\ OwnCalls'
      BY <1>0, <1>4, <2>1 DEF NotOutdated, OwnCalls
    <2>4. AnswerComes'
      BY <1>0, <1>4, <2>1 DEF AnswerComes
    <2> QED  BY <1>1, <1>4, <2>1, <2>2, <2>3, <2>4
  <1>5. ASSUME NEW d \in Views!Calls, AskedIn(d, s),
               floor' # floor /\ view.keyed => e \/ Views!InFlight(s) = {}
        PROVE  /\ calls' \in [Views!Calls -> {Views!NoCall} \cup CallRecords]
               /\ NotFromLater' /\ OnePerSubject' /\ NotOutdated' /\ OwnCalls' /\ AnswerComes'
    <2>1. \A c \in Views!Calls : calls'[c] # Views!NoCall =>
             (c = d /\ calls'[c] = Views!Call(s)) \/ (c # d /\ calls'[c] = calls[c] /\ (view.keyed => calls[c].subject # s))
      BY <1>5 DEF AskedIn
    <2>2. NotFromLater'
      <3>1. \A t \in Subjects : cache'[t] <= version' /\ floor'[t] <= version'
        BY <1>2, <1>6, <1>7
      <3>2. \A c \in Views!Calls : calls'[c] # Views!NoCall => calls'[c].version <= version'
        BY <1>3, <1>6, <1>7, <2>1
      <3> QED  BY <3>1, <3>2 DEF NotFromLater
    <2>3. OnePerSubject'
      BY <1>0, <1>3, <2>1 DEF OnePerSubject
    <2>4. NotOutdated'
      <3> SUFFICES ASSUME Views!Ordered, view.asks, NEW c \in Views!Calls, calls'[c] # Views!NoCall,
                          calls'[c].phase = "served"
                   PROVE  calls'[c].version >= floor'[calls'[c].subject]
        BY <1>0 DEF NotOutdated
      <3>1. c # d /\ calls'[c] = calls[c] /\ view.keyed /\ calls[c].subject # s
        BY <1>3, <2>1
      <3>2. calls[c].subject \in Subjects
        BY <1>1, <3>1 DEF CallRecords
      <3> QED  BY <1>0, <1>2, <3>1, <3>2 DEF NotOutdated
    <2>5. OwnCalls'
      BY <1>0, <1>3, <2>1 DEF OwnCalls
    <2>6. AnswerComes'
      <3> SUFFICES ASSUME Views!Ordered, view.asks, fails = 0 PROVE AnswerComes'
        BY <1>0 DEF AnswerComes
      <3>1. d \in Views!Calls /\ calls'[d] # Views!NoCall /\ calls'[d].subject = s
        BY <1>3, <1>5 DEF AskedIn
      <3>2. ASSUME view.keyed, NEW t \in Subjects
            PROVE  cache'[t] >= floor'[t] \/ \E c \in Views!Calls : calls'[c] # Views!NoCall /\ calls'[c].subject = t
        <4>1. CASE t = s
          BY <3>1, <4>1
        <4>2. CASE t # s
          <5>1. \A c \in Views!Calls : calls[c] # Views!NoCall /\ calls[c].subject = t => calls'[c] = calls[c]
            BY <1>5, <4>2 DEF AskedIn
          <5>2. cache[t] >= floor[t] \/ \E c \in Views!Calls : calls[c] # Views!NoCall /\ calls[c].subject = t
            BY <1>0, <3>2 DEF AnswerComes
          <5> QED  BY <1>2, <4>2, <5>1, <5>2
        <4> QED  BY <4>1, <4>2
      <3> QED  BY <3>1, <3>2 DEF AnswerComes
    <2> QED  BY <1>5, <2>2, <2>3, <2>4, <2>5, <2>6 DEF AskedIn
  <1> QED  BY <1>0, <1>2, <1>4, <1>5, AskedForms

LEMMA CallsUnchanged ==
  ASSUME ViewsInv, UNCHANGED <<view, subject, cache, panel, calls, floor>>, version' \in Nat, version <= version',
         acting' => acting \/ view.acts, fails' = fails
  PROVE  NotFromLater' /\ OnePerSubject' /\ NotOutdated' /\ OwnCalls' /\ AnswerComes'
  <1>1. Views!Ordered' <=> Views!Ordered
    BY DEF Views!Ordered
  <1>2. NotFromLater'
    BY DEF ViewsInv, NotFromLater, ViewTypes, Views!Versions, CallRecords
  <1>3. OnePerSubject' /\ NotOutdated'
    BY <1>1 DEF ViewsInv, OnePerSubject, NotOutdated
  <1>4. OwnCalls'
    BY <1>1 DEF ViewsInv, OwnCalls, Views!Ordered
  <1>5. AnswerComes'
    BY <1>1 DEF ViewsInv, AnswerComes, Views!InFlight
  <1> QED  BY <1>2, <1>3, <1>4, <1>5

\* A call comes to an end: served, arrived or failed.
LEMMA CallStep ==
  ASSUME Views!ViewsAssumptions, ViewsInv, NEW c \in Views!Calls,
         Views!ServeCall(c) \/ Views!CallArrives(c) \/ Views!CallFails(c)
  PROVE  ViewsInv'
  <1> USE DEF Views!InFlight
  <1>0. /\ ViewTypes /\ NotFromLater /\ OnePerSubject /\ NotOutdated /\ OwnCalls /\ AnswerComes
        /\ UNCHANGED <<view, subject, version, acting, moves, floor>> /\ calls[c] # Views!NoCall
        /\ Views!Ordered' <=> Views!Ordered
    BY DEF ViewsInv, Views!Ordered, Views!ServeCall, Views!CallArrives, Views!CallFails
  <1>1. /\ calls \in [Views!Calls -> {Views!NoCall} \cup CallRecords] /\ calls[c] \in CallRecords
        /\ floor \in [Subjects -> Views!Versions] /\ cache \in [Subjects -> Views!Versions]
        /\ version \in Views!Versions /\ Views!Versions \subseteq Nat
        /\ fails \in 0..MaxFails /\ MaxFails \in Nat
    BY <1>0 DEF ViewTypes, Views!Versions, Views!ViewsAssumptions
  <1>2. CASE Views!ServeCall(c)
    <2> DEFINE a == [calls[c] EXCEPT !.phase = "served", !.version = version]
    <2>1. a \in CallRecords /\ a.phase = "served" /\ a.subject = calls[c].subject /\ a.version = version
      BY <1>1 DEF CallRecords
    <2>2. calls' = [calls EXCEPT ![c] = a] /\ UNCHANGED <<cache, panel, fails>>
      BY <1>1, <1>2 DEF Views!ServeCall
    <2>3. Views!NoCall.phase = "none"
      BY DEF Views!NoCall
    <2> HIDE DEF a
    <2>4. /\ calls'[c] = a /\ a # Views!NoCall
          /\ \A b \in Views!Calls : b # c => calls'[b] = calls[b]
      BY <1>1, <2>1, <2>2, <2>3
    <2>5. ViewTypes'
      BY <1>0, <1>1, <2>1, <2>2 DEF ViewTypes
    <2>6. NotFromLater'
      BY <1>0, <1>1, <2>1, <2>2, <2>4 DEF NotFromLater
    <2>7. OnePerSubject'
      BY <1>0, <2>1, <2>4 DEF OnePerSubject
    <2>8. NotOutdated'
      <3>1. calls[c].subject \in Subjects
        BY <1>1 DEF CallRecords
      <3>2. a.version >= floor'[a.subject]
        BY <1>0, <1>1, <2>1, <3>1 DEF NotFromLater
      <3> QED  BY <1>0, <2>1, <2>4, <3>2 DEF NotOutdated
    <2>9. OwnCalls'
      BY <1>0, <2>1, <2>4 DEF OwnCalls
    <2>10. AnswerComes'
      <3>1. \A b \in Views!Calls : calls[b] # Views!NoCall => calls'[b] # Views!NoCall /\ calls'[b].subject = calls[b].subject
        BY <2>1, <2>4
      <3> QED  BY <1>0, <2>2, <3>1 DEF AnswerComes
    <2> QED  BY <2>5, <2>6, <2>7, <2>8, <2>9, <2>10 DEF ViewsInv
  <1>3. ASSUME calls' = [calls EXCEPT ![c] = Views!NoCall], fails' \in 0..MaxFails,
               cache' \in [Subjects -> Views!Versions], \A s \in Subjects : cache'[s] <= version,
               panel' \in [subject : Subjects \cup {Views!Nothing}, version : Views!Versions],
               AnswerComes'
        PROVE  ViewsInv'
    <2>1. calls'[c] = Views!NoCall /\ \A b \in Views!Calls : b # c => calls'[b] = calls[b]
      BY <1>1, <1>3
    <2>2. ViewTypes'
      BY <1>0, <1>1, <1>3 DEF ViewTypes
    <2>3. NotFromLater' /\ OnePerSubject'
      BY <1>0, <1>3, <2>1 DEF NotFromLater, OnePerSubject
    <2>4. NotOutdated' /\ OwnCalls'
      BY <1>0, <2>1 DEF NotOutdated, OwnCalls
    <2> QED  BY <1>3, <2>2, <2>3, <2>4 DEF ViewsInv
  <1>4. CASE Views!CallArrives(c)
    <2>1. /\ calls' = [calls EXCEPT ![c] = Views!NoCall] /\ fails' = fails /\ calls[c].phase = "served"
          /\ IF view.keyed
               THEN cache' = [cache EXCEPT ![calls[c].subject] = calls[c].version] /\ UNCHANGED panel
               ELSE panel' = [subject |-> calls[c].subject, version |-> calls[c].version] /\ UNCHANGED cache
      BY <1>4 DEF Views!CallArrives, Views!Stored
    <2>2. calls[c].subject \in Subjects /\ calls[c].version \in Views!Versions /\ calls[c].version <= version
      BY <1>0, <1>1 DEF CallRecords, NotFromLater
    <2>3. /\ cache' \in [Subjects -> Views!Versions] /\ \A s \in Subjects : cache'[s] <= version
      BY <1>0, <1>1, <2>1, <2>2 DEF NotFromLater
    <2>4. panel' \in [subject : Subjects \cup {Views!Nothing}, version : Views!Versions]
      BY <1>0, <2>1, <2>2 DEF ViewTypes
    <2>5. \A b \in Views!Calls : b # c => calls'[b] = calls[b]
      BY <1>1, <2>1
    <2>6. AnswerComes'
      <3> SUFFICES ASSUME Views!Ordered, view.asks, fails = 0 PROVE AnswerComes'
        BY <1>0, <2>1 DEF AnswerComes
      <3>1. calls[c].version >= floor[calls[c].subject]
        BY <1>0, <2>1 DEF NotOutdated
      <3>2. CASE view.keyed
        <4>1. ASSUME NEW t \in Subjects
              PROVE  cache'[t] >= floor'[t] \/ \E b \in Views!Calls : calls'[b] # Views!NoCall /\ calls'[b].subject = t
          <5>1. CASE t = calls[c].subject
            BY <1>0, <1>1, <2>1, <2>2, <3>1, <3>2, <5>1
          <5>2. CASE t # calls[c].subject
            <6>1. cache[t] >= floor[t] \/ \E b \in Views!Calls : calls[b] # Views!NoCall /\ calls[b].subject = t
              BY <1>0, <3>2 DEF AnswerComes
            <6>2. cache'[t] = cache[t]
              BY <1>1, <2>1, <2>2, <3>2, <5>2
            <6> QED  BY <1>0, <2>5, <5>2, <6>1, <6>2
          <5> QED  BY <5>1, <5>2
        <4> QED  BY <1>0, <3>2, <4>1 DEF AnswerComes
      <3>3. CASE ~view.keyed
        <4>1. calls[c].subject = subject
          BY <1>0, <3>3 DEF OwnCalls
        <4>2. panel'.subject = subject' /\ panel'.version >= floor'[subject']
          BY <1>0, <2>1, <3>1, <3>3, <4>1
        <4> QED  BY <1>0, <3>3, <4>2 DEF AnswerComes
      <3> QED  BY <3>2, <3>3
    <2> QED  BY <1>1, <1>3, <2>1, <2>3, <2>4, <2>6
  <1>5. CASE Views!CallFails(c)
    <2>1. /\ calls' = [calls EXCEPT ![c] = Views!NoCall] /\ fails' = fails + 1 /\ fails < MaxFails
          /\ UNCHANGED <<cache, panel>>
      BY <1>5 DEF Views!CallFails
    <2>2. fails' \in 0..MaxFails /\ fails' # 0
      BY <1>1, <2>1
    <2>3. AnswerComes'
      BY <2>2 DEF AnswerComes
    <2> QED  BY <1>0, <1>3, <2>1, <2>2, <2>3 DEF NotFromLater, ViewTypes
  <1> QED  BY <1>2, <1>4, <1>5

LEMMA RefreshViewStep == ASSUME Views!ViewsAssumptions, ViewsInv, Views!RefreshView PROVE ViewsInv'
  <1>1. /\ calls' \in Views!Asked(subject, TRUE) /\ floor' = [floor EXCEPT ![subject] = version]
        /\ moves < MaxMoves /\ moves' = moves + 1 /\ Views!RefreshEnabled
        /\ UNCHANGED <<view, subject, cache, panel, version, acting, fails>>
    BY DEF Views!RefreshView
  <1>2. ViewTypes /\ OwnCalls /\ subject \in Subjects /\ version \in Views!Versions /\ version \in Nat
    BY DEF ViewsInv, ViewTypes, Views!Versions
  <1>3. Views!Ordered /\ ~view.keyed => ~acting /\ \A c \in Views!Calls : calls[c] = Views!NoCall
    BY <1>1, <1>2 DEF Views!Ordered, Views!RefreshEnabled, OwnCalls
  <1>4. /\ calls' \in [Views!Calls -> {Views!NoCall} \cup CallRecords]
        /\ floor' \in [Subjects -> Views!Versions]
        /\ NotFromLater' /\ OnePerSubject' /\ NotOutdated' /\ OwnCalls' /\ AnswerComes'
    <2>1. PICK e \in BOOLEAN : e /\ calls' \in Views!Asked(subject, e)
      BY <1>1
    <2>2. version <= version' /\ version' \in Views!Versions
      BY <1>1, <1>2
    <2>3. floor' = [floor EXCEPT ![subject] = version'] /\ (view.keyed => e \/ Views!InFlight(subject) = {})
      BY <1>1, <2>1
    <2> QED  BY <1>1, <1>2, <1>3, <2>1, <2>2, <2>3, AskStep
  <1>5. ViewTypes'
    BY <1>1, <1>2, <1>4 DEF ViewTypes, Views!ViewsAssumptions
  <1> QED  BY <1>4, <1>5 DEF ViewsInv

LEMMA OperationStep == ASSUME Views!ViewsAssumptions, ViewsInv, Views!OperationAnswered PROVE ViewsInv'
  <1>1. /\ calls' \in Views!Asked(subject, TRUE) /\ floor' = [floor EXCEPT ![subject] = version']
        /\ acting /\ acting' = FALSE /\ version < MaxVersion /\ version' = version + 1
        /\ UNCHANGED <<view, subject, cache, panel, moves, fails>>
    BY DEF Views!OperationAnswered
  <1>2. /\ ViewTypes /\ OwnCalls /\ subject \in Subjects /\ version \in Nat /\ MaxVersion \in Nat
    BY DEF ViewsInv, ViewTypes, Views!Versions, Views!ViewsAssumptions
  <1>3. version' \in Views!Versions /\ version <= version' /\ version' \in Nat
    BY <1>1, <1>2 DEF Views!Versions
  <1>4. ~(Views!Ordered /\ ~view.keyed)
    BY <1>1, <1>2 DEF OwnCalls
  <1>5. /\ calls' \in [Views!Calls -> {Views!NoCall} \cup CallRecords]
        /\ floor' \in [Subjects -> Views!Versions]
        /\ NotFromLater' /\ OnePerSubject' /\ NotOutdated' /\ OwnCalls' /\ AnswerComes'
    <2>1. PICK e \in BOOLEAN : e /\ calls' \in Views!Asked(subject, e)
      BY <1>1
    <2> QED  BY <1>1, <1>2, <1>3, <1>4, <2>1, AskStep
  <1>6. ViewTypes'
    BY <1>1, <1>2, <1>3, <1>5 DEF ViewTypes
  <1> QED  BY <1>5, <1>6 DEF ViewsInv

LEMMA TickStep == ASSUME Views!ViewsAssumptions, ViewsInv, Views!Tick PROVE ViewsInv'
  <1>1. /\ calls' \in Views!Asked(subject, FALSE) /\ view.polls
        /\ UNCHANGED <<view, subject, cache, panel, version, acting, moves, fails, floor>>
    BY DEF Views!Tick, Views!TickDue
  <1>2. ViewTypes /\ subject \in Subjects /\ version \in Nat /\ version \in Views!Versions
    BY DEF ViewsInv, ViewTypes, Views!Versions
  <1>3. ~(Views!Ordered /\ ~view.keyed)
    BY <1>1 DEF Views!Ordered
  <1>4. /\ calls' \in [Views!Calls -> {Views!NoCall} \cup CallRecords]
        /\ NotFromLater' /\ OnePerSubject' /\ NotOutdated' /\ OwnCalls' /\ AnswerComes'
    <2>1. PICK e \in BOOLEAN : calls' \in Views!Asked(subject, e)
      BY <1>1
    <2>2. version <= version' /\ version' \in Views!Versions /\ floor' = floor
      BY <1>1, <1>2
    <2> QED  BY <1>1, <1>2, <1>3, <2>1, <2>2, AskStep
  <1>5. ViewTypes'
    BY <1>1, <1>2, <1>4 DEF ViewTypes
  <1> QED  BY <1>4, <1>5 DEF ViewsInv

LEMMA ViewMoves == ASSUME Views!ViewsAssumptions, ViewsInv, NEW s \in Subjects, Views!Move(s) PROVE ViewsInv'
  <1>1. /\ view.moves /\ moves < MaxMoves /\ moves' = moves + 1 /\ subject' = s
        /\ UNCHANGED <<view, cache, version, acting, fails>>
    BY DEF Views!Move
  <1>2. ViewTypes /\ version \in Nat /\ version \in Views!Versions /\ moves' \in 0..MaxMoves
    BY <1>1 DEF ViewsInv, ViewTypes, Views!Versions, Views!ViewsAssumptions
  <1>3. ~(Views!Ordered /\ ~view.keyed) /\ (Views!Ordered' <=> Views!Ordered)
    BY <1>1 DEF Views!Ordered
  <1>4. CASE view.asks
    <2>1. /\ calls' \in Views!Asked(s, FALSE) /\ UNCHANGED panel
          /\ floor' = IF view.keyed /\ Views!InFlight(s) # {} THEN floor ELSE [floor EXCEPT ![s] = version]
      BY <1>4 DEF Views!Move
    <2>2. PICK e \in BOOLEAN : calls' \in Views!Asked(s, e)
      BY <2>1
    <2>3. /\ version <= version' /\ version' \in Views!Versions
          /\ \/ floor' = floor
             \/ floor' = [floor EXCEPT ![s] = version'] /\ (view.keyed => e \/ Views!InFlight(s) = {})
      BY <1>1, <1>2, <2>1
    <2>4. /\ calls' \in [Views!Calls -> {Views!NoCall} \cup CallRecords]
          /\ floor' \in [Subjects -> Views!Versions]
          /\ NotFromLater' /\ OnePerSubject' /\ NotOutdated' /\ OwnCalls' /\ AnswerComes'
      BY <1>1, <1>3, <2>1, <2>2, <2>3, AskStep
    <2>5. ViewTypes'
      BY <1>1, <1>2, <2>1, <2>4 DEF ViewTypes
    <2> QED  BY <2>4, <2>5 DEF ViewsInv
  <1>5. CASE ~view.asks
    <2>1. panel' = [subject |-> Views!Nothing, version |-> 0] /\ UNCHANGED <<calls, floor>>
      BY <1>5 DEF Views!Move
    <2>2. panel' \in [subject : Subjects \cup {Views!Nothing}, version : Views!Versions]
      BY <2>1 DEF Views!Versions, Views!ViewsAssumptions
    <2>3. ViewTypes'
      BY <1>1, <1>2, <2>1, <2>2 DEF ViewTypes
    <2>4. NotFromLater' /\ OnePerSubject' /\ NotOutdated' /\ OwnCalls' /\ AnswerComes'
      BY <1>1, <1>3, <1>5, <2>1 DEF ViewsInv, NotFromLater, OnePerSubject, NotOutdated, OwnCalls, AnswerComes
    <2> QED  BY <2>3, <2>4 DEF ViewsInv
  <1> QED  BY <1>4, <1>5

LEMMA StepViews == ASSUME Views!ViewsAssumptions, ViewsInv, [Views!VNext]_viewVars PROVE ViewsInv'
  <1>1. ASSUME UNCHANGED <<view, subject, cache, panel, calls, floor, fails>>, version' \in Views!Versions,
               version <= version', moves' \in 0..MaxMoves, acting' \in BOOLEAN, acting' => acting \/ view.acts
        PROVE  ViewsInv'
    <2>1. version' \in Nat
      BY <1>1 DEF Views!Versions
    <2>2. ViewTypes'
      BY <1>1 DEF ViewsInv, ViewTypes
    <2> QED  BY <1>1, <2>1, <2>2, CallsUnchanged DEF ViewsInv
  <1>2. /\ version \in Views!Versions /\ version \in Nat /\ MaxVersion \in Nat /\ acting \in BOOLEAN
        /\ moves \in 0..MaxMoves /\ MaxMoves \in Nat
    BY DEF ViewsInv, ViewTypes, Views!Versions, Views!ViewsAssumptions
  <1>3. CASE Views!Operate \/ Views!OperationRefused
    <2>1. /\ UNCHANGED <<view, subject, cache, panel, calls, floor, fails, version>>
          /\ acting' \in BOOLEAN /\ (acting' => acting \/ view.acts)
      BY <1>3 DEF Views!Operate, Views!OperationRefused
    <2>2. moves' \in 0..MaxMoves
      BY <1>2, <1>3 DEF Views!Operate, Views!OperationRefused
    <2>3. version <= version' /\ version' \in Views!Versions
      BY <1>2, <2>1
    <2> QED  BY <1>1, <2>1, <2>2, <2>3
  <1>4. CASE Views!Change
    BY <1>1, <1>2, <1>4 DEF Views!Change, Views!Versions
  <1>5. CASE UNCHANGED viewVars
    BY <1>1, <1>2, <1>5 DEF viewVars
  <1> QED  BY <1>3, <1>4, <1>5, RefreshViewStep, OperationStep, TickStep, ViewMoves, CallStep DEF Views!VNext

LEMMA ViewsPromise == ASSUME ViewsInv PROVE Views!QuietViewIsCurrent
  <1>1. ViewTypes /\ AnswerComes /\ subject \in Subjects
    BY DEF ViewsInv, ViewTypes
  <1>2. CASE view.keyed
    BY <1>1, <1>2 DEF AnswerComes, Views!QuietViewIsCurrent, Views!Quiet, Views!Shown, Views!InFlight
  <1>3. CASE ~view.keyed
    BY <1>1, <1>3 DEF AnswerComes, Views!QuietViewIsCurrent, Views!Quiet, Views!Shown
  <1> QED  BY <1>2, <1>3

\* Counting is the same in the instance.
LEMMA ViewsCount == \A S : Views!Cardinality(S) = Cardinality(S)
  BY DEF Views!Cardinality, Cardinality, Views!IsFiniteSet, IsFiniteSet

LEMMA ViewsTyped == ASSUME ViewsInv PROVE Views!ViewsTypeOK
  <1>1. ASSUME view.keyed, NEW s \in Subjects PROVE Views!Cardinality(Views!InFlight(s)) <= 1
    <2>1. CASE Views!InFlight(s) = {}
      BY <2>1, ViewsCount, FS_EmptySet
    <2>2. ASSUME NEW c \in Views!InFlight(s) PROVE Views!Cardinality(Views!InFlight(s)) <= 1
      <3>1. Views!InFlight(s) = {c}
        BY <1>1, <2>2 DEF ViewsInv, OnePerSubject, Views!InFlight
      <3>2. Cardinality({c}) = 1
        BY FS_Singleton
      <3> QED  BY <3>1, <3>2, ViewsCount
    <2> QED  BY <2>1, <2>2
  <1> QED  BY <1>1 DEF ViewsInv, ViewTypes, NotFromLater, CallRecords, Views!ViewsTypeOK

----------------------------------------------------------------------------
(* The states of a synchronisation (LiveStatus).                           *)

States == [phase : Status!Phases, at : Nat]

\* A state that somebody has, or that is on its way.
Known(s) == s \in States /\ s.at <= changes

Requested(q) == q = Status!Idle \/ q = Status!Asked \/ (q.stage = "answered" /\ Known(q.data))

StatusInv ==
    /\ changes \in Nat /\ Known(now) /\ Known(row)
    /\ Requested(poll) /\ Requested(check)
    /\ pushed \in Seq(States) /\ \A i \in 1..Len(pushed) : pushed[i].at <= changes
    /\ tracking \in BOOLEAN /\ trigger \in {"idle", "asked", "accepted", "refused"}
    /\ link \in {"open", "connecting"} /\ lost \in BOOLEAN

LEMMA Stages ==
    /\ Status!Idle.stage = "idle" /\ Status!Asked.stage = "asked"
    /\ \A s : Status!Answered(s).stage = "answered" /\ Status!Answered(s).data = s
  BY DEF Status!Idle, Status!Asked, Status!Answered

LEMMA KnownFromStart ==
  ASSUME changes \in Nat PROVE Known(Status!Nothing) /\ Known(Status!Seed)
  BY DEF Known, States, Status!Nothing, Status!Seed, Status!Phases, Status!Active, Status!Ended

LEMMA InitStatus == ASSUME Status!Assumptions, Status!Init PROVE StatusInv
  <1>1. changes \in Nat /\ Known(Status!Nothing)
    BY KnownFromStart DEF Status!Init
  <1>2. pushed \in Seq(States) /\ Len(pushed) = 0
    BY DEF Status!Init
  <1>3. Known(now) /\ Known(row)
    BY <1>1 DEF Status!Init
  <1>4. Requested(poll) /\ Requested(check)
    BY DEF Status!Init, Requested
  <1>5. /\ tracking \in BOOLEAN /\ trigger \in {"idle", "asked", "accepted", "refused"}
        /\ link \in {"open", "connecting"} /\ lost \in BOOLEAN
    BY DEF Status!Init
  <1>6. \A i \in 1..Len(pushed) : pushed[i].at <= changes
    BY <1>2
  <1> QED  BY <1>1, <1>2, <1>3, <1>4, <1>5, <1>6 DEF StatusInv

\* What is known stays known when the server goes on.
LEMMA StaysKnown ==
  ASSUME changes \in Nat, changes' \in Nat, changes <= changes', NEW s, Known(s)
  PROVE  s \in States /\ s.at <= changes'
  BY DEF Known, States

LEMMA StaysRequested ==
  ASSUME changes \in Nat, changes' \in Nat, changes <= changes', NEW q, Requested(q)
  PROVE  q = Status!Idle \/ q = Status!Asked \/ (q.stage = "answered" /\ q.data \in States /\ q.data.at <= changes')
  BY StaysKnown DEF Requested

\* A change of the server, and what it pushes.
LEMMA ServerChanges ==
  ASSUME StatusInv, NEW p \in Status!Phases, Status!Change(Status!Stamped(p)),
         UNCHANGED <<row, tracking, poll, check, link>>,
         trigger' \in {"idle", "asked", "accepted", "refused"}
  PROVE  StatusInv'
  <1> DEFINE s == Status!Stamped(p)
  <1>1. /\ changes' = changes + 1 /\ now' = s
        /\ \/ pushed' = Append(pushed, s) /\ lost' = lost
           \/ pushed' = pushed /\ lost' = TRUE
    BY DEF Status!Change
  <1>2. changes \in Nat /\ changes' \in Nat /\ changes <= changes'
    BY <1>1 DEF StatusInv
  <1>3. s \in States /\ s.at <= changes'
    <2>1. s = [phase |-> p, at |-> changes + 1]
      BY DEF Status!Stamped
    <2>2. p \in Status!Phases /\ changes + 1 \in Nat
      BY <1>2
    <2> QED  BY <1>1, <1>2, <2>1, <2>2 DEF States
  <1> HIDE DEF s
  <1>4. Known(now)' /\ Known(row)'
    BY <1>1, <1>2, <1>3, StaysKnown DEF StatusInv, Known
  <1>5. Requested(poll)' /\ Requested(check)'
    BY <1>2, StaysRequested DEF StatusInv, Requested, Known
  <1>6. pushed' \in Seq(States) /\ \A i \in 1..Len(pushed') : pushed'[i].at <= changes'
    <2>1. pushed \in Seq(States) /\ \A i \in 1..Len(pushed) : pushed[i].at <= changes /\ pushed[i] \in States
      BY DEF StatusInv
    <2>2. \A i \in 1..Len(pushed) : pushed[i].at <= changes'
      BY <1>2, <2>1 DEF States
    <2>3. CASE pushed' = pushed
      BY <2>1, <2>2, <2>3
    <2>4. CASE pushed' = Append(pushed, s)
      <3>1. pushed' \in Seq(States) /\ Len(pushed') = Len(pushed) + 1
        BY <1>3, <2>1, <2>4
      <3>2. \A i \in 1..Len(pushed') : pushed'[i] = IF i <= Len(pushed) THEN pushed[i] ELSE s
        BY <2>1, <2>4
      <3> QED  BY <1>3, <2>1, <2>2, <3>1, <3>2
    <2> QED  BY <1>1, <2>3, <2>4
  <1> QED  BY <1>1, <1>2, <1>4, <1>5, <1>6 DEF StatusInv

\* A step in which the server stands still.
LEMMA CacheWritten ==
  ASSUME StatusInv, UNCHANGED <<now, changes, link>>, Known(row'), Requested(poll'), Requested(check'),
         pushed' \in Seq(States), \A i \in 1..Len(pushed') : pushed'[i].at <= changes,
         tracking' \in BOOLEAN, trigger' \in {"idle", "asked", "accepted", "refused"}, lost' \in BOOLEAN
  PROVE  StatusInv'
  BY DEF StatusInv, Known, Requested

LEMMA StepStatus == ASSUME Status!Assumptions, StatusInv, [Status!Next]_statusVars PROVE StatusInv'
  <1>0. /\ changes \in Nat /\ Known(now) /\ Known(row) /\ Requested(poll) /\ Requested(check)
        /\ pushed \in Seq(States) /\ \A i \in 1..Len(pushed) : pushed[i].at <= changes
        /\ tracking \in BOOLEAN /\ trigger \in {"idle", "asked", "accepted", "refused"}
        /\ link \in {"open", "connecting"} /\ lost \in BOOLEAN
    BY DEF StatusInv
  <1>1. CASE Status!Server
    <2>1. \E p \in Status!Phases : Status!Change(Status!Stamped(p))
      BY <1>1 DEF Status!Server, Status!Begins, Status!GoesOn, Status!Phases, Status!Active, Status!Ended
    <2> QED  BY <1>0, <1>1, <2>1, ServerChanges DEF Status!Server, Status!asking
  <1>2. CASE Status!Restart
    <2>1. /\ changes' = changes + 1 /\ now' = Status!Nothing /\ pushed' = <<>> /\ lost' = TRUE /\ link' = "connecting"
          /\ UNCHANGED <<row, tracking, trigger, poll, check>>
      BY <1>2 DEF Status!Restart, Status!asking
    <2>2. changes' \in Nat /\ changes <= changes'
      BY <1>0, <2>1
    <2>3. Known(row)' /\ Requested(poll)' /\ Requested(check)'
      BY <1>0, <2>1, <2>2, StaysKnown, StaysRequested DEF Known, Requested
    <2>4. Known(now)'
      BY <2>1, <2>2 DEF Known, States, Status!Nothing, Status!Phases
    <2>5. pushed' \in Seq(States) /\ Len(pushed') = 0
      BY <2>1
    <2> QED  BY <1>0, <2>1, <2>2, <2>3, <2>4, <2>5 DEF StatusInv
  <1>3. CASE Status!Trigger
    <2>1. CASE Status!Change(Status!Stamped("queued")) /\ trigger' = "accepted"
      <3>1. PICK p \in Status!Phases : p = "queued"
        BY DEF Status!Phases, Status!Active
      <3>2. Status!Change(Status!Stamped(p))
        BY <2>1, <3>1
      <3> QED  BY <1>3, <2>1, <3>2, ServerChanges DEF Status!Trigger, Status!asking
    <2>2. CASE trigger' = "refused" /\ UNCHANGED <<Status!state, pushed, lost>>
      BY <1>0, <1>3, <2>2 DEF Status!Trigger, Status!asking, Status!state, StatusInv, Known, Requested
    <2> QED  BY <1>3, <2>1, <2>2 DEF Status!Trigger
  <1>4. CASE Status!Start \/ Status!RunEnds \/ Status!TrackingEnds \/ UNCHANGED statusVars
    BY <1>0, <1>4, CacheWritten DEF Status!Start, Status!RunEnds, Status!TrackingEnds, statusVars, Status!state, Status!asking,
       Status!pushing
  <1>5. CASE Status!TriggerEnds
    <2>1. Known(row')
      BY <1>0, <1>5, KnownFromStart DEF Status!TriggerEnds, Status!Write
    <2>2. tracking' \in BOOLEAN /\ trigger' = "idle" /\ lost' \in BOOLEAN
      BY <1>0, <1>5 DEF Status!TriggerEnds
    <2>3. UNCHANGED <<now, changes, link, poll, check, pushed>>
      BY <1>5 DEF Status!TriggerEnds, Status!state, Status!asking
    <2> QED  BY <1>0, <2>1, <2>2, <2>3, CacheWritten
  <1>6. CASE Status!Poll \/ Status!PollRead \/ Status!PollAnswered \/ Status!PollFails
    <2>1. /\ UNCHANGED <<now, changes, link, lost, pushed, check, tracking, trigger>>
          /\ poll' \in {Status!Asked, Status!Answered(now), Status!Idle}
      BY <1>6 DEF Status!Poll, Status!PollRead, Status!PollAnswered, Status!PollFails, Status!state, Status!pushing
    <2>2. Requested(poll')
      BY <1>0, <2>1, Stages DEF Requested
    <2>3. poll.stage = "answered" => Known(poll.data)
      BY <1>0, Stages DEF Requested
    <2>4. Known(row')
      BY <1>0, <1>6, <2>3
         DEF Status!Poll, Status!PollRead, Status!PollAnswered, Status!PollFails, Status!Write
    <2> QED  BY <1>0, <2>1, <2>2, <2>4, CacheWritten
  <1>7. CASE Status!CheckRead \/ Status!CheckAnswered \/ Status!CheckFails
    <2>1. /\ UNCHANGED <<now, changes, link, pushed, poll, tracking, trigger>> /\ lost' \in BOOLEAN
          /\ check' \in {Status!Answered(now), Status!Idle}
      BY <1>0, <1>7 DEF Status!CheckRead, Status!CheckAnswered, Status!CheckFails, Status!state, Status!pushing
    <2>2. Requested(check')
      BY <1>0, <2>1, Stages DEF Requested
    <2>3. check.stage = "answered" => Known(check.data)
      BY <1>0, Stages DEF Requested
    <2>4. Known(row')
      BY <1>0, <1>7, <2>3 DEF Status!CheckRead, Status!CheckAnswered, Status!CheckFails, Status!Write
    <2> QED  BY <1>0, <2>1, <2>2, <2>4, CacheWritten
  <1>8. CASE Status!Push
    <2>1. /\ pushed # <<>> /\ pushed' = Tail(pushed) /\ row' \in {Head(pushed), row}
          /\ UNCHANGED <<now, changes, link, lost, poll, check, tracking, trigger>>
      BY <1>8 DEF Status!Push, Status!Write, Status!state, Status!asking
    <2>2. Len(pushed) >= 1 /\ Head(pushed) = pushed[1] /\ Head(pushed) \in States
      BY <1>0, <2>1
    <2>3. Known(row')
      BY <1>0, <2>1, <2>2 DEF Known
    <2>4. pushed' \in Seq(States) /\ \A i \in 1..Len(pushed') : pushed'[i].at <= changes
      <3>1. /\ pushed' \in Seq(States) /\ Len(pushed') = Len(pushed) - 1
            /\ \A i \in 1..Len(pushed') : pushed'[i] = pushed[i + 1]
        BY <1>0, <2>1, <2>2
      <3> QED  BY <1>0, <3>1
    <2> QED  BY <1>0, <2>1, <2>3, <2>4, CacheWritten
  <1>9. CASE Status!Disconnect \/ Status!Reconnect
    <2>1. /\ UNCHANGED <<now, changes, row, poll, tracking, trigger>> /\ lost' \in BOOLEAN
          /\ check' \in {check, Status!Asked} /\ link' \in {"open", "connecting"} /\ pushed' \in {pushed, <<>>}
      BY <1>0, <1>9 DEF Status!Disconnect, Status!Reconnect, Status!state, Status!asking
    <2>2. pushed' \in Seq(States) /\ \A i \in 1..Len(pushed') : pushed'[i].at <= changes
      <3>1. CASE pushed' = pushed
        BY <1>0, <3>1
      <3>2. CASE pushed' = <<>>
        <4>1. pushed' \in Seq(States) /\ Len(pushed') = 0
          BY <3>2
        <4> QED  BY <4>1
      <3> QED  BY <2>1, <3>1, <3>2
    <2> QED  BY <1>0, <2>1, <2>2 DEF StatusInv, Known, Requested
  <1> QED  BY <1>1, <1>2, <1>3, <1>4, <1>5, <1>6, <1>7, <1>8, <1>9 DEF Status!Next

\* Which steps a manual synchronisation begins and ends with.
LEMMA StepRunning == ASSUME running \in BOOLEAN, [Status!Next]_statusVars PROVE running' \in BOOLEAN
  BY DEF Status!Next, statusVars, Status!state, Status!Server, Status!RunEnds, Status!Restart, Status!Start,
     Status!Trigger, Status!TriggerEnds, Status!TrackingEnds, Status!Poll, Status!PollRead,
     Status!PollAnswered, Status!PollFails, Status!Push, Status!Disconnect, Status!Reconnect,
     Status!CheckRead, Status!CheckAnswered, Status!CheckFails

LEMMA StatusTyped == ASSUME StatusInv, running \in BOOLEAN PROVE Status!TypeOK
  BY DEF StatusInv, Known, States, Status!TypeOK

----------------------------------------------------------------------------
(* Both together.                                                          *)

WatchingInv == StatusInv /\ running \in BOOLEAN /\ ViewsInv

LEMMA WatchingSteps ==
    /\ Init => WatchingInv
    /\ WatchingInv /\ [Next]_vars => WatchingInv'
  <1>1. Init => StatusInv /\ ViewsInv
    BY ConstantsAssumption, InitStatus, InitViews DEF Init
  <1>2. Init => running \in BOOLEAN
    BY DEF Init, Status!Init
  <1>3. [Next]_vars => [Status!Next]_statusVars /\ [Views!VNext]_viewVars
    BY DEF Next, vars
  <1>4. WatchingInv /\ [Next]_vars => WatchingInv'
    BY <1>3, ConstantsAssumption, StepStatus, StepRunning, StepViews DEF WatchingInv
  <1> QED  BY <1>1, <1>2, <1>4 DEF WatchingInv

\* The states in the cache, in requests and in the stream have their types,
\* and none is of a change the server has not made.  A query has one request
\* per subject, and no answer is of a version the server has not reached.
THEOREM WatchedTypes == Spec => []TypeOK
  <1>1. WatchingInv => TypeOK
    BY StatusTyped, ViewsTyped DEF TypeOK, WatchingInv
  <1> QED  BY <1>1, WatchingSteps, PTL DEF Spec

\* Nothing in flight and nothing failed: the view shows its own subject, as it
\* was when it was last asked for or later (the queries of the React pages; the
\* plain fetches whose button waits for the answer).
THEOREM QuietViewsAreCurrent == Spec => []QuietViewIsCurrent
  <1>1. WatchingInv => QuietViewIsCurrent
    BY ViewsPromise DEF QuietViewIsCurrent, WatchingInv
  <1> QED  BY <1>1, WatchingSteps, PTL DEF Spec
=============================================================================
