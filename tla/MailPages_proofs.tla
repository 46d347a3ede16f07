-------------------------- MODULE MailPages_proofs --------------------------
(***************************************************************************)
(* The mail page: operations behind an undo window and the open row        *)
(* (MailDesk), the list with its pages and its selection (ListView) and the *)
(* cache (MailCache), for every set of mails and views and every size of   *)
(* a page.                                                                 *)
(***************************************************************************)
EXTENDS MCMailPages, FiniteSetTheorems, TLAPS

----------------------------------------------------------------------------
(* Operations that can be undone, and the open row (MailDesk).             *)

----------------------------------------------------------------------------
(* The pending operation.  While one waits its toast is on the screen, and   *)
(* none of its mails counts as taken back.                                   *)

UndoShape == undo = [pending |-> undo.pending, out |-> undo.out]
PendingIsMeant == undo.pending # None => undo.pending.ids \cap undone = {}
UndoInv == UndoShape /\ PendingHasToast /\ PendingIsMeant

\* What flush does to an operation that waits and to the requests.
LEMMA FlushedFields ==
  ASSUME NEW u, u = [pending |-> u.pending, out |-> u.out]
  PROVE  /\ Flushed(u) = [pending |-> Flushed(u).pending, out |-> Flushed(u).out]
         /\ Flushed(u).pending = None
         /\ Flushed(u).out = IF u.pending = None THEN u.out
                             ELSE u.out \cup {Request(u.pending)}
  <1>1. CASE u.pending = None
    BY <1>1 DEF Flushed
  <1>2. CASE u.pending # None
    BY <1>2 DEF Flushed
  <1> QED  BY <1>1, <1>2

\* What begin does: the operation before is sent, the new one waits.
LEMMA BegunFields ==
  ASSUME NEW u, NEW op, u = [pending |-> u.pending, out |-> u.out]
  PROVE  /\ Begun(u, op) = [pending |-> Begun(u, op).pending, out |-> Begun(u, op).out]
         /\ Begun(u, op).pending = op
         /\ Begun(u, op).out = Flushed(u).out
  <1> DEFINE f == Flushed(u)
  <1>1. f = [pending |-> f.pending, out |-> f.out]
    BY FlushedFields
  <1>2. Begun(u, op) = [f EXCEPT !.pending = op]
    BY DEF Begun
  <1> HIDE DEF f
  <1>3. [f EXCEPT !.pending = op] = [pending |-> op, out |-> f.out]
    BY <1>1
  <1> QED  BY <1>2, <1>3 DEF f

\* The steps that leave the operation, its toast and the undone mails alone.
Browsing ==
    \/ Close \/ Refetch
    \/ \E m \in Mails : Open(m) \/ OtherDevice(m)

LEMMA BrowsingKeeps == ASSUME Browsing PROVE UNCHANGED <<undo, toast, undone>>
  BY DEF Browsing, Close, Refetch, Open, OtherDevice

LEMMA StepKinds == ASSUME Next
  PROVE \/ Browsing \/ Reload \/ ClickUndo \/ CtrlZ \/ ChangeStyle
        \/ \E v \in Folders : SelectView(v)
        \/ \E ids, dest : RunUndoable(ids, dest)
        \/ \E m \in Mails, dest \in Places : MoveDirectly(m, dest)
        \/ \E t : ToastEnds(t)
        \/ \E op \in undo.out, ok \in BOOLEAN : Settle(op, ok)
  BY DEF Next, Operate, Browse, Browsing, RowOperation, BatchOperation, CurrentOperation,
     ToastTimer, OtherToast

\* Flushing the operation that waits, as a change of view and a toast that
\* ends do: it is sent, and nothing that was taken back is.
LEMMA FlushKeeps ==
  ASSUME UndoInv, undo' = Flushed(undo), undone' = undone
  PROVE  UndoInv' /\ SendsNoUndone /\ SendsOrTakesBack
  <1> USE FlushedFields DEF UndoInv, UndoShape
  <1>1. UndoShape' /\ undo'.pending = None
    OBVIOUS
  <1>2. undo'.out = IF undo.pending = None THEN undo.out ELSE undo.out \cup {Request(undo.pending)}
    OBVIOUS
  <1>3. SendsNoUndone
    BY <1>2 DEF SendsNoUndone, PendingIsMeant, Request
  <1>4. SendsOrTakesBack
    BY <1>2 DEF SendsOrTakesBack
  <1> QED  BY <1>1, <1>3, <1>4 DEF PendingHasToast, PendingIsMeant

\* What every step has to show.
StepOK == UndoInv' /\ SendsNoUndone /\ SendsOrTakesBack

LEMMA SameKeeps == ASSUME UndoInv, UNCHANGED <<undo, toast, undone>> PROVE StepOK
  BY DEF StepOK, UndoInv, UndoShape, PendingHasToast, PendingIsMeant, SendsNoUndone, SendsOrTakesBack

\* Taking back: nothing is sent, and what waited is among the undone.
LEMMA RolledBackKeeps == ASSUME UndoInv, RolledBack PROVE StepOK
  <1> USE DEF UndoInv, UndoShape
  <1>1. undo' = [pending |-> None, out |-> undo.out]
    BY DEF RolledBack
  <1>2. undo.pending.ids \subseteq undone'
    BY DEF RolledBack
  <1> QED  BY <1>1, <1>2 DEF StepOK, PendingHasToast, PendingIsMeant, SendsNoUndone, SendsOrTakesBack

\* A toast that ends or is replaced sends the operation that waits; without
\* an undo toast none waits.
LEMMA ShowKeeps == ASSUME UndoInv, NEW t, ShowToast(t), undone' = undone PROVE StepOK
  <1>1. CASE toast.kind = "undo"
    BY <1>1, FlushKeeps DEF ShowToast, Expired, StepOK
  <1>2. CASE toast.kind # "undo"
    BY <1>2 DEF ShowToast, Expired, StepOK, UndoInv, UndoShape, PendingHasToast, PendingIsMeant,
       SendsNoUndone, SendsOrTakesBack
  <1> QED  BY <1>1, <1>2

\* A new operation: the one before it is sent, and the new one too if the
\* toast of the one before is still there.
LEMMA RunKeeps == ASSUME UndoInv, NEW ids, NEW dest, RunUndoable(ids, dest) PROVE StepOK
  <1> DEFINE op == [ids |-> ids, dest |-> dest, reading |-> active]
             b == Begun(undo, op)
  <1>1. /\ b = [pending |-> b.pending, out |-> b.out]
        /\ b.pending = op /\ b.out = Flushed(undo).out
    BY BegunFields DEF UndoInv, UndoShape
  <1>2. b.out = IF undo.pending = None THEN undo.out ELSE undo.out \cup {Request(undo.pending)}
    BY <1>1, FlushedFields DEF UndoInv, UndoShape
  <1>3. toast'.kind = "undo" /\ undone' = undone \ ids
    BY DEF RunUndoable
  <1>4. undo' = Expired(b, toast)
    BY DEF RunUndoable
  <1>5. op.ids = ids /\ Request(op).ids = ids
    BY DEF Request
  <1> HIDE DEF op, b
  <1>6. CASE undo' = b
    <2>1. undo'.pending = op /\ undo'.out = b.out /\ UndoShape'
      BY <1>1, <1>6 DEF UndoShape
    <2>2. UndoInv'
      BY <2>1, <1>3, <1>5 DEF UndoInv, PendingHasToast, PendingIsMeant
    <2>3. SendsNoUndone
      BY <2>1, <1>2, <1>3 DEF SendsNoUndone, UndoInv, PendingIsMeant, Request
    <2>4. SendsOrTakesBack
      BY <2>1, <1>2 DEF SendsOrTakesBack
    <2> QED  BY <2>2, <2>3, <2>4 DEF StepOK
  <1>7. CASE undo' = Flushed(b)
    <2>1. UndoShape' /\ undo'.pending = None /\ undo'.out \subseteq b.out \cup {Request(op)}
                     /\ b.out \subseteq undo'.out
      BY <1>1, <1>7, FlushedFields DEF UndoShape
    <2>2. UndoInv'
      BY <2>1 DEF UndoInv, PendingHasToast, PendingIsMeant
    <2>3. SendsNoUndone
      BY <2>1, <1>2, <1>3, <1>5 DEF SendsNoUndone, UndoInv, PendingIsMeant, Request
    <2>4. SendsOrTakesBack
      BY <2>1, <1>2 DEF SendsOrTakesBack
    <2> QED  BY <2>2, <2>3, <2>4 DEF StepOK
  <1> QED  BY <1>4, <1>6, <1>7 DEF Expired

\* A move without a window for undo.
LEMMA MoveKeeps == ASSUME UndoInv, NEW m, NEW dest, MoveDirectly(m, dest) PROVE StepOK
  <1> USE DEF UndoInv, UndoShape
  <1>1. undo' = [pending |-> undo.pending, out |-> undo.out \cup {[ids |-> {m}, dest |-> dest]}]
    BY DEF MoveDirectly
  <1>2. undone' = undone \ {m} /\ toast' = toast
    BY DEF MoveDirectly
  <1> QED  BY <1>1, <1>2 DEF StepOK, PendingHasToast, PendingIsMeant, SendsNoUndone, SendsOrTakesBack

\* The answer to a request.
LEMMA SettleKeeps == ASSUME UndoInv, NEW op, NEW ok, Settle(op, ok) PROVE StepOK
  <1> USE DEF UndoInv, UndoShape
  <1>1. undo' = [pending |-> undo.pending, out |-> undo.out \ {op}]
    BY DEF Settle
  <1>2. undone' = undone /\ toast' = toast
    BY DEF Settle
  <1> QED  BY <1>1, <1>2 DEF StepOK, PendingHasToast, PendingIsMeant, SendsNoUndone, SendsOrTakesBack

LEMMA ReloadKeeps == ASSUME UndoInv, Reload PROVE StepOK
  <1>1. undo' = [pending |-> None, out |-> {}]
    BY DEF Reload
  <1> QED  BY <1>1 DEF StepOK, UndoInv, UndoShape, PendingHasToast, PendingIsMeant, SendsNoUndone,
              SendsOrTakesBack

\* The two ways to take an operation back, and what they say if there is none.
LEMMA ClickKeeps == ASSUME UndoInv, ClickUndo \/ CtrlZ PROVE StepOK
  <1>1. CASE undo.pending # None
    BY <1>1, RolledBackKeeps DEF ClickUndo, CtrlZ
  <1>2. CASE ClickUndo /\ undo.pending = None
    BY <1>2 DEF ClickUndo, StepOK, UndoInv, UndoShape, PendingHasToast, PendingIsMeant,
       SendsNoUndone, SendsOrTakesBack
  <1>3. CASE CtrlZ /\ undo.pending = None
    BY <1>3, ShowKeeps DEF CtrlZ
  <1> QED  BY <1>1, <1>2, <1>3

\* A change of the view or of the style of the list.
LEMMA ResetKeeps ==
  ASSUME UndoInv, ChangeStyle \/ \E v \in Folders : SelectView(v) PROVE StepOK
  BY FlushKeeps DEF ChangeStyle, SelectView, Reset, StepOK

LEMMA InitUndo == Init => UndoInv
  BY DEF Init, UndoInv, UndoShape, PendingHasToast, PendingIsMeant

LEMMA StepUndo == UndoInv /\ [Next]_vars => StepOK
  <1> SUFFICES ASSUME UndoInv, [Next]_vars PROVE StepOK
    OBVIOUS
  <1>1. CASE UNCHANGED vars
    BY <1>1, SameKeeps DEF vars
  <1>2. CASE Browsing
    BY <1>2, SameKeeps, BrowsingKeeps
  <1>3. ASSUME NEW t, ToastEnds(t) PROVE StepOK
    BY <1>3, ShowKeeps DEF ToastEnds
  <1> QED  BY <1>1, <1>2, <1>3, ReloadKeeps, ClickKeeps, ResetKeeps, RunKeeps, MoveKeeps,
              SettleKeeps, StepKinds

\* Whatever replaced, dismissed or reset the toasts, an operation that waits
\* has one that will send it.
THEOREM PendingShown == Spec => []PendingHasToast
  <1>1. UndoInv /\ [Next]_vars => UndoInv'
    BY StepUndo DEF StepOK
  <1>2. UndoInv => PendingHasToast
    BY DEF UndoInv
  <1> QED  BY <1>1, <1>2, InitUndo, PTL DEF Spec

\* An operation is sent or taken back, and nothing that was taken back is sent
\* unless it is ordered again.
THEOREM OneEnd == Spec => OperationHasOneEnd
  <1>1. UndoInv /\ [Next]_vars => UndoInv' /\ SendsNoUndone /\ SendsOrTakesBack
    BY StepUndo DEF StepOK
  <1> QED  BY <1>1, InitUndo, PTL DEF Spec, OperationHasOneEnd

----------------------------------------------------------------------------
(* The mail that is read.  Every rendering keeps it if the list has it, so   *)
(* that it is among the kept rows before the list loses it.                  *)

ReadIsKept == active \in Visible => active \in kept

\* What a rendering computes, in the words of the model.
LEMMA RenderedKeeps ==
  ASSUME Rendered
  PROVE  /\ view' = view => kept \subseteq kept'
         /\ active' \in Visible' => active' \in kept'
  BY DEF Rendered, NextKept, WithKept, Visible, Raw

\* Every step but another device's and a reload renders.
LEMMA StepRenders == ASSUME Next
  PROVE \/ Rendered \/ Reload
        \/ \E m \in Mails : OtherDevice(m)
  BY DEF Next, Operate, Browse, RowOperation, BatchOperation, CurrentOperation, ToastTimer,
     OtherToast, Close, Refetch, Open, ChangeStyle, SelectView, RunUndoable, MoveDirectly,
     ToastEnds, Settle, ClickUndo, CtrlZ

LEMMA InitRead == ASSUME Init PROVE ReadIsKept
  BY MailsAssumption DEF Init, ReadIsKept, Visible, Raw, WithKept, Listed

LEMMA StepRead == ASSUME ReadIsKept, [Next]_vars PROVE ReadIsKept' /\ KeepsOpenRow
  <1> USE DEF ReadIsKept, KeepsOpenRow
  <1>1. CASE Rendered
    BY <1>1, RenderedKeeps DEF Visible, WithKept
  <1>2. CASE Reload
    BY <1>2 DEF Reload, Visible, Raw, WithKept
  <1>3. CASE UNCHANGED <<rows, hidden, kept, active>>
    BY <1>3 DEF Visible, Raw, WithKept
  <1> QED  BY <1>1, <1>2, <1>3, StepRenders DEF OtherDevice, vars

\* The mail that is read stays on its list.
THEOREM ReadingStays == Spec => OpenRowStays
  <1>1. Init => ReadIsKept
    BY InitRead
  <1>2. ReadIsKept /\ [Next]_vars => ReadIsKept' /\ KeepsOpenRow
    BY StepRead
  <1> QED  BY <1>1, <1>2, PTL DEF Spec, OpenRowStays

----------------------------------------------------------------------------
(* Mails in their order.  The rank of a mail in a set is the number of the   *)
(* mails before it; in a set of n mails each of 0..n-1 is the rank of one.   *)

Before(x, S) == {y \in S : y < x}

LEMMA Ranks ==
  ASSUME NEW S \in SUBSET Nat, IsFiniteSet(S)
  PROVE  /\ Cardinality(S) \in Nat
         /\ \A x \in S : Cardinality(Before(x, S)) \in 0..(Cardinality(S) - 1)
         /\ \A x, y \in S : x < y => Cardinality(Before(x, S)) < Cardinality(Before(y, S))
  <1>1. Cardinality(S) \in Nat
    BY FS_CardinalityType
  <1>2. ASSUME NEW x \in S PROVE Cardinality(Before(x, S)) \in 0..(Cardinality(S) - 1)
    <2>1. Before(x, S) \subseteq S \ {x}
      BY DEF Before
    <2>2. IsFiniteSet(S \ {x}) /\ Cardinality(S \ {x}) = Cardinality(S) - 1
      BY FS_RemoveElement
    <2>3. Cardinality(Before(x, S)) <= Cardinality(S) - 1 /\ Cardinality(Before(x, S)) \in Nat
      BY <2>1, <2>2, FS_Subset, FS_CardinalityType
    <2> QED  BY <1>1, <2>3
  <1>3. ASSUME NEW x \in S, NEW y \in S, x < y
        PROVE  Cardinality(Before(x, S)) < Cardinality(Before(y, S))
    <2>0. x \in Nat /\ y \in Nat /\ \A z \in S : z \in Nat
      OBVIOUS
    <2>1. Before(x, S) \cup {x} \subseteq Before(y, S) /\ x \notin Before(x, S)
      <3>1. \A z \in S : z < x => z < y
        BY <1>3, <2>0
      <3>2. Before(x, S) \subseteq Before(y, S) /\ {x} \subseteq Before(y, S)
        BY <1>3, <3>1 DEF Before
      <3>3. x \notin Before(x, S)
        BY <2>0 DEF Before
      <3> QED  BY <3>2, <3>3
    <2>2. IsFiniteSet(Before(x, S)) /\ IsFiniteSet(Before(y, S))
      BY FS_Subset DEF Before
    <2>3. Cardinality(Before(x, S) \cup {x}) = Cardinality(Before(x, S)) + 1
      BY <2>1, <2>2, FS_AddElement
    <2>4. Cardinality(Before(x, S) \cup {x}) <= Cardinality(Before(y, S))
      BY <2>1, <2>2, FS_Subset
    <2> QED  BY <2>2, <2>3, <2>4, FS_CardinalityType
  <1> QED  BY <1>1, <1>2, <1>3

RankOf(S) == [x \in S |-> Cardinality(Before(x, S))]

LEMMA RankBijects ==
  ASSUME NEW S \in SUBSET Nat, IsFiniteSet(S)
  PROVE  \A k \in 0..(Cardinality(S) - 1) : \E x \in S : Cardinality(Before(x, S)) = k
  <1> DEFINE R == 0..(Cardinality(S) - 1)
  <1>1. IsFiniteSet(R) /\ Cardinality(R) = Cardinality(S)
    <2>1. Cardinality(S) \in Nat
      BY FS_CardinalityType
    <2>2. 0 \in Int /\ Cardinality(S) - 1 \in Int
      BY <2>1
    <2>3. IsFiniteSet(R) /\ Cardinality(R) = IF 0 > Cardinality(S) - 1 THEN 0 ELSE Cardinality(S) - 1 - 0 + 1
      BY <2>2, FS_Interval
    <2> QED  BY <2>1, <2>3
  <1>2. RankOf(S) \in [S -> R]
    BY Ranks DEF RankOf
  <1>3. \A x, y \in S : RankOf(S)[x] = RankOf(S)[y] => x = y
    <2> SUFFICES ASSUME NEW x \in S, NEW y \in S, x # y PROVE RankOf(S)[x] # RankOf(S)[y]
      OBVIOUS
    <2>1. x < y \/ y < x
      OBVIOUS
    <2> QED  BY <2>1, Ranks DEF RankOf
  <1>4. RankOf(S) \in Injection(S, R)
    BY <1>2, <1>3 DEF Injection, IsInjective
  <1>5. RankOf(S) \in Surjection(S, R)
    BY <1>1, <1>4, FS_Injection
  <1>6. \A k \in R : \E x \in S : RankOf(S)[x] = k
    BY <1>5 DEF Surjection
  <1> QED  BY <1>6 DEF RankOf

\* A set of mails that is not empty has a first and a last one.
LEMMA Ends ==
  ASSUME NEW S \in SUBSET Mails, S # {}
  PROVE  /\ Last(S) \in S /\ \A y \in S : y <= Last(S)
         /\ Min(S) \in S /\ Max(S) \in S
  <1>1. S \in SUBSET Nat /\ IsFiniteSet(S)
    BY MailsAssumption, FS_Subset
  <1>2. Cardinality(S) \in Nat /\ Cardinality(S) # 0
    BY <1>1, FS_CardinalityType, FS_EmptySet
  <1>3. PICK x \in S : Cardinality(Before(x, S)) = Cardinality(S) - 1
    BY <1>1, <1>2, RankBijects
  <1>4. \A y \in S : y <= x
    <2>1. Before(x, S) \subseteq S \ {x}
      BY <1>1 DEF Before
    <2>2. IsFiniteSet(S \ {x}) /\ Cardinality(S \ {x}) = Cardinality(S) - 1
      BY <1>1, FS_RemoveElement
    <2>3. Before(x, S) = S \ {x}
      BY <1>3, <2>1, <2>2, FS_Subset
    <2> QED  BY <1>1, <2>3 DEF Before
  <1>5. PICK z \in S : Cardinality(Before(z, S)) = 0
    BY <1>1, <1>2, RankBijects
  <1>6. \A y \in S : z <= y
    <2>1. IsFiniteSet(Before(z, S))
      BY <1>1, FS_Subset DEF Before
    <2>2. Before(z, S) = {}
      BY <1>5, <2>1, FS_EmptySet
    <2> QED  BY <1>1, <2>2 DEF Before
  <1> QED  BY <1>4, <1>6 DEF Last, Min, Max

\* The first n rows of a list are n, or all.
LEMMA FirstRows ==
  ASSUME NEW S \in SUBSET Mails, NEW n \in Nat
  PROVE  /\ First(n, S) \subseteq S /\ IsFiniteSet(First(n, S)) /\ IsFiniteSet(S)
         /\ Cardinality(S) \in Nat
         /\ n <= Cardinality(S) => Cardinality(First(n, S)) = n
         /\ n >= Cardinality(S) => First(n, S) = S
  <1>1. S \in SUBSET Nat /\ IsFiniteSet(S)
    BY MailsAssumption, FS_Subset
  <1>2. First(n, S) = {x \in S : Cardinality(Before(x, S)) < n}
    BY DEF First, Before
  <1>3. IsFiniteSet(First(n, S))
    BY <1>1, <1>2, FS_Subset
  <1>6. /\ Cardinality(S) \in Nat
        /\ \A x \in S : Cardinality(Before(x, S)) \in 0..(Cardinality(S) - 1)
    BY <1>1, Ranks
  <1>4. ASSUME n <= Cardinality(S) PROVE Cardinality(First(n, S)) = n
    <2> DEFINE T == First(n, S)
               R == 0..(n - 1)
               f == [x \in T |-> Cardinality(Before(x, S))]
    <2>1. f \in [T -> R]
      <3>1. \A x \in T : Cardinality(Before(x, S)) \in R
        BY <1>2, <1>6
      <3> QED  BY <3>1
    <2>2. \A x, y \in T : f[x] = f[y] => x = y
      <3> SUFFICES ASSUME NEW x \in T, NEW y \in T, x # y PROVE f[x] # f[y]
        OBVIOUS
      <3>1. x \in S /\ y \in S /\ x \in Nat /\ y \in Nat
        BY <1>1, <1>2
      <3>2. x < y \/ y < x
        BY <3>1
      <3> QED  BY <1>1, <3>1, <3>2, Ranks
    <2>3. \A k \in R : \E x \in T : f[x] = k
      <3> SUFFICES ASSUME NEW k \in R PROVE \E x \in T : f[x] = k
        OBVIOUS
      <3>1. k \in 0..(Cardinality(S) - 1) /\ k < n
        BY <1>1, <1>4, Ranks
      <3>2. PICK x \in S : Cardinality(Before(x, S)) = k
        BY <1>1, <3>1, RankBijects
      <3> QED  BY <1>2, <3>1, <3>2
    <2>4. f \in Injection(T, R) /\ f \in Surjection(T, R)
      BY <2>1, <2>2, <2>3 DEF Injection, IsInjective, Surjection
    <2>5. IsFiniteSet(R) /\ Cardinality(R) = n
      BY FS_Interval
    <2> HIDE DEF T, R, f
    <2>6. Cardinality(T) = Cardinality(R)
      BY <2>4, <2>5, FS_Injection
    <2> QED  BY <2>5, <2>6 DEF T
  <1>5. ASSUME n >= Cardinality(S) PROVE First(n, S) = S
    <2>1. \A x \in S : Cardinality(Before(x, S)) < n
      BY <1>5, <1>6
    <2> QED  BY <1>2, <2>1
  <1> QED  BY <1>1, <1>2, <1>3, <1>4, <1>5, FS_CardinalityType

\* What comes before one of them is among them.
LEMMA FirstIsPrefix ==
  ASSUME NEW S \in SUBSET Mails, NEW n \in Nat, NEW x \in First(n, S), NEW y \in S, y <= x
  PROVE  y \in First(n, S)
  <1>1. S \in SUBSET Nat /\ IsFiniteSet(S) /\ x \in S
    BY MailsAssumption, FS_Subset DEF First
  <1>2. /\ Cardinality(Before(x, S)) \in Nat /\ Cardinality(Before(y, S)) \in Nat
        /\ y < x => Cardinality(Before(y, S)) < Cardinality(Before(x, S))
    BY <1>1, Ranks
  <1>3. Cardinality(Before(x, S)) < n
    BY DEF First, Before
  <1>4. Cardinality(Before(y, S)) < n
    <2>1. CASE y < x
      BY <1>2, <1>3, <2>1
    <2>2. CASE y = x
      BY <1>3, <2>2
    <2> QED  BY <1>1, <2>1, <2>2
  <1> QED  BY <1>4 DEF First, Before

LEMMA NextRowsAreMails == ASSUME match \subseteq Mails PROVE NextRows \subseteq Mails
  BY DEF NextRows, First

----------------------------------------------------------------------------
(* What the pages of a query hold.                                          *)

LEMMA WholePages ==
  ASSUME NEW n \in Nat \ {0}, NEW g, g = n * PageSize
  PROVE  /\ g \in Nat /\ g \div PageSize = n /\ g % PageSize = 0
         /\ (n - 1) * PageSize \in Nat /\ (n - 1) * PageSize = g - PageSize
  BY ListAssumption

LEMMA FewPages ==
  ASSUME NEW g \in Nat PROVE g \div PageSize \in Nat
  BY ListAssumption

\* The query after its pages were fetched anew: it holds mails of the list, in
\* one page or more, and says that there are no more only if there are none.
LEMMA FetchedPages ==
  ASSUME NEW n \in Nat \ {0}, NEW all \in SUBSET Mails, Fetched(n, all), viewed \in Views
  PROVE  /\ loaded' \subseteq Mails /\ tail' \subseteq loaded' /\ pages' \in Nat \ {0} /\ load' = "idle"
         /\ cursor' \in loaded' \cup {None} /\ (cursor' # None => viewed \in Words)
         /\ cursor' # None => \A x \in loaded' : x <= cursor'
         /\ \A m \in all : m \in loaded' \/ \A x \in loaded' : x < m
         /\ viewed \in FolderViews /\ Cardinality(tail') # PageSize => loaded' = all
         /\ viewed \in Words /\ cursor' = None /\ loaded' # {} => \A m \in all : m <= Last(loaded')
  <1> DEFINE got == First(n * PageSize, all)
             full == Cardinality(got) \div PageSize
             short == \/ Cardinality(got) % PageSize # 0 \/ full = 0
                      \/ viewed \in FolderViews /\ full < n
             count == IF short THEN full + 1 ELSE full
  <1>1. /\ loaded' = got /\ pages' = count /\ tail' = got \ First((count - 1) * PageSize, got)
        /\ cursor' = CursorAfter(got, all) /\ load' = "idle"
    BY DEF Fetched
  <1>2. n * PageSize \in Nat /\ PageSize \in Nat \ {0}
    BY WholePages, ListAssumption
  <1>3. /\ got \subseteq all /\ IsFiniteSet(got) /\ Cardinality(all) \in Nat
        /\ n * PageSize <= Cardinality(all) => Cardinality(got) = n * PageSize
        /\ n * PageSize >= Cardinality(all) => got = all
    BY <1>2, FirstRows
  <1>4. Cardinality(got) \in Nat /\ full \in Nat
    BY <1>3, FS_CardinalityType, FewPages
  <1>5. count \in Nat \ {0}
    BY <1>4
  <1>9. ASSUME NEW m \in all, m \notin got, NEW x \in got PROVE x < m
    <2>1. ~(m <= x)
      BY <1>2, <1>9, FirstIsPrefix
    <2>2. m \in Nat /\ x \in Nat
      BY <1>3, MailsAssumption
    <2> QED  BY <2>1, <2>2
  <1>6. /\ cursor' \in got \cup {None} /\ (cursor' # None => viewed \in Words)
        /\ cursor' # None => \A x \in got : x <= cursor'
    <2>1. got # {} => Last(got) \in got /\ \A x \in got : x <= Last(got)
      BY <1>3, Ends
    <2> QED  BY <1>1, <2>1 DEF CursorAfter
  <1>7. ASSUME viewed \in FolderViews, got # all PROVE Cardinality(tail') = PageSize
    <2>1. n * PageSize < Cardinality(all) /\ Cardinality(got) = n * PageSize
      BY <1>2, <1>3, <1>7
    <2>2. full = n /\ Cardinality(got) % PageSize = 0
      BY <2>1, WholePages
    <2>3. count = n
      BY <2>2
    <2>4. (n - 1) * PageSize \in Nat /\ (n - 1) * PageSize = Cardinality(got) - PageSize
      BY <2>1, WholePages
    <2>5. got \in SUBSET Mails
      BY <1>3
    <2> DEFINE k == (n - 1) * PageSize
    <2>6. tail' = got \ First(k, got)
      BY <1>1, <2>3
    <2>7. k \in Nat /\ k <= Cardinality(got) /\ Cardinality(got) - k = PageSize
      BY <1>2, <1>4, <2>4
    <2> HIDE DEF k, got
    <2>8. First(k, got) \subseteq got /\ Cardinality(First(k, got)) = k
      BY <2>5, <2>7, FirstRows
    <2>9. got \cap First(k, got) = First(k, got)
      BY <2>8
    <2>10. Cardinality(got \ First(k, got)) = Cardinality(got) - Cardinality(got \cap First(k, got))
      BY <1>3, FS_Difference
    <2> QED  BY <2>6, <2>7, <2>8, <2>9, <2>10
  <1>8. ASSUME viewed \in Words, cursor' = None, got # {} PROVE \A m \in all : m <= Last(got)
    <2>1. Last(got) \in got /\ Last(got) \in Mails
      BY <1>3, <1>8, Ends
    <2>2. ~(\E m \in all : m > Last(got))
      BY <1>1, <1>8, <2>1, MailsAssumption DEF CursorAfter
    <2>3. \A m \in all : m \in Nat /\ Last(got) \in Nat
      BY <2>1, MailsAssumption
    <2> QED  BY <2>2, <2>3
  <1> HIDE DEF got, count
  <1> QED  BY <1>1, <1>3, <1>5, <1>6, <1>7, <1>8, <1>9

----------------------------------------------------------------------------
(* The type of the list's state (ListView).                                 *)

Requested(l) == l \in {"first", "firstfailed", "cancelled"}

LEMMA RequestStates ==
  ASSUME NEW l \in LoadStates
  PROVE  /\ Loaded(l) <=> ~Requested(l)
         /\ Cancelled(l) \in LoadStates /\ (Loaded(Cancelled(l)) <=> Loaded(l))
         /\ Invalidated(l) \in LoadStates /\ (Loaded(Invalidated(l)) <=> Loaded(l))
  BY DEF Cancelled, Invalidated, Loaded, Requested, LoadStates

LEMMA InitListTypes == ASSUME ListInit PROVE ListTypeOK
  <1>1. load \in LoadStates /\ ~Loaded(load)
    BY DEF ListInit, LoadStates, Loaded
  <1>2. pages \in Nat /\ ~(pages > 0) /\ guard \in Int
    BY DEF ListInit
  <1>4. trimmed \in BOOLEAN
    BY DEF ListInit
  <1>3. /\ match \subseteq Mails /\ viewed \in Views /\ cursor \in Mails \cup {None}
        /\ openId \in Mails \cup {None} /\ reading \in Mails \cup {None} /\ snap = None
        /\ loaded = {} /\ tail = {} /\ selected = {} /\ shown = {} /\ keptMsgs = {}
        /\ hiddenIds = {} /\ pending = {} /\ removing = {}
    BY DEF ListInit
  <1> QED  BY <1>1, <1>2, <1>3, <1>4 DEF ListTypeOK

\* The number of the rows on the screen.
LEMMA RowsCount == ASSUME ListTypeOK PROVE OnScreen \subseteq Mails /\ Cardinality(OnScreen) \in Nat
  <1>1. OnScreen \subseteq Mails
    BY DEF ListTypeOK, OnScreen, WithKept
  <1> QED  BY <1>1, MailsAssumption, FS_Subset, FS_CardinalityType

\* What is drawn are mails.
LEMMA DrawnTypes ==
  ASSUME NEW old, DrawnSince(old), old \subseteq Mails, keptMsgs \subseteq Mails, loaded' \subseteq Mails
  PROVE  keptMsgs' \subseteq Mails /\ shown' \subseteq Mails
  <1>1. keptMsgs' \subseteq Mails
    BY DEF DrawnSince, NextKept
  <1>2. OnScreen' \subseteq Mails
    BY <1>1 DEF OnScreen, WithKept
  <1> QED  BY <1>1, <1>2 DEF DrawnSince

\* Steps that change neither the query nor the operations.
LEMMA ViewTypes ==
  ASSUME ListTypeOK, UNCHANGED <<viewed, query, guard, acts>>, match' \subseteq Mails,
         selected' \subseteq Mails, openId' \in Mails \cup {None}, Drawn \/ UNCHANGED drawn
  PROVE  ListTypeOK'
  <1>1. keptMsgs' \subseteq Mails /\ shown' \subseteq Mails
    BY DrawnTypes DEF ListTypeOK, Drawn, drawn, query, held
  <1> QED  BY <1>1 DEF ListTypeOK, query, held, acts, waiting, sending

LEMMA FetchTypes ==
  ASSUME ListTypeOK, NEW n \in Nat \ {0}, Fetched(n, match), Drawn,
         UNCHANGED <<match, viewed, guard, selected, openId, acts>>
  PROVE  ListTypeOK'
  <1>1. /\ loaded' \subseteq Mails /\ tail' \subseteq loaded' /\ pages' \in Nat /\ pages' > 0
        /\ cursor' \in Mails \cup {None}
        /\ load' \in LoadStates /\ Loaded(load')
    BY FetchedPages DEF ListTypeOK, LoadStates, Loaded
  <1>3. trimmed' \in BOOLEAN
    BY DEF Fetched
  <1>2. keptMsgs' \subseteq Mails /\ shown' \subseteq Mails
    BY <1>1, DrawnTypes DEF ListTypeOK, Drawn
  <1> QED  BY <1>1, <1>2, <1>3 DEF ListTypeOK, acts, waiting, sending

\* Steps of the requests that fetch nothing.
LEMMA RequestTypes ==
  ASSUME ListTypeOK,
         \/ FirstPageFails \/ RetryFirst \/ ListRefetch \/ RefetchFails
         \/ AutoLoad \/ NextPageFails \/ RetryNextPage
  PROVE  ListTypeOK'
  <1>1. /\ UNCHANGED <<match, viewed, loaded, pages, tail, cursor, trimmed, snap, selected, openId, hiddenIds,
                       pending, reading, removing, keptMsgs, shown>>
        /\ guard' \in Int /\ load' \in LoadStates
        /\ Loaded(load') <=> Loaded(load)
    BY RowsCount
       DEF FirstPageFails, RetryFirst, ListRefetch, RefetchFails, AutoLoad, ShouldLoadMore, NextPageFails,
           RetryNextPage, Invalidated, ListTypeOK, LoadStates, Loaded, held, acts, waiting, sending, drawn
  <1> QED  BY <1>1 DEF ListTypeOK

LEMMA NextPageTypes == ASSUME ListTypeOK, NextPage PROVE ListTypeOK'
  <1>1. NextRows \subseteq Mails
    BY NextRowsAreMails DEF ListTypeOK
  <1>2. cursor' \in Mails \cup {None}
    <2>1. NextRows # {} => Last(NextRows) \in NextRows
      BY <1>1, Ends
    <2> QED  BY <1>1, <2>1 DEF NextPage, CursorAfter
  <1>3. /\ loaded' = loaded \cup NextRows /\ tail' = NextRows /\ pages' = pages + 1
        /\ trimmed' = FALSE /\ load' = "idle" /\ Drawn
        /\ UNCHANGED <<match, viewed, guard, selected, openId, hiddenIds, pending, reading, removing, snap>>
    BY DEF NextPage, acts, waiting, sending
  <1>4. loaded' \subseteq Mails /\ load' \in LoadStates /\ Loaded(load') /\ pages' \in Nat /\ pages' > 0
    BY <1>1, <1>3 DEF ListTypeOK, LoadStates, Loaded
  <1>5. keptMsgs' \subseteq Mails /\ shown' \subseteq Mails
    BY <1>3, <1>4, DrawnTypes DEF ListTypeOK, Drawn
  <1> QED  BY <1>1, <1>2, <1>3, <1>4, <1>5 DEF ListTypeOK

\* The next row that stays is a mail, if there is one.
LEMMA AdvancedTypes == ASSUME ListTypeOK, NEW ids PROVE AdvanceFrom(ids) \in Mails \cup {None}
  <1> DEFINE later == {m \in OnScreen \ ids : m > openId}
             earlier == {m \in OnScreen \ ids : m < openId}
  <1>1. later \in SUBSET Mails /\ earlier \in SUBSET Mails
    BY RowsCount
  <1>2. earlier # {} => Last(earlier) \in Mails
    BY <1>1, Ends
  <1>3. later # {} => (CHOOSE m \in later : \A x \in later : m <= x) \in Mails
    <2>1. later # {} => Min(later) \in Mails
      BY <1>1, Ends
    <2> QED  BY <2>1 DEF Min
  <1>4. openId \in Mails \cup {None}
    BY DEF ListTypeOK
  <1> HIDE DEF later, earlier
  <1>5. AdvanceFrom(ids) = CASE openId \notin ids \cap OnScreen -> openId
          [] later # {} -> CHOOSE m \in later : \A x \in later : m <= x
          [] earlier # {} -> Last(earlier)
          [] OTHER -> None
    BY DEF AdvanceFrom, later, earlier
  <1> QED  BY <1>2, <1>3, <1>4, <1>5

\* An operation begins, or is taken back.
LEMMA WaitingTypes ==
  ASSUME ListTypeOK, UNCHANGED <<match, viewed, query, guard, sending>>, Drawn,
         selected' \subseteq Mails, openId' \in Mails \cup {None}, reading' \in Mails \cup {None},
         hiddenIds' \subseteq Mails, pending' \subseteq hiddenIds'
  PROVE  ListTypeOK'
  <1>1. keptMsgs' \subseteq Mails /\ shown' \subseteq Mails
    BY DrawnTypes DEF ListTypeOK, Drawn, query, held
  <1> QED  BY <1>1 DEF ListTypeOK, query, held, sending

LEMMA RemoveTypes == ASSUME ListTypeOK, NEW ids \in SUBSET Mails, Remove(ids) PROVE ListTypeOK'
  <1>1. openId' \in Mails \cup {None}
    BY AdvancedTypes DEF Remove
  <1>2. /\ selected' \subseteq Mails /\ reading' \in Mails \cup {None}
        /\ hiddenIds' \subseteq Mails /\ pending' \subseteq hiddenIds'
    BY DEF Remove, AfterOperation, ListTypeOK
  <1> QED  BY <1>1, <1>2, WaitingTypes DEF Remove

LEMMA UndoTypes == ASSUME ListTypeOK, Undo PROVE ListTypeOK'
  <1>1. /\ selected' \subseteq Mails /\ reading' \in Mails \cup {None} /\ openId' \in Mails \cup {None}
        /\ hiddenIds' \subseteq Mails /\ pending' \subseteq hiddenIds'
    BY DEF Undo, ListTypeOK
  <1> QED  BY <1>1, WaitingTypes DEF Undo

LEMMA PagesAreSnapshots == ASSUME ListTypeOK, pages > 0 PROVE Pages \in Snapshots
  BY DEF ListTypeOK, Pages, Snapshots

LEMMA SendTypes == ASSUME ListTypeOK, Send PROVE ListTypeOK'
  <1>1. load' \in LoadStates /\ (Loaded(load') <=> Loaded(load))
    BY RequestStates DEF Send, ListTypeOK
  <1>2. snap' \in Snapshots \cup {None} /\ (snap' # None => pages > 0)
    BY PagesAreSnapshots DEF Send, ListTypeOK
  <1>3. trimmed' \in BOOLEAN
    BY DEF Send, ListTypeOK
  <1>4. loaded' \subseteq Mails
    BY DEF Send, ListTypeOK
  <1>5. keptMsgs' \subseteq Mails /\ shown' \subseteq Mails
    BY <1>4, DrawnTypes DEF Send, Drawn, ListTypeOK
  <1> QED  BY <1>1, <1>2, <1>3, <1>4, <1>5 DEF Send, ListTypeOK

LEMMA RemovedTypes == ASSUME ListTypeOK, NEW ok \in BOOLEAN, Removed(ok) PROVE ListTypeOK'
  <1> DEFINE back == IF ok \/ snap = None THEN Pages ELSE snap
  <1>1. load' \in LoadStates /\ (Loaded(load') <=> Loaded(load))
    BY RequestStates DEF Removed, ListTypeOK
  <1>2. /\ loaded' = back.loaded /\ pages' = back.pages /\ tail' = back.tail
        /\ cursor' = back.cursor /\ trimmed' = back.trimmed
    BY DEF Removed
  <1>3. CASE ok \/ snap = None
    <2>1. UNCHANGED <<loaded, pages, tail, cursor, trimmed>>
      BY <1>2, <1>3 DEF Pages
    <2>2. keptMsgs' \subseteq Mails /\ shown' \subseteq Mails
      BY <2>1, DrawnTypes DEF Removed, Drawn, ListTypeOK
    <2> QED  BY <1>1, <2>1, <2>2 DEF Removed, ListTypeOK, waiting
  <1>4. CASE ~ok /\ snap # None
    <2>1. snap \in Snapshots /\ pages > 0 /\ Loaded(load)
      BY <1>4 DEF ListTypeOK
    <2>2. /\ loaded' = snap.loaded /\ pages' = snap.pages /\ tail' = snap.tail
          /\ cursor' = snap.cursor /\ trimmed' = snap.trimmed
      BY <1>2, <1>4
    <2>3. /\ loaded' \subseteq Mails /\ pages' \in Nat /\ pages' > 0 /\ tail' \subseteq loaded'
          /\ cursor' \in Mails \cup {None} /\ trimmed' \in BOOLEAN
      BY <2>1, <2>2 DEF Snapshots
    <2>4. keptMsgs' \subseteq Mails /\ shown' \subseteq Mails
      BY <2>3, DrawnTypes DEF Removed, Drawn, ListTypeOK
    <2> HIDE DEF back
    <2> QED  BY <1>1, <2>1, <2>3, <2>4 DEF Removed, ListTypeOK, waiting
  <1> QED  BY <1>3, <1>4

LEMMA ChangeViewTypes == ASSUME ListTypeOK, NEW v \in Views, ChangeView(v) PROVE ListTypeOK'
  <1>1. load' \in LoadStates /\ ~Loaded(load')
    BY DEF ChangeView, Cancelled, Loaded, LoadStates
  <1>2. /\ match' \subseteq Mails /\ viewed' \in Views /\ loaded' = {} /\ pages' = 0 /\ tail' = {}
        /\ cursor' = None /\ snap' = None /\ selected' = {} /\ hiddenIds' = {}
        /\ pending' = {} /\ reading' = None /\ removing' \subseteq Mails /\ openId' \in Mails \cup {None}
    BY DEF ChangeView, ResetSelection, ListTypeOK
  <1>3. guard' \in Int
    BY DEF ChangeView, ListTypeOK
  <1>4. keptMsgs' \subseteq Mails /\ shown' \subseteq Mails
    BY <1>2, DrawnTypes DEF ChangeView, ListTypeOK
  <1>5. ~(pages' > 0) /\ pages' \in Nat
    BY <1>2
  <1>6. trimmed' \in BOOLEAN
    BY DEF ChangeView
  <1> QED  BY <1>1, <1>2, <1>3, <1>4, <1>5, <1>6 DEF ListTypeOK

LEMMA StepListTypes == ASSUME ListTypeOK, [ListNext]_listVars PROVE ListTypeOK'
  <1>1. CASE FirstPage \/ Refetched
    <2>1. PICK n \in Nat \ {0} : Fetched(n, match)
      BY <1>1 DEF FirstPage, Refetched, ListTypeOK, Loaded
    <2> QED  BY <1>1, <2>1, FetchTypes DEF FirstPage, Refetched
  <1>2. CASE ToggleCurrent \/ ClearSelection \/ UNCHANGED listVars
    <2>1. /\ UNCHANGED <<match, viewed, query, guard, acts, openId, drawn>>
          /\ selected' \subseteq Mails
      BY <1>2 DEF ToggleCurrent, ClearSelection, listVars, ListTypeOK
    <2> QED  BY <2>1, ViewTypes DEF ListTypeOK
  <1>3. ASSUME NEW m \in Mails, CtrlClick(m) \/ Click(m) \/ Extend(m) PROVE ListTypeOK'
    <2>1. /\ UNCHANGED <<match, viewed, query, guard, acts>> /\ (Drawn \/ UNCHANGED drawn)
          /\ selected' \subseteq Mails /\ openId' \in Mails \cup {None}
      BY <1>3, RowsCount DEF CtrlClick, Click, Extend, ListTypeOK
    <2> QED  BY <2>1, ViewTypes DEF ListTypeOK
  <1>4. ASSUME NEW a \in Mails, NEW m \in Mails, ShiftClick(a, m) PROVE ListTypeOK'
    <2>1. selected' \subseteq Mails
      BY <1>4, RowsCount DEF ShiftClick, Between, ListTypeOK
    <2> QED  BY <1>4, <2>1, ViewTypes DEF ShiftClick, ListTypeOK
  <1>5. ASSUME NEW m \in Mails, Leaves(m) \/ Arrives(m) PROVE ListTypeOK'
    <2>1. match' \subseteq Mails /\ UNCHANGED <<viewed, query, guard, selected, openId, acts, drawn>>
      BY <1>5 DEF Leaves, Arrives, ListTypeOK
    <2> QED  BY <2>1, ViewTypes DEF ListTypeOK
  <1>6. CASE RemoveSelected \/ RemoveCurrent \/ \E m \in Mails : RemoveRow(m)
    <2>1. PICK ids \in SUBSET Mails : Remove(ids)
      BY <1>6 DEF RemoveSelected, RemoveCurrent, RemoveRow, ListTypeOK
    <2> QED  BY <2>1, RemoveTypes
  <1>7. ASSUME NEW S \in SUBSET Mails, SelectBy(S) PROVE ListTypeOK'
    BY <1>7, ViewTypes DEF SelectBy, ListTypeOK
  <1> QED  BY <1>1, <1>2, <1>3, <1>4, <1>5, <1>6, <1>7, RequestTypes, NextPageTypes, UndoTypes, SendTypes,
              RemovedTypes, ChangeViewTypes DEF ListNext

----------------------------------------------------------------------------
(* The selection (ListView).  What can be picked is a row of the screen or   *)
(* the open mail, and both count as shown as soon as they are drawn.         *)

SelInv ==
    /\ OnScreen \subseteq shown
    /\ openId \in Mails => openId \in shown
    /\ SelectionIsSound

LEMMA InitSel == ListInit => SelInv
  BY MailsAssumption DEF ListInit, SelInv, SelectionIsSound, OnScreen, WithKept

\* A view that is drawn shows its rows and the open mail.
LEMMA DrawnShows ==
  ASSUME NEW old, DrawnSince(old), selected' \subseteq old PROVE SelInv'
  BY DEF DrawnSince, SelInv, SelectionIsSound

\* Steps that draw nothing anew.
LEMMA SameShown ==
  ASSUME SelInv, UNCHANGED <<loaded, hiddenIds, openId, drawn>>, selected' \subseteq shown PROVE SelInv'
  BY DEF SelInv, SelectionIsSound, OnScreen, drawn

LEMMA StepSel == ASSUME ListTypeOK, SelInv, [ListNext]_listVars PROVE SelInv'
  <1>0. selected \subseteq shown /\ OnScreen \subseteq shown /\ (openId \in Mails => openId \in shown)
    BY DEF SelInv, SelectionIsSound
  <1> USE DEF query, held, acts, waiting, sending
  <1>1. CASE \/ FirstPage \/ Refetched \/ NextPage \/ Undo \/ Send
             \/ (\E m \in Mails : Click(m)) \/ \E ok \in BOOLEAN : Removed(ok)
    <2>1. DrawnSince(shown) /\ selected' = selected
      BY <1>1 DEF FirstPage, Refetched, NextPage, Undo, Send, Click, Removed, Drawn
    <2> QED  BY <1>0, <2>1, DrawnShows
  <1>2. CASE \/ FirstPageFails \/ RetryFirst \/ ListRefetch \/ RefetchFails
             \/ AutoLoad \/ NextPageFails \/ RetryNextPage
             \/ (\E m \in Mails : Leaves(m) \/ Arrives(m)) \/ UNCHANGED listVars
    <2>1. UNCHANGED <<loaded, hiddenIds, openId, drawn, selected>>
      BY <1>2 DEF FirstPageFails, RetryFirst, ListRefetch, RefetchFails, AutoLoad, NextPageFails, RetryNextPage,
         Leaves, Arrives, listVars
    <2> QED  BY <1>0, <2>1, SameShown
  <1>3. ASSUME NEW v \in Views, ChangeView(v) PROVE SelInv'
    <2>1. DrawnSince({}) /\ selected' = {}
      BY <1>3 DEF ChangeView, ResetSelection
    <2> QED  BY <2>1, DrawnShows
  <1>4. CASE \/ ToggleCurrent \/ ClearSelection \/ (\E m \in Mails : CtrlClick(m))
             \/ (\E a, m \in Mails : ShiftClick(a, m)) \/ \E S \in SUBSET Mails : SelectBy(S)
    <2>1. UNCHANGED <<loaded, hiddenIds, openId, drawn>>
      BY <1>4 DEF ToggleCurrent, ClearSelection, CtrlClick, ShiftClick, SelectBy
    <2>2. openId # None => openId \in shown
      BY <1>0 DEF ListTypeOK
    <2>3. selected' \subseteq shown
      BY <1>0, <1>4, <2>2 DEF ToggleCurrent, ClearSelection, CtrlClick, ShiftClick, SelectBy, Between
    <2> QED  BY <2>1, <2>3, SameShown
  <1>5. ASSUME NEW m \in Mails, Extend(m) PROVE SelInv'
    <2>1. selected' \subseteq shown
      BY <1>0, <1>5 DEF Extend, Neighbours
    <2> QED  BY <1>5, <2>1, DrawnShows DEF Extend, Drawn
  <1>6. CASE RemoveSelected \/ RemoveCurrent \/ \E m \in Mails : RemoveRow(m)
    <2>1. PICK ids : Remove(ids)
      BY <1>6 DEF RemoveSelected, RemoveCurrent, RemoveRow
    <2> QED  BY <1>0, <2>1, DrawnShows DEF Remove, AfterOperation, Drawn
  <1> QED  BY <1>1, <1>2, <1>3, <1>4, <1>5, <1>6 DEF ListNext

\* A batch never reaches a mail that was neither listed nor open in this view
\* and for this word, kept rows among those listed.
THEOREM SelectionSound == ListSpec => []SelectionIsSound
  <1>1. ListInit => ListTypeOK /\ SelInv
    BY InitListTypes, InitSel
  <1>2. ListTypeOK /\ SelInv /\ [ListNext]_listVars => ListTypeOK' /\ SelInv'
    BY StepListTypes, StepSel
  <1>3. SelInv => SelectionIsSound
    BY DEF SelInv
  <1> QED  BY <1>1, <1>2, <1>3, PTL DEF ListSpec

----------------------------------------------------------------------------
(* The end of the list (ListView).  M is the list of the server, L the mails *)
(* that are loaded, c the cursor, X the mails that an operation took away    *)
(* and that the server may still have.                                       *)

\* A mail that is not loaded comes before all that are, or after them.
NoGaps(M, L, X) ==
    \A m \in M : m \in L \/ m \in X \/ (\A x \in L : m < x) \/ (\A x \in L : x < m)

\* The next page of a search begins where the pages end.
CursorIsLast(M, L, c, X) ==
    c # None =>
        /\ \A x \in L : x <= c
        /\ \A m \in M : m <= c => m \in L \/ m \in X \/ \A x \in L : m < x

\* What is held as the end is the end, unless the last page was cut.
HeldEnd(M, v, L, t, c, cut, X) ==
    \/ cut
    \/ IF v \in Words THEN c # None ELSE Cardinality(t) = PageSize
    \/ L = {}
    \/ \A m \in M : m \in X \/ \E x \in L : m <= x

PagesOK(M, v, L, t, c, cut, X) ==
    NoGaps(M, L, X) /\ CursorIsLast(M, L, c, X) /\ HeldEnd(M, v, L, t, c, cut, X)

\* Mails leave the list, or come in before all others.
LEMMA OtherMails ==
  ASSUME NEW M, NEW N, NEW v, NEW L \in SUBSET Mails, NEW t, NEW c, NEW cut, NEW X,
         N \subseteq Mails, PagesOK(M, v, L, t, c, cut, X),
         \A m \in N : m \in M \/ \A x \in L : m < x
  PROVE  PagesOK(N, v, L, t, c, cut, X)
  <1>1. NoGaps(N, L, X)
    BY DEF PagesOK, NoGaps
  <1>2. CursorIsLast(N, L, c, X)
    BY DEF PagesOK, CursorIsLast
  <1>3. ASSUME NEW m \in N, \A x \in L : m < x, L # {} PROVE \E x \in L : m <= x
    <2>1. PICK x \in L : m < x
      BY <1>3
    <2>2. m \in Nat /\ x \in Nat
      BY MailsAssumption
    <2> QED  BY <2>1, <2>2
  <1>4. HeldEnd(N, v, L, t, c, cut, X)
    BY <1>3 DEF PagesOK, HeldEnd
  <1> QED  BY <1>1, <1>2, <1>4 DEF PagesOK

\* An operation takes its mails away.
LEMMA CutPages ==
  ASSUME NEW M \in SUBSET Mails, NEW v \in Views, NEW L \in SUBSET Mails, NEW t, NEW c, NEW cut, NEW P,
         NEW new, ~new => ~cut /\ (v \in FolderViews => t \cap P = {}),
         PagesOK(M, v, L, t, c, cut, {})
  PROVE  PagesOK(M, v, L \ P, t \ P, c, new, P)
  <1>1. NoGaps(M, L \ P, P)
    BY DEF PagesOK, NoGaps
  <1>2. CursorIsLast(M, L \ P, c, P)
    BY DEF PagesOK, CursorIsLast
  <1>3. HeldEnd(M, v, L \ P, t \ P, c, new, P)
    <2> SUFFICES ASSUME ~new, ~(IF v \in Words THEN c # None ELSE Cardinality(t \ P) = PageSize), L \ P # {},
                        NEW m \in M, m \notin P
                 PROVE  \E x \in L \ P : m <= x
      BY DEF HeldEnd
    <2>1. v \notin Words => t \ P = t
      BY DEF Views
    <2>2. PICK x \in L : m <= x
      BY <2>1 DEF PagesOK, HeldEnd
    <2>3. PICK y \in L \ P : TRUE
      OBVIOUS
    <2>4. m \in Nat /\ x \in Nat /\ y \in Nat
      BY MailsAssumption
    <2>5. m \in L \/ (\A z \in L : m < z) \/ (\A z \in L : z < m)
      BY DEF PagesOK, NoGaps
    <2>6. CASE m \in L
      <3>1. m \in L \ P /\ m <= m
        BY <2>4, <2>6
      <3> QED  BY <3>1
    <2>7. CASE \A z \in L : m < z
      <3>1. m <= y
        BY <2>4, <2>7
      <3> QED  BY <3>1
    <2>8. CASE \A z \in L : z < m
      BY <2>2, <2>4, <2>8
    <2> QED  BY <2>5, <2>6, <2>7, <2>8
  <1> QED  BY <1>1, <1>2, <1>3 DEF PagesOK

\* The server has taken them away, too.
LEMMA TakenPages ==
  ASSUME NEW M, NEW v, NEW L, NEW t, NEW c, NEW cut, NEW X, NEW R, X \subseteq R,
         PagesOK(M, v, L, t, c, cut, X)
  PROVE  PagesOK(M \ R, v, L, t, c, cut, {})
  BY DEF PagesOK, NoGaps, CursorIsLast, HeldEnd

LEMMA MorePages ==
  ASSUME NEW M, NEW v, NEW L, NEW t, NEW c, NEW cut, NEW X, PagesOK(M, v, L, t, c, cut, {})
  PROVE  PagesOK(M, v, L, t, c, cut, X)
  BY DEF PagesOK, NoGaps, CursorIsLast, HeldEnd

\* The pages that were fetched anew.
LEMMA FetchedOK ==
  ASSUME NEW n \in Nat \ {0}, match \in SUBSET Mails, viewed \in Views, Fetched(n, match)
  PROVE  PagesOK(match, viewed, loaded', tail', cursor', FALSE, {})
  <1>1. /\ loaded' \subseteq Mails
        /\ \A m \in match : m \in loaded' \/ \A x \in loaded' : x < m
        /\ cursor' # None => cursor' \in loaded' /\ \A x \in loaded' : x <= cursor'
        /\ viewed \in FolderViews /\ Cardinality(tail') # PageSize => loaded' = match
        /\ viewed \in Words /\ cursor' = None /\ loaded' # {} => \A m \in match : m <= Last(loaded')
    BY FetchedPages
  <1> DEFINE L == loaded'
             c == cursor'
  <1>2. NoGaps(match, L, {})
    BY <1>1 DEF NoGaps
  <1>3. CursorIsLast(match, L, c, {})
    <2> SUFFICES ASSUME c # None, NEW m \in match, m <= c PROVE m \in L
      BY <1>1 DEF CursorIsLast
    <2>1. c \in L /\ c \in Nat /\ m \in Nat
      BY <1>1, MailsAssumption
    <2>2. ~(\A x \in L : x < m)
      BY <2>1
    <2> QED  BY <1>1, <2>2
  <1>4. HeldEnd(match, viewed, L, tail', c, FALSE, {})
    <2> SUFFICES ASSUME ~(IF viewed \in Words THEN c # None ELSE Cardinality(tail') = PageSize), L # {},
                        NEW m \in match
                 PROVE  \E x \in L : m <= x
      BY DEF HeldEnd
    <2>1. CASE viewed \in Words
      <3>1. Last(L) \in L
        BY <1>1, Ends
      <3>2. m <= Last(L)
        BY <1>1, <2>1
      <3> QED  BY <3>1, <3>2
    <2>2. CASE viewed \notin Words
      <3>1. m \in L /\ m \in Nat
        BY <1>1, <2>2, MailsAssumption DEF Views
      <3> QED  BY <3>1
    <2> QED  BY <2>1, <2>2
  <1> HIDE DEF L, c
  <1> QED  BY <1>2, <1>3, <1>4 DEF PagesOK, L, c

\* A page is asked for only where there is one, and with a place.
AskedIsMore ==
    load \in {"next", "failed"} =>
        /\ viewed \in FolderViews => tail # {}
        /\ viewed \in Words => cursor # None

\* The mails the pages may lack: those a snapshot would bring back.
Missing == IF snap = None THEN {} ELSE removing

HeldOK == Loaded(load) => PagesOK(match, viewed, loaded, tail, cursor, trimmed, Missing)

SnapOK == snap # None => PagesOK(match, viewed, snap.loaded, snap.tail, snap.cursor, snap.trimmed, {})

OneOperation == pending # {} => removing = {}

EndInv == HeldOK /\ SnapOK /\ AskedIsMore /\ OneOperation

LEMMA InitEnd == ListInit => EndInv
  BY DEF ListInit, EndInv, HeldOK, SnapOK, AskedIsMore, OneOperation, Loaded

\* Steps that leave the pages and the operations as they are.
LEMMA SameEnd ==
  ASSUME ListTypeOK, EndInv, UNCHANGED <<match, viewed, held, sending>>,
         Loaded(load') => Loaded(load),
         load' \in {"next", "failed"} => load \in {"next", "failed"} \/ More,
         pending' # {} => removing = {}
  PROVE  EndInv'
  <1> USE DEF held, sending
  <1>1. HeldOK' /\ SnapOK'
    BY DEF EndInv, HeldOK, SnapOK, Missing
  <1>2. AskedIsMore'
    <2>1. More => AskedIsMore'
      <3>1. More /\ viewed \in FolderViews => tail # {}
        <4>1. More /\ viewed \in FolderViews => Cardinality(tail) = PageSize /\ PageSize # 0
          BY ListAssumption DEF More
        <4> QED  BY <4>1, FS_EmptySet
      <3> QED  BY <3>1 DEF AskedIsMore, More
    <2> QED  BY <2>1 DEF EndInv, AskedIsMore
  <1>3. OneOperation'
    BY DEF OneOperation
  <1> QED  BY <1>1, <1>2, <1>3 DEF EndInv

\* Mails leave or come in.
LEMMA MailsEnd ==
  ASSUME ListTypeOK, EndInv, UNCHANGED <<viewed, query, acts>>, match' \subseteq Mails,
         \A m \in match' : m \in match \/ \A x \in loaded \cup Kept(snap) : m < x
  PROVE  EndInv'
  <1> USE DEF query, held, acts, waiting, sending
  <1>1. HeldOK'
    <2> SUFFICES ASSUME Loaded(load)
                 PROVE  PagesOK(match', viewed, loaded, tail, cursor, trimmed, Missing)
      BY DEF HeldOK, Missing
    <2>1. PagesOK(match, viewed, loaded, tail, cursor, trimmed, Missing)
      BY DEF EndInv, HeldOK
    <2>2. \A m \in match' : m \in match \/ \A x \in loaded : m < x
      OBVIOUS
    <2>3. loaded \in SUBSET Mails
      BY DEF ListTypeOK
    <2> QED  BY <2>1, <2>2, <2>3, OtherMails
  <1>2. SnapOK'
    <2> SUFFICES ASSUME snap # None
                 PROVE  PagesOK(match', viewed, snap.loaded, snap.tail, snap.cursor, snap.trimmed, {})
      BY DEF SnapOK
    <2>1. PagesOK(match, viewed, snap.loaded, snap.tail, snap.cursor, snap.trimmed, {})
      BY DEF EndInv, SnapOK
    <2>2. \A m \in match' : m \in match \/ \A x \in snap.loaded : m < x
      BY DEF Kept
    <2>3. snap.loaded \in SUBSET Mails
      BY DEF ListTypeOK, Snapshots
    <2> QED  BY <2>1, <2>2, <2>3, OtherMails
  <1>3. AskedIsMore' /\ OneOperation'
    BY DEF EndInv, AskedIsMore, OneOperation
  <1> QED  BY <1>1, <1>2, <1>3 DEF EndInv

\* The pages are fetched anew.
LEMMA FetchEnd ==
  ASSUME ListTypeOK, EndInv, NEW n \in Nat \ {0}, Fetched(n, match), UNCHANGED <<match, viewed, acts>>
  PROVE  EndInv'
  <1> USE DEF acts, waiting, sending
  <1>1. PagesOK(match, viewed, loaded', tail', cursor', FALSE, {})
    BY FetchedOK DEF ListTypeOK
  <1>2. PagesOK(match, viewed, loaded', tail', cursor', FALSE, Missing)
    BY <1>1, MorePages
  <1>3. trimmed' = FALSE /\ load' = "idle"
    BY DEF Fetched
  <1>4. HeldOK'
    BY <1>2, <1>3 DEF HeldOK, Missing
  <1>5. SnapOK' /\ AskedIsMore' /\ OneOperation'
    BY <1>3 DEF EndInv, SnapOK, AskedIsMore, OneOperation
  <1> QED  BY <1>4, <1>5 DEF EndInv

\* The next page.
LEMMA NextPageOK ==
  ASSUME ListTypeOK, EndInv, load = "next"
  PROVE  PagesOK(match, viewed, loaded \cup NextRows, NextRows, CursorAfter(NextRows, match), FALSE, Missing)
  <1> DEFINE rest == {m \in match : m > Place}
             L == loaded \cup NextRows
             c == CursorAfter(NextRows, match)
  <1>1. match \subseteq Mails /\ loaded \subseteq Mails /\ tail \subseteq loaded /\ viewed \in Views
    BY DEF ListTypeOK
  <1>2. PagesOK(match, viewed, loaded, tail, cursor, trimmed, Missing)
    BY DEF EndInv, HeldOK, Loaded
  <1>3. NextRows = First(PageSize, rest) /\ rest \in SUBSET Mails /\ PageSize \in Nat \ {0}
    BY <1>1, ListAssumption DEF NextRows
  <1>4. /\ NextRows \subseteq rest /\ Cardinality(rest) \in Nat
        /\ PageSize <= Cardinality(rest) => Cardinality(NextRows) = PageSize
        /\ PageSize >= Cardinality(rest) => NextRows = rest
    BY <1>3, FirstRows
  <1>5. NextRows # {} => Last(NextRows) \in NextRows /\ \A y \in NextRows : y <= Last(NextRows)
    BY <1>3, <1>4, Ends
  <1>6. (\A m \in match : m \in Nat) /\ (\A x \in L : x \in Nat)
    BY <1>1, <1>3, <1>4, MailsAssumption
  <1>7. Place \in Nat
    <2>1. CASE viewed \in Words
      BY <2>1, MailsAssumption DEF EndInv, AskedIsMore, Place, ListTypeOK
    <2>2. CASE viewed \notin Words
      <3>1. tail # {}
        BY <2>2 DEF EndInv, AskedIsMore, ListTypeOK, Views
      <3>2. Last(tail) \in Mails
        BY <1>1, <3>1, Ends
      <3> QED  BY <2>2, <3>2, MailsAssumption DEF Place
    <2> QED  BY <2>1, <2>2
  \* A mail up to the place is loaded, or comes before all that are.
  <1>8. ASSUME NEW m \in match, m <= Place PROVE m \in loaded \/ m \in Missing \/ \A x \in loaded : m < x
    <2>1. CASE viewed \in Words
      BY <1>2, <1>8, <2>1 DEF EndInv, AskedIsMore, Place, PagesOK, CursorIsLast
    <2>2. CASE viewed \notin Words
      <3>1. tail # {}
        BY <2>2 DEF EndInv, AskedIsMore, ListTypeOK, Views
      <3>2. Last(tail) \in loaded /\ Place = Last(tail)
        BY <1>1, <2>2, <3>1, Ends DEF Place
      <3>3. ~(\A x \in loaded : x < m)
        BY <1>6, <1>7, <1>8, <3>2
      <3> QED  BY <1>2, <3>3 DEF PagesOK, NoGaps
    <2> QED  BY <2>1, <2>2
  \* The rows of the next page come after it.
  <1>9. \A x \in NextRows : x > Place /\ x \in Nat
    BY <1>3, <1>4, MailsAssumption
  \* A mail after the place is in the next page or comes after it.
  <1>10. ASSUME NEW m \in match, m > Place, m \notin NextRows PROVE \A x \in NextRows : x < m
    <2> SUFFICES ASSUME NEW x \in NextRows, ~(x < m) PROVE FALSE
      OBVIOUS
    <2>1. m \in rest /\ m <= x
      BY <1>6, <1>9, <1>10
    <2> HIDE DEF rest
    <2>2. m \in First(PageSize, rest)
      BY <1>3, <2>1, FirstIsPrefix
    <2> QED  BY <1>3, <1>10, <2>2
  \* ... and after the mails that are loaded, if it is none of them.
  <1>11. ASSUME NEW m \in match, m > Place, m \notin loaded, m \notin Missing PROVE \A x \in loaded : x < m
    <2>1. CASE viewed \in Words
      <3>1. Place = cursor /\ cursor # None
        BY <2>1 DEF EndInv, AskedIsMore, Place
      <3>2. \A x \in loaded : x <= Place
        BY <1>2, <3>1 DEF PagesOK, CursorIsLast
      <3> QED  BY <1>6, <1>7, <1>11, <3>2
    <2>2. CASE viewed \notin Words
      <3>1. tail # {}
        BY <2>2 DEF EndInv, AskedIsMore, ListTypeOK, Views
      <3>2. Last(tail) \in loaded /\ Place = Last(tail)
        BY <1>1, <2>2, <3>1, Ends DEF Place
      <3>3. ~(\A x \in loaded : m < x)
        BY <1>6, <1>7, <1>11, <3>2
      <3> QED  BY <1>2, <1>11, <3>3 DEF PagesOK, NoGaps
    <2> QED  BY <2>1, <2>2
  <1>12. \A m \in match : m <= Place \/ m > Place
    BY <1>6, <1>7
  <1> HIDE DEF rest
  <1>13. NoGaps(match, L, Missing)
    <2> SUFFICES ASSUME NEW m \in match, m \notin L, m \notin Missing
                 PROVE  (\A x \in L : m < x) \/ (\A x \in L : x < m)
      BY DEF NoGaps
    <2>1. CASE m <= Place
      <3>1. \A x \in loaded : m < x
        BY <1>8, <2>1
      <3>2. \A x \in NextRows : m < x
        BY <1>6, <1>7, <1>9, <2>1
      <3> QED  BY <3>1, <3>2
    <2>2. CASE m > Place
      BY <1>10, <1>11, <2>2
    <2> QED  BY <1>12, <2>1, <2>2
  <1>14. CursorIsLast(match, L, c, Missing)
    <2> SUFFICES ASSUME c # None PROVE CursorIsLast(match, L, c, Missing)
      BY DEF CursorIsLast
    <2>1. /\ viewed \in Words /\ NextRows # {} /\ c = Last(NextRows) /\ c \in NextRows
          /\ \A y \in NextRows : y <= c
      BY <1>5 DEF CursorAfter
    <2>2. c \in Nat /\ c > Place
      BY <1>9, <2>1
    <2>3. Place = cursor /\ cursor # None
      BY <2>1 DEF EndInv, AskedIsMore, Place
    <2>4. ASSUME NEW x \in loaded PROVE x <= c
      <3>1. x <= Place
        BY <1>2, <2>3 DEF PagesOK, CursorIsLast
      <3> QED  BY <1>1, <1>7, <2>2, <3>1, MailsAssumption
    <2>5. ASSUME NEW m \in match, m <= c, m \notin L, m \notin Missing PROVE \A x \in L : m < x
      <3>1. CASE m > Place
        <4>1. c < m
          BY <1>10, <2>1, <2>5, <3>1
        <4> QED  BY <1>6, <2>2, <2>5, <4>1
      <3>2. CASE m <= Place
        <4>1. \A x \in loaded : m < x
          BY <1>8, <2>5, <3>2
        <4>2. \A x \in NextRows : m < x
          BY <1>6, <1>7, <1>9, <3>2
        <4> QED  BY <4>1, <4>2
      <3> QED  BY <1>12, <3>1, <3>2
    <2> QED  BY <2>1, <2>4, <2>5 DEF CursorIsLast
  <1>15. HeldEnd(match, viewed, L, NextRows, c, FALSE, Missing)
    <2> SUFFICES ASSUME ~(IF viewed \in Words THEN c # None ELSE Cardinality(NextRows) = PageSize), L # {},
                        NEW m \in match, m \notin Missing
                 PROVE  \E x \in L : m <= x
      BY DEF HeldEnd
    <2>0. m \in L => \E x \in L : m <= x
      <3>1. m <= m
        BY <1>6
      <3> QED  BY <3>1
    <2>1. CASE viewed \in Words /\ NextRows # {}
      <3>1. Last(NextRows) \in NextRows /\ ~(m > Last(NextRows))
        <4>1. c = None
          BY <2>1
        <4>2. Last(NextRows) \in Mails /\ Last(NextRows) # None
          BY <1>3, <1>4, <1>5, <2>1, MailsAssumption
        <4>3. ~ \E x \in match : x > Last(NextRows)
          BY <2>1, <4>1, <4>2 DEF CursorAfter
        <4> QED  BY <1>5, <2>1, <4>3
      <3>2. Last(NextRows) \in L /\ m <= Last(NextRows)
        BY <1>6, <3>1
      <3> QED  BY <3>2
    <2>2. CASE NextRows = rest
      <3>1. m > Place => m \in L
        BY <2>2 DEF rest
      <3>2. ASSUME m <= Place, m \notin L PROVE \E x \in L : m <= x
        <4>1. \A x \in loaded : m < x
          BY <1>8, <3>2
        <4>2. \A x \in NextRows : m < x
          BY <1>6, <1>7, <1>9, <3>2
        <4>3. PICK x \in L : m < x
          BY <4>1, <4>2
        <4>4. m <= x
          BY <1>6, <4>3
        <4> QED  BY <4>4
      <3> QED  BY <1>12, <2>0, <3>1, <3>2
    <2>3. viewed \notin Words => NextRows = rest
      BY <1>3, <1>4
    <2>4. NextRows = {} => NextRows = rest
      <3>1. NextRows = {} => Cardinality(NextRows) = 0
        BY FS_EmptySet
      <3> QED  BY <1>3, <1>4, <3>1
    <2> QED  BY <2>1, <2>2, <2>3, <2>4
  <1> QED  BY <1>13, <1>14, <1>15 DEF PagesOK

LEMMA NextPageEnd == ASSUME ListTypeOK, EndInv, NextPage PROVE EndInv'
  <1> USE DEF acts, waiting, sending
  <1>1. /\ load = "next" /\ loaded' = loaded \cup NextRows /\ tail' = NextRows /\ load' = "idle"
        /\ cursor' = CursorAfter(NextRows, match) /\ trimmed' = FALSE
        /\ UNCHANGED <<match, viewed, pending, removing, snap>>
    BY DEF NextPage
  <1>2. PagesOK(match, viewed, loaded', tail', cursor', FALSE, Missing)
    BY <1>1, NextPageOK
  <1>3. HeldOK'
    BY <1>1, <1>2 DEF HeldOK, Missing
  <1>4. SnapOK' /\ AskedIsMore' /\ OneOperation'
    BY <1>1 DEF EndInv, SnapOK, AskedIsMore, OneOperation
  <1> QED  BY <1>3, <1>4 DEF EndInv

\* The operation is sent.
LEMMA SendEnd == ASSUME ListTypeOK, EndInv, Send PROVE EndInv'
  <1>1. /\ pending # {} /\ removing = {} /\ removing' = pending /\ pending' = {}
        /\ snap' = IF pages = 0 THEN None ELSE Pages
        /\ loaded' = loaded \ pending /\ tail' = tail \ pending
        /\ trimmed' = (trimmed \/ (viewed \in FolderViews /\ tail \cap pending # {}))
        /\ load' = Cancelled(load)
        /\ UNCHANGED <<match, viewed, cursor>>
    BY DEF Send, EndInv, OneOperation
  <1>2. load \in LoadStates /\ pages \in Nat /\ (Loaded(load) <=> pages > 0)
    BY DEF ListTypeOK
  <1>3. Loaded(load') <=> Loaded(load)
    BY <1>1, <1>2, RequestStates
  <1>4. ASSUME Loaded(load) PROVE /\ PagesOK(match, viewed, loaded, tail, cursor, trimmed, {})
                                  /\ snap' = Pages /\ snap' # None
    <2>1. Missing = {}
      BY <1>1 DEF Missing
    <2>2. Pages \in Snapshots /\ pages # 0
      BY <1>2, <1>4, PagesAreSnapshots
    <2>3. snap' = Pages
      BY <1>1, <2>2
    <2>4. Pages # None
      BY <2>2, SnapshotAssumption
    <2> QED  BY <1>4, <2>1, <2>3, <2>4 DEF EndInv, HeldOK
  <1>5. HeldOK'
    <2> SUFFICES ASSUME Loaded(load) PROVE PagesOK(match, viewed, loaded', tail', cursor, trimmed', pending)
      BY <1>1, <1>3, <1>4 DEF HeldOK, Missing
    <2>1. ~trimmed' => ~trimmed /\ (viewed \in FolderViews => tail \cap pending = {})
      BY <1>1
    <2>2. match \in SUBSET Mails /\ loaded \in SUBSET Mails /\ viewed \in Views
      BY DEF ListTypeOK
    <2>3. PagesOK(match, viewed, loaded \ pending, tail \ pending, cursor, trimmed', pending)
      BY <1>4, <2>1, <2>2, CutPages
    <2> QED  BY <1>1, <2>3
  <1>6. SnapOK'
    <2>1. CASE Loaded(load)
      <3>1. /\ snap'.loaded = loaded /\ snap'.tail = tail /\ snap'.cursor = cursor
            /\ snap'.trimmed = trimmed
        BY <1>4, <2>1 DEF Pages
      <3> QED  BY <1>1, <1>4, <2>1, <3>1 DEF SnapOK
    <2>2. CASE ~Loaded(load)
      BY <1>1, <1>2, <2>2 DEF SnapOK
    <2> QED  BY <2>1, <2>2
  <1>7. AskedIsMore' /\ OneOperation'
    BY <1>1, <1>2 DEF AskedIsMore, OneOperation, Cancelled, Loaded, LoadStates
  <1> QED  BY <1>5, <1>6, <1>7 DEF EndInv

\* The operation ends.
LEMMA RemovedEnd == ASSUME ListTypeOK, EndInv, NEW ok \in BOOLEAN, Removed(ok) PROVE EndInv'
  <1>1. /\ removing' = {} /\ snap' = None /\ load' = Invalidated(load)
        /\ match' = (IF ok THEN match \ removing ELSE match)
        /\ UNCHANGED <<viewed, pending>>
    BY DEF Removed, waiting
  <1>2. Loaded(load') <=> Loaded(load)
    BY <1>1, RequestStates DEF ListTypeOK
  <1>3. SnapOK' /\ AskedIsMore' /\ OneOperation'
    BY <1>1 DEF SnapOK, AskedIsMore, OneOperation, Invalidated
  <1>4. HeldOK'
    <2> SUFFICES ASSUME Loaded(load) PROVE PagesOK(match', viewed, loaded', tail', cursor', trimmed', {})
      BY <1>1, <1>2 DEF HeldOK, Missing
    <2>1. PagesOK(match, viewed, loaded, tail, cursor, trimmed, Missing)
      BY DEF EndInv, HeldOK
    <2>2. ok \/ snap = None => UNCHANGED <<loaded, tail, cursor, trimmed>>
      BY DEF Removed, Pages
    <2>3. CASE ok
      <3>1. Missing \subseteq removing
        BY DEF Missing
      <3>2. PagesOK(match \ removing, viewed, loaded, tail, cursor, trimmed, {})
        BY <2>1, <3>1, TakenPages
      <3> QED  BY <1>1, <2>2, <2>3, <3>2
    <2>4. CASE ~ok /\ snap = None
      <3>1. Missing = {}
        BY <2>4 DEF Missing
      <3> QED  BY <1>1, <2>1, <2>2, <2>4, <3>1
    <2>5. CASE ~ok /\ snap # None
      <3>1. /\ loaded' = snap.loaded /\ tail' = snap.tail /\ cursor' = snap.cursor
            /\ trimmed' = snap.trimmed
        BY <2>5 DEF Removed
      <3> QED  BY <1>1, <2>5, <3>1 DEF EndInv, SnapOK
    <2> QED  BY <2>3, <2>4, <2>5
  <1> QED  BY <1>3, <1>4 DEF EndInv

LEMMA StepEnd == ASSUME ListTypeOK, EndInv, [ListNext]_listVars PROVE EndInv'
  <1>0. match \subseteq Mails /\ OneOperation
    BY DEF ListTypeOK, EndInv
  <1>1. CASE FirstPage \/ Refetched
    <2>1. PICK n \in Nat \ {0} : Fetched(n, match)
      BY <1>1 DEF FirstPage, Refetched, ListTypeOK, Loaded
    <2> QED  BY <1>1, <2>1, FetchEnd DEF FirstPage, Refetched
  <1>2. CASE \/ FirstPageFails \/ RetryFirst \/ ListRefetch \/ RefetchFails
             \/ AutoLoad \/ NextPageFails \/ RetryNextPage
    <2>1. /\ UNCHANGED <<match, viewed, held, acts>>
          /\ Loaded(load') => Loaded(load)
          /\ load' \in {"next", "failed"} => load \in {"next", "failed"} \/ More
      BY <1>2 DEF FirstPageFails, RetryFirst, ListRefetch, RefetchFails, AutoLoad, ShouldLoadMore, NextPageFails,
         RetryNextPage, Invalidated, Loaded
    <2> QED  BY <1>0, <2>1, SameEnd DEF acts, waiting, OneOperation
  <1>3. CASE \/ ToggleCurrent \/ ClearSelection \/ (\E m \in Mails : CtrlClick(m) \/ Click(m) \/ Extend(m))
             \/ (\E a, m \in Mails : ShiftClick(a, m)) \/ (\E S \in SUBSET Mails : SelectBy(S))
             \/ UNCHANGED listVars
    <2>1. UNCHANGED <<match, viewed, query, acts>>
      BY <1>3 DEF ToggleCurrent, ClearSelection, CtrlClick, Click, Extend, ShiftClick, SelectBy, listVars
    <2> QED  BY <1>0, <2>1, SameEnd DEF query, acts, waiting, OneOperation
  <1>4. ASSUME NEW m \in Mails, Leaves(m) \/ Arrives(m) PROVE EndInv'
    <2>1. /\ UNCHANGED <<viewed, query, acts>> /\ match' \subseteq Mails
          /\ \A x \in match' : x \in match \/ \A y \in loaded \cup Kept(snap) : x < y
      BY <1>0, <1>4 DEF Leaves, Arrives
    <2> QED  BY <2>1, MailsEnd
  <1>5. CASE Undo \/ RemoveSelected \/ RemoveCurrent \/ \E m \in Mails : RemoveRow(m)
    <2>1. /\ UNCHANGED <<match, viewed, query, sending>>
          /\ pending' # {} => removing = {}
      BY <1>5 DEF Undo, RemoveSelected, RemoveCurrent, RemoveRow, Remove
    <2> QED  BY <2>1, SameEnd DEF query
  <1>6. ASSUME NEW v \in Views, ChangeView(v) PROVE EndInv'
    <2>1. ~Loaded("first") /\ ~Loaded(Cancelled("first"))
      BY RequestStates DEF Loaded, LoadStates
    <2>2. ~Loaded(load') /\ snap' = None /\ pending' = {}
      BY <1>6, <2>1 DEF ChangeView
    <2> QED  BY <2>2 DEF EndInv, HeldOK, SnapOK, AskedIsMore, OneOperation, Loaded
  <1> QED  BY <1>1, <1>2, <1>3, <1>4, <1>5, <1>6, NextPageEnd, SendEnd, RemovedEnd DEF ListNext

LEMMA EndPromise == ASSUME ListTypeOK, EndInv PROVE EndIsEnd
  <1> SUFFICES ASSUME load = "idle", ~More, ~trimmed, loaded # {}, NEW m \in After(loaded)
               PROVE  m \in removing
    BY DEF EndIsEnd
  <1>1. PagesOK(match, viewed, loaded, tail, cursor, trimmed, Missing)
    BY DEF EndInv, HeldOK, Loaded
  <1>2. m \in match /\ m > Last(loaded)
    BY DEF After
  <1>3. Last(loaded) \in loaded /\ \A y \in loaded : y <= Last(loaded)
    BY Ends DEF ListTypeOK
  <1>4. \A y \in loaded : y \in Nat /\ m \in Nat
    BY <1>2, MailsAssumption DEF ListTypeOK
  <1>5. ~(\E x \in loaded : m <= x)
    BY <1>2, <1>3, <1>4
  <1>6. m \in Missing
    BY <1>1, <1>2, <1>5 DEF PagesOK, HeldEnd, More
  <1> QED  BY <1>6 DEF Missing

\* "No more" is said of a list that has no more, but for the mails an operation
\* takes away: whatever left or came in while pages were loaded, cancelled,
\* fetched again, put back by a failing operation, or failed to come; unless an
\* operation has cut the last page of a folder and no fetch has followed.
THEOREM EndIsTheEnd == ListSpec => []EndIsEnd
  <1>1. ListInit => ListTypeOK /\ EndInv
    BY InitListTypes, InitEnd
  <1>2. ListTypeOK /\ EndInv /\ [ListNext]_listVars => ListTypeOK' /\ EndInv'
    BY StepListTypes, StepEnd
  <1>3. ListTypeOK /\ EndInv => EndIsEnd
    BY EndPromise
  <1> QED  BY <1>1, <1>2, <1>3, PTL DEF ListSpec

----------------------------------------------------------------------------
(* The type of the desk's state (MailDesk).                                 *)

DeskOK ==
    /\ view \in Folders
    /\ rows \subseteq Mails /\ hidden \subseteq Mails /\ kept \subseteq Mails /\ undone \subseteq Mails
    /\ active \in Mails \cup {None} /\ toast \in Toasts

UndoOK == UndoShape /\ undo.pending \in Ops \cup {None} /\ undo.out \subseteq Requests

DeskTypes == home \in [Mails -> Places] /\ DeskOK /\ UndoOK

\* A rendering keeps rows that are there.
LEMMA RenderedTypes ==
  ASSUME Rendered, kept \subseteq Mails, rows' \subseteq Mails PROVE kept' \subseteq Mails
  BY DEF Rendered, NextKept

LEMMA VisibleMails == ASSUME DeskOK PROVE Visible \subseteq Mails
  BY DEF DeskOK, Visible, Raw, WithKept

\* The toasts there are.
LEMMA SomeToasts ==
    /\ NoToast \in Toasts /\ PlainToast \in Toasts
    /\ \A ids \in SUBSET Mails : [kind |-> "undo", ids |-> ids] \in Toasts
  BY DEF Toasts

LEMMA RequestOfOp == ASSUME NEW op \in Ops PROVE Request(op) \in Requests
  BY DEF Ops, Requests, Request

\* Flushing, and ending a toast, leave types alone.
LEMMA FlushedTypes ==
  ASSUME NEW u, u = [pending |-> u.pending, out |-> u.out], u.pending \in Ops \cup {None}, u.out \subseteq Requests
  PROVE  /\ Flushed(u) = [pending |-> Flushed(u).pending, out |-> Flushed(u).out]
         /\ Flushed(u).pending = None /\ Flushed(u).out \subseteq Requests
  BY FlushedFields, RequestOfOp

LEMMA ExpiredTypes ==
  ASSUME NEW u, u = [pending |-> u.pending, out |-> u.out], u.pending \in Ops \cup {None}, u.out \subseteq Requests,
         NEW t, undo' = Expired(u, t)
  PROVE  UndoOK'
  <1>1. CASE undo' = u
    BY <1>1 DEF UndoOK, UndoShape
  <1>2. CASE undo' = Flushed(u)
    BY <1>2, FlushedTypes DEF UndoOK, UndoShape
  <1> QED  BY <1>1, <1>2 DEF Expired

\* The mail that is open after an operation.
LEMMA AdvanceTypes ==
  ASSUME DeskOK, NEW ids PROVE Advance(ids) \in Mails \cup {None}
  <1> DEFINE later == {m \in Visible \ ids : m > active}
             earlier == {m \in Visible \ ids : m < active}
  <1>1. later \in SUBSET Mails /\ earlier \in SUBSET Mails
    BY VisibleMails
  <1>2. (later # {} => Min(later) \in Mails) /\ (earlier # {} => Max(earlier) \in Mails)
    BY <1>1, Ends
  <1>3. Advance(ids) = IF active \notin ids \cap Visible THEN active
                       ELSE IF later # {} THEN Min(later)
                       ELSE IF earlier # {} THEN Max(earlier) ELSE None
    BY DEF Advance
  <1> HIDE DEF later, earlier
  <1> QED  BY <1>2, <1>3 DEF DeskOK

LEMMA InitDesk == ASSUME Init PROVE DeskTypes
  <1>1. home \in [Mails -> Places]
    BY DEF Init, Places
  <1>2. DeskOK
    BY SomeToasts DEF Init, DeskOK, Listed
  <1>3. UndoOK
    BY DEF Init, UndoOK, UndoShape
  <1> QED  BY <1>1, <1>2, <1>3 DEF DeskTypes

LEMMA RunTypes ==
  ASSUME DeskTypes, NEW ids \in SUBSET Mails, NEW dest \in Places, RunUndoable(ids, dest) PROVE DeskTypes'
  <1> DEFINE op == [ids |-> ids, dest |-> dest, reading |-> active]
             b == Begun(undo, op)
  <1>0. DeskOK /\ UndoOK /\ home \in [Mails -> Places]
    BY DEF DeskTypes
  <1>1. op \in Ops
    BY <1>0 DEF Ops, DeskOK
  <1>2. /\ undo' = Expired(b, toast) /\ active' = Advance(ids) /\ toast' = [kind |-> "undo", ids |-> ids]
        /\ hidden' = hidden \cup ids /\ rows' \subseteq rows /\ undone' \subseteq undone
        /\ UNCHANGED <<home, view>> /\ Rendered
    BY DEF RunUndoable
  <1>3. /\ b = [pending |-> b.pending, out |-> b.out] /\ b.pending = op /\ b.out = Flushed(undo).out
    BY <1>0, BegunFields DEF UndoOK, UndoShape
  <1>4. b.out \subseteq Requests
    BY <1>0, <1>3, FlushedTypes DEF UndoOK, UndoShape
  <1> HIDE DEF op, b
  <1>5. UndoOK'
    BY <1>1, <1>2, <1>3, <1>4, ExpiredTypes
  <1>6. active' \in Mails \cup {None} /\ toast' \in Toasts
    BY <1>0, <1>2, AdvanceTypes, SomeToasts
  <1>7. kept' \subseteq Mails
    BY <1>0, <1>2, RenderedTypes DEF DeskOK
  <1>8. DeskOK'
    BY <1>0, <1>2, <1>6, <1>7 DEF DeskOK
  <1> QED  BY <1>0, <1>2, <1>5, <1>8 DEF DeskTypes

LEMMA MoveTypes ==
  ASSUME DeskTypes, NEW m \in Mails, NEW dest \in Places, MoveDirectly(m, dest) PROVE DeskTypes'
  <1>0. DeskOK /\ UndoOK /\ home \in [Mails -> Places]
    BY DEF DeskTypes
  <1> DEFINE req == [ids |-> {m}, dest |-> dest]
  <1>1. req \in Requests
    BY DEF Requests
  <1>2. /\ undo' = [undo EXCEPT !.out = @ \cup {req}] /\ rows' \subseteq rows /\ undone' \subseteq undone
        /\ UNCHANGED <<home, view, hidden, active, toast>> /\ Rendered
    BY DEF MoveDirectly
  <1> HIDE DEF req
  <1>3. undo' = [pending |-> undo.pending, out |-> undo.out \cup {req}]
    BY <1>0, <1>2 DEF UndoOK, UndoShape
  <1>4. UndoOK'
    BY <1>0, <1>1, <1>3 DEF UndoOK, UndoShape
  <1>5. DeskOK'
    BY <1>0, <1>2, RenderedTypes DEF DeskOK
  <1> QED  BY <1>0, <1>2, <1>4, <1>5 DEF DeskTypes

\* Taking an operation back.
LEMMA RolledBackTypes ==
  ASSUME DeskOK, UndoOK, undo.pending # None, RolledBack
  PROVE  UndoOK' /\ hidden' \subseteq Mails /\ undone' \subseteq Mails /\ active' \in Mails \cup {None}
  <1>1. undo.pending \in Ops /\ undo.pending.ids \subseteq Mails /\ undo.pending.reading \in Mails \cup {None}
    BY DEF UndoOK, Ops
  <1>2. undo' = [pending |-> None, out |-> undo.out]
    BY DEF RolledBack, UndoOK, UndoShape
  <1>3. UndoOK'
    BY <1>2 DEF UndoOK, UndoShape
  <1> QED  BY <1>1, <1>3 DEF RolledBack, DeskOK

LEMMA ClickTypes == ASSUME DeskTypes, ClickUndo \/ CtrlZ PROVE DeskTypes'
  <1>0. DeskOK /\ UndoOK /\ home \in [Mails -> Places]
    BY DEF DeskTypes
  <1>1. UNCHANGED <<home, view, rows>> /\ Rendered
    BY DEF ClickUndo, CtrlZ
  <1>2. UndoOK' /\ hidden' \subseteq Mails /\ undone' \subseteq Mails /\ active' \in Mails \cup {None}
    <2>1. CASE undo.pending # None
      BY <1>0, <2>1, RolledBackTypes DEF ClickUndo, CtrlZ
    <2>2. CASE ClickUndo /\ undo.pending = None
      <3>1. UNCHANGED <<hidden, active, undo, undone>>
        BY <2>2 DEF ClickUndo
      <3> QED  BY <1>0, <3>1 DEF DeskOK, UndoOK, UndoShape
    <2>3. CASE CtrlZ /\ undo.pending = None
      <3>1. UNCHANGED <<hidden, active, undone>> /\ undo' = Expired(undo, toast)
        BY <2>3 DEF CtrlZ, ShowToast
      <3>2. UndoOK'
        BY <1>0, <3>1, ExpiredTypes DEF UndoOK, UndoShape
      <3> QED  BY <1>0, <3>1, <3>2 DEF DeskOK
    <2> QED  BY <2>1, <2>2, <2>3
  <1>3. toast' \in Toasts
    BY <1>0, SomeToasts DEF ClickUndo, CtrlZ, ShowToast, DeskOK
  <1>4. DeskOK'
    BY <1>0, <1>1, <1>2, <1>3, RenderedTypes DEF DeskOK
  <1> QED  BY <1>0, <1>1, <1>2, <1>4 DEF DeskTypes

\* A change of the view or of the style, and the end of a toast.
LEMMA ResetTypes ==
  ASSUME DeskTypes, ChangeStyle \/ (\E v \in Folders : SelectView(v)) \/ (\E t \in {NoToast, PlainToast} : ToastEnds(t))
  PROVE  DeskTypes'
  <1>0. DeskOK /\ UndoOK /\ home \in [Mails -> Places]
    BY DEF DeskTypes
  <1>1. /\ view' \in Folders /\ active' \in {active, None} /\ hidden' \in {hidden, {}} /\ rows' \subseteq Mails
        /\ toast' \in Toasts /\ UNCHANGED <<home, undone>> /\ Rendered
    BY <1>0, SomeToasts DEF ChangeStyle, SelectView, Reset, ToastEnds, ShowToast, Listed, DeskOK
  <1>2. undo' = Flushed(undo) \/ undo' = Expired(undo, toast)
    BY DEF ChangeStyle, SelectView, Reset, ToastEnds, ShowToast
  <1>3. UndoOK'
    BY <1>0, <1>2, FlushedTypes, ExpiredTypes DEF UndoOK, UndoShape
  <1>4. DeskOK'
    BY <1>0, <1>1, RenderedTypes DEF DeskOK
  <1> QED  BY <1>0, <1>1, <1>3, <1>4 DEF DeskTypes

LEMMA SettleTypes ==
  ASSUME DeskTypes, NEW op \in undo.out, NEW ok \in BOOLEAN, Settle(op, ok) PROVE DeskTypes'
  <1>0. DeskOK /\ UndoOK /\ home \in [Mails -> Places]
    BY DEF DeskTypes
  <1>1. op.dest \in Places
    BY <1>0 DEF UndoOK, Requests
  <1>2. home' \in [Mails -> Places]
    BY <1>0, <1>1 DEF Settle
  <1>3. /\ undo' = [undo EXCEPT !.out = @ \ {op}] /\ rows' \subseteq Mails
        /\ UNCHANGED <<view, hidden, active, toast, undone>> /\ Rendered
    BY DEF Settle
  <1>4. undo' = [pending |-> undo.pending, out |-> undo.out \ {op}]
    BY <1>0, <1>3 DEF UndoOK, UndoShape
  <1>5. UndoOK'
    BY <1>0, <1>4 DEF UndoOK, UndoShape
  <1>6. DeskOK'
    BY <1>0, <1>3, RenderedTypes DEF DeskOK
  <1> QED  BY <1>2, <1>5, <1>6 DEF DeskTypes

LEMMA ReloadTypes == ASSUME DeskTypes, Reload PROVE DeskTypes'
  <1>1. home' \in [Mails -> Places] /\ undo' = [pending |-> None, out |-> {}]
    BY DEF Reload
  <1>2. UndoOK'
    BY <1>1 DEF UndoOK, UndoShape
  <1>3. /\ rows' \subseteq Mails /\ hidden' = {} /\ kept' \subseteq rows' /\ toast' \in Toasts
        /\ UNCHANGED <<view, active, undone>>
    BY SomeToasts DEF Reload
  <1>4. DeskOK'
    BY <1>3 DEF DeskTypes, DeskOK
  <1> QED  BY <1>1, <1>2, <1>4 DEF DeskTypes

\* Reading, and what happens to the mails elsewhere.
LEMMA BrowsingTypes == ASSUME DeskTypes, Browsing PROVE DeskTypes'
  <1>0. DeskOK /\ UndoOK /\ home \in [Mails -> Places]
    BY DEF DeskTypes
  <1>1. UndoOK'
    BY <1>0, BrowsingKeeps DEF UndoOK, UndoShape
  <1>2. home' \in [Mails -> Places]
    BY <1>0 DEF Browsing, Close, Refetch, Open, OtherDevice
  <1>3. /\ UNCHANGED <<view, hidden, toast, undone>> /\ active' \in Mails \cup {None} /\ rows' \subseteq Mails
        /\ Rendered \/ kept' = kept
    BY <1>0, VisibleMails DEF Browsing, Close, Refetch, Open, OtherDevice, Listed, DeskOK
  <1>4. DeskOK'
    BY <1>0, <1>3, RenderedTypes DEF DeskOK
  <1> QED  BY <1>1, <1>2, <1>4 DEF DeskTypes

LEMMA StepDesk == ASSUME DeskTypes, [Next]_vars PROVE DeskTypes'
  <1>0. Visible \subseteq Mails /\ active \in Mails \cup {None}
    BY VisibleMails DEF DeskTypes, DeskOK
  <1>1. CASE \E m \in Mails, d \in Places : RowOperation(m, d)
    BY <1>1, RunTypes DEF RowOperation
  <1>2. CASE \E ids \in SUBSET Mails, d \in Places : BatchOperation(ids, d)
    BY <1>2, RunTypes DEF BatchOperation
  <1>3. CASE \E d \in Places : CurrentOperation(d)
    <2>1. {active} \in SUBSET Mails
      BY <1>0, <1>3 DEF CurrentOperation
    <2> QED  BY <1>3, <2>1, RunTypes DEF CurrentOperation
  <1>4. CASE ToastTimer \/ OtherToast
    BY <1>4, ResetTypes DEF ToastTimer, OtherToast
  <1>5. CASE UNCHANGED vars
    BY <1>5 DEF vars, DeskTypes, DeskOK, UndoOK, UndoShape
  <1>6. CASE Close \/ Refetch \/ \E m \in Mails : Open(m) \/ OtherDevice(m)
    BY <1>6, BrowsingTypes DEF Browsing
  <1> QED  BY <1>1, <1>2, <1>3, <1>4, <1>5, <1>6, MoveTypes, ClickTypes, ResetTypes, SettleTypes, ReloadTypes
           DEF Next, Operate, Browse

----------------------------------------------------------------------------
(* The cache (MailCache).                                                  *)

\* Counting is the same in the instance.
LEMMA CacheCounts ==
    /\ \A S : Cache!Cardinality(S) = Cardinality(S)
    /\ \A S : Cache!IsFiniteSet(S) <=> IsFiniteSet(S)
  BY DEF Cache!Cardinality, Cardinality, Cache!IsFiniteSet, IsFiniteSet

\* A badge of a view is a number of mails.
LEMMA Badges ==
  ASSUME NEW v
  PROVE  /\ Cache!Cardinality(Cache!Unread(v)) \in 0..Cache!Cardinality(CacheMails)
         /\ Cache!Cardinality(Cache!Unread(v)) \in Nat
  <1>1. IsFiniteSet(CacheMails)
    BY CacheAssumption, CacheCounts DEF Cache!Assumptions
  <1>2. Cache!Unread(v) \subseteq CacheMails
    BY DEF Cache!Unread
  <1>3. /\ IsFiniteSet(Cache!Unread(v)) /\ Cardinality(Cache!Unread(v)) <= Cardinality(CacheMails)
        /\ Cardinality(CacheMails) \in Nat /\ Cardinality(Cache!Unread(v)) \in Nat
    BY <1>1, <1>2, FS_Subset, FS_CardinalityType
  <1> QED  BY <1>3, CacheCounts

CacheSnapshots == [list : Cache!Views, badge : Nat]
CacheOps == [id : Nat, ids : SUBSET CacheMails, verb : Cache!Verbs,
             stage : {"begun", "sent", "done", "failed"}, snap : CacheSnapshots]

Answers == {Cache!Idle, Cache!Asked} \cup {Cache!Answered(v) : v \in Cache!Views}
Numbers == {Cache!Idle, Cache!Asked} \cup {Cache!Answered(n) : n \in 0..Cache!Cardinality(CacheMails)}

CacheTypes ==
    /\ srv \in Cache!Views /\ list \in Cache!Views /\ badge \in Nat
    /\ fetch \in Answers /\ counts \in Numbers
    /\ ops \subseteq CacheOps
    /\ conn \in {"open", "connecting"} /\ events \subseteq {"new_mail", "mail_state"}
    /\ open \in CacheMails \cup {None} /\ gate \in CacheMails \cup {None}
    /\ made \in Nat

LEMMA Requesting ==
    /\ Cache!Idle \in Answers /\ Cache!Asked \in Answers
    /\ Cache!Idle \in Numbers /\ Cache!Asked \in Numbers
    /\ \A v \in Cache!Views : Cache!Answered(v) \in Answers
    /\ \A n \in 0..Cache!Cardinality(CacheMails) : Cache!Answered(n) \in Numbers
  BY DEF Answers, Numbers

LEMMA RequestStages ==
    /\ Cache!Idle.stage = "idle" /\ Cache!Asked.stage = "asked"
    /\ \A d : Cache!Answered(d).stage = "answered" /\ Cache!Answered(d).data = d
    /\ Cache!Idle # Cache!Asked
    /\ \A d : Cache!Answered(d) # Cache!Idle /\ Cache!Answered(d) # Cache!Asked
  BY DEF Cache!Idle, Cache!Asked, Cache!Answered

LEMMA AnswersLoaded ==
  ASSUME CacheTypes
  PROVE  /\ fetch.stage = "answered" => fetch.data \in Cache!Views
         /\ counts.stage = "answered" => counts.data \in Nat
  <1>1. Cache!Cardinality(CacheMails) \in Nat
    BY CacheCounts, CacheAssumption, FS_CardinalityType DEF Cache!Assumptions
  <1>2. fetch.stage = "answered" => \E v \in Cache!Views : fetch = Cache!Answered(v)
    BY RequestStages DEF CacheTypes, Answers
  <1>3. counts.stage = "answered" => \E n \in 0..Cache!Cardinality(CacheMails) : counts = Cache!Answered(n)
    BY RequestStages DEF CacheTypes, Numbers
  <1> QED  BY <1>1, <1>2, <1>3, RequestStages

LEMMA PatchedTypes ==
  ASSUME NEW v \in Cache!Views, NEW op \in CacheOps PROVE Cache!Patched(v, op) \in Cache!Views
  BY DEF Cache!Patched, Cache!Views, Cache!States, Cache!Verbs, CacheOps

LEMMA BadgeTypes == ASSUME badge \in Nat, NEW op PROVE Cache!PatchedBadge(op) \in Nat
  <1> DEFINE a == Cache!Cardinality(Cache!Unread(Cache!Patched(list, op)))
             b == Cache!Cardinality(Cache!Unread(list))
  <1>1. a \in Nat /\ b \in Nat
    BY Badges
  <1>2. Cache!PatchedBadge(op) = IF badge + a - b < 0 THEN 0 ELSE badge + a - b
    BY DEF Cache!PatchedBadge
  <1> HIDE DEF a, b
  <1> QED  BY <1>1, <1>2

LEMMA NoSnapshotTypes == Cache!NoSnapshot \in CacheSnapshots
  BY DEF Cache!NoSnapshot, CacheSnapshots, Cache!Views, Cache!States

\* An operation goes from one stage to the next.
LEMMA OpStages ==
  ASSUME NEW op \in CacheOps, NEW st \in {"begun", "sent", "done", "failed"}, NEW sn \in CacheSnapshots
  PROVE  [op EXCEPT !.stage = st, !.snap = sn] \in CacheOps
  BY DEF CacheOps

LEMMA InitCacheTypes == ASSUME Cache!Init PROVE CacheTypes
  <1>1. srv \in Cache!Views /\ list \in Cache!Views
    BY DEF Cache!Init, Cache!Views, Cache!States
  <1>2. badge \in Nat
    BY Badges DEF Cache!Init
  <1> QED  BY <1>1, <1>2, Requesting DEF Cache!Init, CacheTypes

LEMMA MutateTypes ==
  ASSUME CacheTypes, NEW ids \in SUBSET CacheMails, NEW verb \in Cache!Verbs, Cache!Mutate(ids, verb),
         open' \in CacheMails \cup {None}, gate' \in CacheMails \cup {None}
  PROVE  CacheTypes'
  <1> DEFINE op == [id |-> made, ids |-> ids, verb |-> verb, stage |-> "begun", snap |-> Cache!NoSnapshot]
  <1>1. op \in CacheOps
    BY NoSnapshotTypes DEF CacheTypes, CacheOps
  <1>2. ops' = ops \cup {op} /\ made' \in Nat /\ fetch' = Cache!Idle
        /\ UNCHANGED <<srv, list, badge, counts, conn, events>>
    BY DEF Cache!Mutate, Cache!cache, Cache!stream, CacheTypes
  <1> HIDE DEF op
  <1> QED  BY <1>1, <1>2, Requesting DEF CacheTypes

LEMMA OpTypes ==
  ASSUME CacheTypes, NEW op, Cache!Patch(op) \/ Cache!Serve(op) \/ Cache!Settle(op) PROVE CacheTypes'
  <1>1. op \in ops /\ op \in CacheOps /\ op.snap \in CacheSnapshots
    BY DEF Cache!Patch, Cache!Serve, Cache!Settle, CacheTypes, CacheOps
  <1>2. CASE Cache!Patch(op)
    <2> DEFINE sn == [list |-> list, badge |-> badge]
               p == [op EXCEPT !.stage = "sent", !.snap = sn]
    <2>1. sn \in CacheSnapshots
      BY DEF CacheSnapshots, CacheTypes
    <2>2. p \in CacheOps
      <3>1. PICK st \in {"begun", "sent", "done", "failed"} : st = "sent"
        OBVIOUS
      <3>2. [op EXCEPT !.stage = st, !.snap = sn] \in CacheOps
        BY <1>1, <2>1, OpStages
      <3> QED  BY <3>1, <3>2
    <2>3. /\ ops' = (ops \ {op}) \cup {p} /\ list' = Cache!Patched(list, op) /\ badge' = Cache!PatchedBadge(op)
          /\ UNCHANGED <<srv, fetch, counts, conn, events, open, gate, made>>
      BY <1>2 DEF Cache!Patch, Cache!requests, Cache!stream, Cache!reader
    <2> HIDE DEF p
    <2>4. list' \in Cache!Views /\ badge' \in Nat
      BY <1>1, <2>3, PatchedTypes, BadgeTypes DEF CacheTypes
    <2> QED  BY <1>1, <2>2, <2>3, <2>4 DEF CacheTypes
  <1>3. CASE Cache!Serve(op)
    <2>1. PICK applied \in BOOLEAN, ok \in BOOLEAN :
             /\ srv' = IF applied THEN Cache!Patched(srv, op) ELSE srv
             /\ ops' = (ops \ {op}) \cup {[op EXCEPT !.stage = IF ok THEN "done" ELSE "failed",
                                              !.snap = IF ok THEN Cache!NoSnapshot ELSE @]}
      BY <1>3 DEF Cache!Serve
    <2>2. PICK st \in {"begun", "sent", "done", "failed"}, sn \in CacheSnapshots :
             st = (IF ok THEN "done" ELSE "failed") /\ sn = (IF ok THEN Cache!NoSnapshot ELSE op.snap)
      BY <1>1, NoSnapshotTypes
    <2>3. [op EXCEPT !.stage = st, !.snap = sn] \in CacheOps
      BY <1>1, OpStages
    <2>4. ops' = (ops \ {op}) \cup {[op EXCEPT !.stage = st, !.snap = sn]}
      BY <2>1, <2>2
    <2>5. srv' \in Cache!Views
      BY <1>1, <2>1, PatchedTypes DEF CacheTypes
    <2>6. UNCHANGED <<list, badge, fetch, counts, conn, events, open, gate, made>>
      BY <1>3 DEF Cache!Serve, Cache!cache, Cache!requests, Cache!stream, Cache!reader
    <2> QED  BY <2>3, <2>4, <2>5, <2>6 DEF CacheTypes
  <1>4. CASE Cache!Settle(op)
    <2>1. op.snap.list \in Cache!Views /\ op.snap.badge \in Nat
      BY <1>1 DEF CacheSnapshots
    <2>2. /\ ops' = ops \ {op} /\ list' \in {list, op.snap.list} /\ badge' \in {badge, op.snap.badge}
          /\ fetch' = Cache!Asked /\ counts' = Cache!Asked /\ UNCHANGED <<srv, conn, events, open, gate, made>>
      BY <1>4 DEF Cache!Settle, Cache!Invalidate, Cache!cache, Cache!stream, Cache!reader
    <2> QED  BY <2>1, <2>2, Requesting DEF CacheTypes
  <1> QED  BY <1>2, <1>3, <1>4

LEMMA StepCacheTypes == ASSUME CacheTypes, [Cache!Next]_cacheVars PROVE CacheTypes'
  <1> USE DEF Cache!cache, Cache!requests, Cache!stream, Cache!reader
  <1>1. CASE Cache!AutoRead
    <2>1. PICK m \in CacheMails : m = open
      BY <1>1 DEF Cache!AutoRead, Cache!AutoReadDue, CacheTypes
    <2>2. PICK verb \in Cache!Verbs : verb = "read"
      BY DEF Cache!Verbs
    <2>3. {m} \in SUBSET CacheMails /\ Cache!Mutate({m}, verb) /\ open' = m /\ gate' = m
      BY <1>1, <2>1, <2>2 DEF Cache!AutoRead
    <2> QED  BY <2>3, MutateTypes
  <1>2. CASE Cache!UserMutates
    BY <1>2, MutateTypes DEF Cache!UserMutates, CacheTypes
  <1>3. CASE Cache!Close \/ \E m \in CacheMails : Cache!Open(m)
    BY <1>3 DEF Cache!Close, Cache!Open, CacheTypes
  <1>4. CASE Cache!WindowFocus \/ Cache!FetchFails
    BY <1>4, Requesting DEF Cache!WindowFocus, Cache!FetchFails, CacheTypes
  <1>5. CASE Cache!ListRead \/ Cache!CountsRead
    BY <1>5, Requesting, Badges DEF Cache!ListRead, Cache!CountsRead, CacheTypes
  <1>6. CASE Cache!ListLoaded \/ Cache!CountsLoaded
    BY <1>6, Requesting, AnswersLoaded DEF Cache!ListLoaded, Cache!CountsLoaded, CacheTypes
  <1>7. CASE Cache!Disconnect \/ Cache!Reconnect
    BY <1>7 DEF Cache!Disconnect, Cache!Reconnect, CacheTypes
  <1>8. CASE Cache!MailStateTimer \/ \E e \in events : Cache!Deliver(e)
    BY <1>8, Requesting DEF Cache!MailStateTimer, Cache!Deliver, Cache!Invalidate, CacheTypes
  <1>9. ASSUME NEW m \in CacheMails, Cache!Remote(m) PROVE CacheTypes'
    <2>1. /\ events' \subseteq events \cup {"new_mail", "mail_state"}
          /\ UNCHANGED <<list, badge, fetch, counts, ops, conn, open, gate, made>>
          /\ \E s \in Cache!States : srv' = [srv EXCEPT ![m] = s]
      BY <1>9 DEF Cache!Remote
    <2>2. srv' \in Cache!Views
      BY <2>1 DEF CacheTypes, Cache!Views
    <2> QED  BY <2>1, <2>2 DEF CacheTypes
  <1>10. CASE UNCHANGED cacheVars
    BY <1>10 DEF cacheVars, CacheTypes
  <1> QED  BY <1>1, <1>2, <1>3, <1>4, <1>5, <1>6, <1>7, <1>8, <1>9, <1>10, OpTypes
           DEF Cache!Next, Cache!User, Cache!Network

\* A change that the cache does not show is told of, on its way, or lost: when
\* no mutation is under way the list is that of the server, or it comes with
\* the request that is out, or something is under way that will ask for it.
Told == events # {} \/ timer \/ missed

ListComes ==
    \/ ops # {} \/ Told
    \/ fetch = Cache!Asked \/ fetch = Cache!Answered(srv)
    \/ fetch = Cache!Idle /\ list = srv

\* The same of the badges.
CountsCome ==
    LET n == Cache!Cardinality(Cache!Unread(srv))
    IN  \/ ops # {} \/ Told
        \/ counts = Cache!Asked \/ counts = Cache!Answered(n)
        \/ counts = Cache!Idle /\ badge = n

FreshInv == ListComes /\ CountsCome

LEMMA InitFresh == ASSUME Cache!Init PROVE FreshInv
  BY DEF Cache!Init, FreshInv, ListComes, CountsCome

\* Everything is asked for anew.
LEMMA InvalidateFresh == ASSUME Cache!Invalidate PROVE FreshInv'
  BY DEF Cache!Invalidate, FreshInv, ListComes, CountsCome

\* A mutation is under way, or a change will be told of or was lost.
LEMMA BusyFresh == ASSUME ops' # {} \/ Told' PROVE FreshInv'
  BY DEF FreshInv, ListComes, CountsCome

LEMMA StepFresh == ASSUME CacheTypes, FreshInv, [Cache!Next]_cacheVars PROVE FreshInv'
  <1> USE DEF Cache!cache, Cache!requests, Cache!stream, Cache!reader
  <1>1. CASE Cache!AutoRead \/ Cache!UserMutates \/ \E op \in ops : Cache!Patch(op) \/ Cache!Serve(op)
    <2>1. ops' # {}
      BY <1>1 DEF Cache!AutoRead, Cache!UserMutates, Cache!Mutate, Cache!Patch, Cache!Serve
    <2> QED  BY <2>1, BusyFresh
  <1>2. CASE Cache!MailStateTimer \/ \E op \in ops : Cache!Settle(op)
    BY <1>2, InvalidateFresh DEF Cache!MailStateTimer, Cache!Settle
  <1>3. ASSUME NEW e \in events, Cache!Deliver(e) PROVE FreshInv'
    <2>1. CASE e = "new_mail"
      BY <1>3, <2>1, InvalidateFresh DEF Cache!Deliver
    <2>2. CASE e = "mail_state"
      BY <1>3, <2>2, BusyFresh DEF Cache!Deliver, Told
    <2> QED  BY <2>1, <2>2 DEF CacheTypes
  <1>4. CASE Cache!FetchFails \/ \E m \in CacheMails : Cache!Remote(m)
    BY <1>4, BusyFresh DEF Cache!FetchFails, Cache!Remote, Told
  <1>5. CASE Cache!ListRead \/ Cache!ListLoaded
    BY <1>5, RequestStages DEF Cache!ListRead, Cache!ListLoaded, FreshInv, ListComes, CountsCome, Told
  <1>6. CASE Cache!CountsRead \/ Cache!CountsLoaded
    BY <1>6, RequestStages DEF Cache!CountsRead, Cache!CountsLoaded, FreshInv, ListComes, CountsCome, Told
  <1>7. CASE Cache!WindowFocus
    BY <1>7 DEF Cache!WindowFocus, FreshInv, ListComes, CountsCome, Told
  <1>8. CASE Cache!Disconnect
    BY <1>8 DEF Cache!Disconnect, FreshInv, ListComes, CountsCome, Told
  <1>9. CASE Cache!Reconnect \/ Cache!Close \/ \E m \in CacheMails : Cache!Open(m)
    BY <1>9 DEF Cache!Reconnect, Cache!Close, Cache!Open, FreshInv, ListComes, CountsCome, Told
  <1>10. CASE UNCHANGED cacheVars
    BY <1>10 DEF cacheVars, FreshInv, ListComes, CountsCome, Told
  <1> QED  BY <1>1, <1>2, <1>3, <1>4, <1>5, <1>6, <1>7, <1>8, <1>9, <1>10
           DEF Cache!Next, Cache!User, Cache!Network

LEMMA FreshPromise == ASSUME FreshInv PROVE QuietIsFresh
  BY RequestStages DEF FreshInv, ListComes, CountsCome, Told, QuietIsFresh, Cache!QuietIsFresh, Cache!Quiet, Cache!Fresh

\* Whatever mutations overlapped, failed and rolled each other back, and
\* however their requests crossed those of events: when nothing is under way
\* the list and the badges are those of the server, if no change was lost.
THEOREM QuietCacheIsFresh == PagesSpec => []QuietIsFresh
  <1>1. PagesInit => CacheTypes /\ FreshInv
    BY InitCacheTypes, InitFresh DEF PagesInit
  <1>2. [PagesNext]_pageVars => [Cache!Next]_cacheVars
    BY DEF PagesNext, pageVars, DeskStep, ListStep, CacheStep
  <1>3. CacheTypes /\ FreshInv /\ [PagesNext]_pageVars => CacheTypes' /\ FreshInv'
    BY <1>2, StepCacheTypes, StepFresh
  <1> QED  BY <1>1, <1>3, FreshPromise, PTL DEF PagesSpec

----------------------------------------------------------------------------
(* All three together.  A behaviour of the pages is one of each part, so that *)
(* what is proved of the desk and of the list holds in it.                   *)

LEMMA EachPart == PagesSpec => Spec /\ ListSpec
  <1>1. PagesInit => Init /\ ListInit
    BY DEF PagesInit
  <1>2. [PagesNext]_pageVars => [Next]_vars /\ [ListNext]_listVars
    BY DEF PagesNext, pageVars, DeskStep, ListStep, CacheStep
  <1> QED  BY <1>1, <1>2, PTL DEF PagesSpec, Spec, ListSpec

LEMMA CacheTyped == ASSUME CacheTypes PROVE Cache!TypeOK
  BY DEF CacheTypes, CacheOps, Answers, Numbers, Cache!TypeOK

LEMMA DeskTyped == ASSUME DeskTypes PROVE TypeOK
  BY DEF DeskTypes, DeskOK, UndoOK, TypeOK

\* What the desk, the list and the cache hold are mails, requests, pages,
\* toasts and badges; a mail that can be taken back is hidden, a query that is
\* idle holds a page, and no badge is less than zero.
THEOREM PagesTyped == PagesSpec => []TypesOK
  <1>1. PagesInit => DeskTypes /\ ListTypeOK /\ CacheTypes
    BY InitDesk, InitListTypes, InitCacheTypes DEF PagesInit
  <1>2. [PagesNext]_pageVars => [Next]_vars /\ [ListNext]_listVars /\ [Cache!Next]_cacheVars
    BY DEF PagesNext, pageVars, DeskStep, ListStep, CacheStep
  <1>3. DeskTypes /\ ListTypeOK /\ CacheTypes /\ [PagesNext]_pageVars => DeskTypes' /\ ListTypeOK' /\ CacheTypes'
    BY <1>2, StepDesk, StepListTypes, StepCacheTypes
  <1>4. DeskTypes /\ ListTypeOK /\ CacheTypes => TypesOK
    BY DeskTyped, CacheTyped DEF TypesOK
  <1> QED  BY <1>1, <1>3, <1>4, PTL DEF PagesSpec
=============================================================================
