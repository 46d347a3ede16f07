---------------------------- MODULE DurableQueue ----------------------------
(***************************************************************************)
(* What the write-back queue promises to the HTTP handlers that use it,    *)
(* with no runner, no connection, no clock and no process that may die:    *)
(* an operation that was accepted is tried until one attempt has reached   *)
(* the server, or until it has failed MaxWritebackAttempts times.          *)
(*                                                                         *)
(* Delivery is at least once: Deliver may happen again after it has        *)
(* happened, because the acknowledgement and the removal of the row are    *)
(* two steps.  Module Writeback implements this specification.             *)
(***************************************************************************)
EXTENDS Naturals

CONSTANTS
    OpIds,                  \* identities of the operations ever accepted
    MaxWritebackAttempts    \* failures after which an operation may be dropped

VARIABLES
    st,                     \* [OpIds -> Stages]
    hit,                    \* operations the server confirmed at least once
    misses                  \* [OpIds -> Nat], attempts that failed

vars == <<st, hit, misses>>

Stages == {"absent", "pending", "done", "abandoned"}

Init ==
    /\ st = [i \in OpIds |-> "absent"]
    /\ hit = {}
    /\ misses = [i \in OpIds |-> 0]

Accept(i) ==
    /\ st[i] = "absent"
    /\ st' = [st EXCEPT ![i] = "pending"]
    /\ UNCHANGED <<hit, misses>>

\* One attempt reaches the server and is confirmed.
Deliver(i) ==
    /\ st[i] = "pending"
    /\ hit' = hit \cup {i}
    /\ UNCHANGED <<st, misses>>

\* One attempt fails (or its confirmation is lost).
Miss(i) ==
    /\ st[i] = "pending"
    /\ misses' = [misses EXCEPT ![i] = @ + 1]
    /\ UNCHANGED <<st, hit>>

Finish(i) ==
    /\ st[i] = "pending"
    /\ i \in hit
    /\ st' = [st EXCEPT ![i] = "done"]
    /\ UNCHANGED <<hit, misses>>

Abandon(i) ==
    /\ st[i] = "pending"
    /\ misses[i] >= MaxWritebackAttempts
    /\ st' = [st EXCEPT ![i] = "abandoned"]
    /\ UNCHANGED <<hit, misses>>

Attempt(i) == Deliver(i) \/ Miss(i)
Leave(i) == Finish(i) \/ Abandon(i)

Next == \E i \in OpIds : Accept(i) \/ Attempt(i) \/ Leave(i)

\* An accepted operation does not stay in the queue for ever.
Progress == \A i \in OpIds : st[i] = "pending" ~> st[i] \in {"done", "abandoned"}

SafeSpec == Init /\ [][Next]_vars

Spec == SafeSpec /\ Progress
=============================================================================
