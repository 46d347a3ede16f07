------------------------------ MODULE MCRunner ------------------------------
(* Model-checking instances of Runner. *)
EXTENDS Runner, TLC

\* Requests are interchangeable.
Symmetry == Permutations(Callers)
=============================================================================
