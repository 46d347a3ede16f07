---------------------------- MODULE MCWriteback ----------------------------
(* Model-checking instances of Writeback. *)
EXTENDS Writeback, TLC

\* Messages are interchangeable, and so are the requests.
Symmetry == Permutations(Msgs) \cup Permutations(Handlers)
=============================================================================
