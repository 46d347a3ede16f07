---------------------------- MODULE MCSyncSlots ----------------------------
(* Model-checking instances of SyncSlots. *)
EXTENDS SyncSlots
=============================================================================
