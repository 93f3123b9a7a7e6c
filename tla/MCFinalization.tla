--------------------------- MODULE MCFinalization ---------------------------
(* Finalization on its own, from every state the callbacks may leave behind. *)
EXTENDS Finalization
=============================================================================
