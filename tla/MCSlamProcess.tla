---------------------------- MODULE MCSlamProcess ----------------------------
(* The whole life of the process, with the Viewer. *)
EXTENDS SlamProcess
=============================================================================
