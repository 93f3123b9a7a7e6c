-------------------------- MODULE MCLoggingSession --------------------------
(* A queue of two records, two producers of which one may straggle.         *)
EXTENDS LoggingSession
CONSTANTS node, core
=============================================================================
