---------------------------- MODULE StopControl ----------------------------
(***************************************************************************)
(* The process-wide stop gate (include/common/stop_control.hpp): every     *)
(* stop source publishes its cause here, and the tracking consumer asks    *)
(* here for permission to start a backend call.                            *)
(*                                                                         *)
(* Every operation runs under control_mutex_, so each is one action.  The  *)
(* flag stop_requested_ is an atomic that other threads read without the   *)
(* mutex: modules that compose this one read the variable stop_requested   *)
(* in a step of their own.                                                 *)
(*                                                                         *)
(* Abstraction: an event is its reason (its time is diagnostic), and an    *)
(* exception is the reason of the failure it was captured with.            *)
(***************************************************************************)
EXTENDS Naturals

CONSTANTS None,              \* an empty std::optional
          Reasons,           \* the StopReason values used in an instance
          MaxBackendStarts   \* bound of this module's own behaviours

ASSUME StopControlAssumption ==
    /\ None \notin Reasons
    /\ None \notin Nat
    /\ MaxBackendStarts \in Nat

VARIABLES stop_requested, first_stop, first_failure, first_exception,
          cleanup_failed, backend_starts

control == <<stop_requested, first_stop, first_failure, first_exception,
             cleanup_failed, backend_starts>>

TypeOK ==
    /\ stop_requested \in BOOLEAN
    /\ first_stop \in Reasons \cup {None}
    /\ first_failure \in Reasons \cup {None}
    /\ first_exception \in Reasons \cup {None}
    /\ cleanup_failed \in BOOLEAN
    /\ backend_starts \in Nat

Init ==
    /\ stop_requested = FALSE
    /\ first_stop = None
    /\ first_failure = None
    /\ first_exception = None
    /\ cleanup_failed = FALSE
    /\ backend_starts = 0

\* Mutant of KeepFirst: the newest cause wins.
KeepLast(current, value) == value

\* An optional keeps its first value.
KeepFirst(current, value) == IF current = None THEN value ELSE current

request_stop(reason) ==
    /\ first_stop' = KeepFirst(first_stop, reason)
    /\ stop_requested' = TRUE
    /\ UNCHANGED <<first_failure, first_exception, cleanup_failed, backend_starts>>

\* Mutant of record_failure: a failure that arrives after a normal stop is dropped.
record_failure_once(reason, with_exception, cleanup_failure) ==
    /\ first_stop' = KeepFirst(first_stop, reason)
    /\ first_failure' = IF stop_requested THEN first_failure ELSE reason
    /\ first_exception' = IF with_exception THEN KeepFirst(first_exception, reason)
                                            ELSE first_exception
    /\ cleanup_failed' = (cleanup_failed \/ cleanup_failure)
    /\ stop_requested' = TRUE
    /\ UNCHANGED backend_starts

record_failure(reason, with_exception, cleanup_failure) ==
    /\ first_stop' = KeepFirst(first_stop, reason)
    /\ first_failure' = KeepFirst(first_failure, reason)
    /\ first_exception' = IF with_exception THEN KeepFirst(first_exception, reason)
                                            ELSE first_exception
    /\ cleanup_failed' = (cleanup_failed \/ cleanup_failure)
    /\ stop_requested' = TRUE
    /\ UNCHANGED backend_starts

\* try_begin_backend() returned true: the logical start of one backend call.
begin_backend ==
    /\ ~stop_requested
    /\ backend_starts' = backend_starts + 1
    /\ UNCHANGED <<stop_requested, first_stop, first_failure, first_exception, cleanup_failed>>

\* try_begin_backend() returned false.
refuse_backend ==
    /\ stop_requested
    /\ UNCHANGED control

Next ==
    \/ \E reason \in Reasons : request_stop(reason)
    \/ \E reason \in Reasons, with_exception, cleanup_failure \in BOOLEAN :
          record_failure(reason, with_exception, cleanup_failure)
    \/ backend_starts < MaxBackendStarts /\ begin_backend
    \/ refuse_backend

Spec == Init /\ [][Next]_control

-----------------------------------------------------------------------------
(* A stop is requested exactly when its first cause is known, a failure is  *)
(* always also a stop, and the evidence that the exit code is computed from *)
(* (exception, cleanup failure) never appears without the failure itself:   *)
(* StopSnapshot as finalize_process and write_process_evidence read it.     *)
CausesConsistent ==
    /\ stop_requested <=> first_stop # None
    /\ first_failure # None => stop_requested
    /\ first_exception # None => first_failure # None
    /\ cleanup_failed => first_failure # None

(* "The first cause is immutable; repeated requests still leave the gate    *)
(* closed": no step reopens the gate, replaces a recorded cause, clears the *)
(* cleanup evidence, or grants a backend call once the gate is closed.      *)
GateOnlyCloses ==
    [][/\ stop_requested => stop_requested'
       /\ first_stop # None => first_stop' = first_stop
       /\ first_failure # None => first_failure' = first_failure
       /\ first_exception # None => first_exception' = first_exception
       /\ cleanup_failed => cleanup_failed'
       /\ stop_requested => backend_starts' = backend_starts]_control
=============================================================================
