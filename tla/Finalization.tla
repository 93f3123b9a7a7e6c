---------------------------- MODULE Finalization ----------------------------
(***************************************************************************)
(* SlamNode::shutdown: the quiescent teardown of the node in src/          *)
(* slam_node.cpp, a fixed order of steps each of which may fail without    *)
(* stopping the later ones.  Main runs it after every executor worker has  *)
(* been joined, so it is sequential; SlamProcess adds what runs beside it. *)
(*                                                                         *)
(* Each step that applies either does its work or throws; a failing step   *)
(* may have done part of it.  What a step reports is left out, which       *)
(* components it needs is not: held is the set of parts still owned, and   *)
(* artifacts says what of an export is on disk.                            *)
(***************************************************************************)
EXTENDS Integers, Sequences, FiniteSets

CONSTANTS None,           \* an empty std::optional
          MaxFailures     \* bound: how many steps may fail

Reasons == {"ContextShutdown", "ViewerStop", "ViewerError", "InputIdle", "CallbackError",
            "CancelError", "TraceWriteError", "ShutdownError", "Finalization"}

ASSUME FinalizationAssumption == MaxFailures \in Nat /\ None \notin Reasons

VARIABLES
    stop_requested, first_stop, first_failure, first_exception, cleanup_failed,
    backend_starts,                                       \* StopControl
    shutdown_state, shutdown_failure, summary_available,
    upstream_shutdowns,                                   \* OrbSlam3Adapter
    evaluation,          \* "off", "on", or "on with final trajectory"
    position,            \* the next step; 0 before finalization_started_
    held, artifacts,
    final,               \* the snapshot was taken
    evaluation_written, inputs_written, backend_returned,
    failed_steps         \* history

gate == <<stop_requested, first_stop, first_failure, first_exception, cleanup_failed,
          backend_starts>>
adapter == <<shutdown_state, shutdown_failure, summary_available, upstream_shutdowns>>
results == <<final, evaluation_written, inputs_written, backend_returned>>
vars == <<gate, adapter, evaluation, position, held, artifacts, results, failed_steps>>

Stop == INSTANCE StopControl WITH MaxBackendStarts <- 0
Adapter == INSTANCE OrbSlam3Adapter WITH
              Mode <- None, last_frame_timestamp <- None, last_imu_timestamp <- None, fed <- <<>>

Steps == <<"stop_admission", "stop_timers", "stop_stereo", "stop_imu", "snapshot",
           "work_report", "imu_report", "statistics_report", "status_report", "trace_write",
           "evaluation_write", "evaluation_inputs", "evaluation_complete",
           "release_stereo", "release_imu", "release_work", "backend_shutdown",
           "evaluation_backend_summary", "backend_report", "evaluation_final_trajectory",
           "release_backend">>

Done == position > Len(Steps)
Step == Steps[position]

Components == {"timers", "stereo_input", "imu_input", "stereo", "imu", "work", "backend"}

\* What a step lets go of.
Releases(step) ==
    CASE step = "stop_timers"     -> {"timers"}
      [] step = "stop_stereo"     -> {"stereo_input"}
      [] step = "stop_imu"        -> {"imu_input"}
      [] step = "release_stereo"  -> {"stereo", "stereo_input"}
      [] step = "release_imu"     -> {"imu", "imu_input"}
      [] step = "release_work"    -> {"work"}
      [] step = "release_backend" -> {"backend"}
      [] OTHER                    -> {}

\* The export a step writes.
ExportSteps == {"trace_write", "evaluation_write", "evaluation_inputs", "evaluation_complete",
                "evaluation_backend_summary", "evaluation_final_trajectory"}

\* These two are written beside their place and renamed when complete.
Renamed == {"evaluation_backend_summary", "evaluation_final_trajectory"}

Reason(step) == IF step \in ExportSteps THEN "TraceWriteError" ELSE "ShutdownError"

\* Mutants of Applies: the marker ignores the second export; the trajectories
\* are read although the backend did not return.
AppliesAfterFrames(step) ==
    CASE step \in {"evaluation_write", "evaluation_inputs", "evaluation_backend_summary"} ->
            evaluation # "off"
      [] step = "evaluation_complete" -> evaluation # "off" /\ evaluation_written
      [] step \in {"backend_report", "release_backend"} -> backend_returned
      [] step = "evaluation_final_trajectory" ->
            backend_returned /\ evaluation = "on with final trajectory"
      [] OTHER -> TRUE
AppliesRegardless(step) ==
    CASE step \in {"evaluation_write", "evaluation_inputs", "evaluation_backend_summary"} ->
            evaluation # "off"
      [] step = "evaluation_complete" ->
            evaluation # "off" /\ evaluation_written /\ inputs_written
      [] step = "evaluation_final_trajectory" -> evaluation = "on with final trajectory"
      [] OTHER -> TRUE

Applies(step) ==
    CASE step \in {"evaluation_write", "evaluation_inputs", "evaluation_backend_summary"} ->
            evaluation # "off"
      [] step = "evaluation_complete" ->
            evaluation # "off" /\ evaluation_written /\ inputs_written
      [] step \in {"backend_report", "release_backend"} -> backend_returned
      [] step = "evaluation_final_trajectory" ->
            backend_returned /\ evaluation = "on with final trajectory"
      [] OTHER -> TRUE

\* What the callbacks left behind: nothing (the context became invalid before
\* anyone was told), a normal stop, or a callback failure.
GateInit ==
    /\ \/ Stop!Init
       \/ /\ stop_requested = TRUE /\ first_stop = "InputIdle"
          /\ \E failure \in {None, "CallbackError"} :
                first_failure = failure /\ first_exception = failure
          /\ cleanup_failed = FALSE /\ backend_starts = 0
    /\ Adapter!Init

TeardownInit ==
    /\ evaluation \in {"off", "on", "on with final trajectory"}
    /\ position = 0
    /\ held = Components
    /\ artifacts = [step \in ExportSteps |-> "absent"]
    /\ final = FALSE
    /\ evaluation_written = FALSE
    /\ inputs_written = FALSE
    /\ backend_returned = FALSE
    /\ failed_steps = {}

Init == GateInit /\ TeardownInit

-----------------------------------------------------------------------------
\* finalization_started_ makes a second call return at once.
begin ==
    /\ position = 0
    /\ position' = 1
    /\ UNCHANGED <<gate, adapter, evaluation, held, artifacts, results, failed_steps>>

Running == position # 0 /\ ~Done

Advance == position' = position + 1

skip ==
    /\ Running /\ ~Applies(Step)
    /\ Advance
    /\ UNCHANGED <<gate, adapter, evaluation, held, artifacts, results, failed_steps>>

\* The step does its work: it asks for the stop, lets components go, writes
\* its export, shuts the backend down, or only reports.
succeed ==
    /\ Running /\ Applies(Step)
    /\ Advance
    /\ IF Step = "stop_admission" THEN Stop!request_stop("Finalization") ELSE UNCHANGED gate
    /\ IF Step = "backend_shutdown"
       THEN \E summary \in {FALSE, evaluation # "off"} : Adapter!shutdown_returns(summary)
       ELSE UNCHANGED adapter
    /\ held' = held \ Releases(Step)
    /\ artifacts' = [step \in ExportSteps |-> IF step = Step THEN "complete" ELSE artifacts[step]]
    /\ final' = (final \/ Step = "snapshot")
    /\ evaluation_written' = (evaluation_written \/ Step = "evaluation_write")
    /\ inputs_written' = (inputs_written \/ Step = "evaluation_inputs")
    /\ backend_returned' = (backend_returned \/ Step = "backend_shutdown")
    /\ UNCHANGED <<evaluation, failed_steps>>

\* Mutant of AfterFailure: the first failure ends the teardown.
AfterFailureNothing == position' = Len(Steps) + 1

AfterFailure == Advance

\* Mutant of RecordStepFailure: the failure is only logged.
RecordNothing == UNCHANGED gate

RecordStepFailure == Stop!record_failure(Reason(Step), TRUE, TRUE)

\* The step throws; the others still run.  A write may have begun.
fail ==
    /\ Running /\ Applies(Step)
    /\ Cardinality(failed_steps) < MaxFailures
    /\ AfterFailure
    /\ RecordStepFailure
    /\ IF Step = "backend_shutdown" THEN Adapter!shutdown_throws ELSE UNCHANGED adapter
    /\ \E left \in {"absent", "partial"} :
          artifacts' = [step \in ExportSteps |->
                           IF step = Step /\ step \notin Renamed THEN left ELSE artifacts[step]]
    /\ failed_steps' = failed_steps \cup {Step}
    /\ UNCHANGED <<evaluation, held, results>>

Next == begin \/ skip \/ succeed \/ fail

Spec == Init /\ [][Next]_vars

-----------------------------------------------------------------------------
\* The parts a step reads, which must not have been released before it.
Uses(step) ==
    CASE step \in {"snapshot", "work_report"} -> {"work"}
      [] step = "imu_report"        -> {"imu"}
      [] step = "status_report"     -> {"backend"}
      [] step = "evaluation_inputs" -> {"stereo", "imu", "work"}
      [] step = "release_work"      -> {"work"}
      [] step \in {"backend_shutdown", "evaluation_final_trajectory"} -> {"backend"}
      [] OTHER -> {}

(* No step finds what it reads already released, and the adapter is never   *)
(* asked for what its lifecycle forbids: shutting down twice ("already in   *)
(* progress"), or exporting trajectories before the backend has joined.     *)
StepPreconditions ==
    Running /\ Applies(Step) =>
        /\ Uses(Step) \subseteq held
        /\ Step = "backend_shutdown" => shutdown_state = "NotStarted"
        /\ Step = "evaluation_final_trajectory" => Adapter!MayExportTrajectories

(* "This marker certifies artifact export only": whenever the completion    *)
(* marker is on disk, even half written, both exports it certifies are      *)
(* complete; and the final trajectories are published only from a backend   *)
(* that has joined.                                                         *)
MarkerCertifiesExports ==
    /\ artifacts["evaluation_complete"] # "absent" =>
          artifacts["evaluation_write"] = "complete" /\ artifacts["evaluation_inputs"] = "complete"
    /\ artifacts["evaluation_final_trajectory"] = "complete" => shutdown_state = "Returned"

(* No failure is lost and none is invented: the cleanup evidence of the     *)
(* stop gate is there exactly when some step has failed, and an export that *)
(* is partly written belongs to such a step.                                *)
FailuresAreEvidence ==
    /\ cleanup_failed <=> failed_steps # {}
    /\ \A step \in ExportSteps : artifacts[step] = "partial" => step \in failed_steps

(* One failing step costs nothing but itself: when the teardown is over the *)
(* stop gate is closed, everything whose own release did not fail has been  *)
(* released, and only a failed backend shutdown keeps the backend.          *)
OneFailureIsOneFailure ==
    Done =>
        /\ stop_requested
        /\ \A i \in DOMAIN Steps : Steps[i] \notin failed_steps /\ Steps[i] # "release_backend" =>
              held \cap Releases(Steps[i]) = {}
        /\ "backend" \in held <=>
              {"backend_shutdown", "release_backend"} \cap failed_steps # {}
        /\ evaluation # "off" /\ failed_steps \cap ExportSteps = {} =>
              artifacts["evaluation_complete"] = "complete"
=============================================================================
