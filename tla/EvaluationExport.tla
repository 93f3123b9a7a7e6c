-------------------------- MODULE EvaluationExport --------------------------
(***************************************************************************)
(* The evaluation's artifacts, from the first recorded frame to the final  *)
(* trajectory: the recorder, the export steps of SlamNode::shutdown in     *)
(* their order, and the publication of the trajectories.                   *)
(*                                                                         *)
(* phase names the file that is written next.  A file is Absent, Malformed *)
(* (a write failed half-way) or what it says; the content of metadata.json *)
(* is that of the parameters.  A crash is a behaviour that ends early.     *)
(* Finalization models the rest of these steps, and what their failures    *)
(* leave in the stop gate.                                                 *)
(***************************************************************************)
EXTENDS EvaluationRecorder, FinalTrajectory

\* A line of frames.csv.
Row == [raw_tracking_state : Int, duration : Nat, core_snapshot_valid : BOOLEAN,
        tracked_mappoint_inliers : Nat \cup {None}, keyframes_inserted_total : Nat \cup {None},
        pose : BOOLEAN]

\* A file that is missing or malformed says nothing.
ASSUME ExportAssumption ==
    \A nothing \in {Absent, Malformed} :
        /\ nothing \notin [pose_enabled : BOOLEAN]
        /\ nothing \notin [rows : Seq(Row)]
        /\ nothing \notin [processed : Nat, recorded : Nat, dropped : Nat]

VARIABLES
    phase,
    artifacts,               \* the files of the evaluation directory
    trajectory_enabled       \* evaluation.final_trajectory_enabled

exports == <<phase, artifacts, trajectory_enabled>>
vars == <<recorder, trajectory, exports>>

Artifacts == {"metadata", "frames", "summary", "inputs", "export_complete",
              "backend_summary.tmp", "backend_summary"}

Init ==
    /\ RecorderInit /\ TrajectoryInit
    /\ phase = "recording"
    /\ artifacts = [a \in Artifacts |-> Absent]
    /\ trajectory_enabled \in BOOLEAN

-----------------------------------------------------------------------------
track ==
    /\ phase = "recording"
    /\ \E core \in Returns : execute_work(core)
    /\ UNCHANGED <<trajectory, exports>>

\* Callbacks have ended, and the export begins.
begin_export ==
    /\ phase = "recording"
    /\ phase' = "metadata"
    /\ UNCHANGED <<recorder, trajectory, artifacts, trajectory_enabled>>

\* The stream throws while the file is opened, written or closed.
Write(artifact, content, next, after_failure) ==
    /\ \/ artifacts' = [artifacts EXCEPT ![artifact] = content] /\ phase' = next
       \/ \E left \in {Absent, Malformed} :
             artifacts' = [artifacts EXCEPT ![artifact] = left] /\ phase' = after_failure
    /\ UNCHANGED <<recorder, trajectory, trajectory_enabled>>

\* EvaluationRecorder::write: an exception ends it at the file it is at.
write_metadata == phase = "metadata" /\ Write("metadata", [pose_enabled |-> PoseEnabled], "frames", "inputs")
write_frames == phase = "frames" /\ Write("frames", [rows |-> frames_csv], "summary", "inputs")
write_summary == phase = "summary" /\ Write("summary", summary_csv, "inputs", "inputs")

\* Mutant of EvaluationWritten: the last file is not looked at.
EvaluationWrittenMostly == artifacts["frames"] \notin {Absent, Malformed}

\* evaluation_written: the step that wrote the three files did not throw.
EvaluationWritten == artifacts["summary"] \notin {Absent, Malformed}

\* The snapshots of the input counters and of the queue.
write_evaluation_inputs ==
    /\ phase = "inputs"
    /\ Write("inputs", [processed |-> processed_frames, recorded |-> Len(frames), dropped |-> dropped],
             IF EvaluationWritten THEN "export_complete" ELSE "backend", "backend")

write_evaluation_export_complete ==
    /\ phase = "export_complete"
    /\ Write("export_complete", [recorded |-> Len(frames), dropped |-> dropped],
             "backend", "backend")

\* The backend's threads are joined, or its shutdown throws.
backend_shutdown ==
    /\ phase = "backend"
    /\ \E returned_ok \in BOOLEAN :
          phase' = IF returned_ok THEN "summary_available" ELSE "summary_unavailable"
    /\ UNCHANGED <<recorder, trajectory, artifacts, trajectory_enabled>>

\* "Never read live backend totals after a failed join or claim them as final."
write_evaluation_backend_summary ==
    \/ /\ phase = "summary_available"
       /\ Write("backend_summary.tmp", [available |-> TRUE], "rename_available", "trajectory")
    \/ /\ phase = "summary_unavailable"
       /\ Write("backend_summary.tmp", [available |-> FALSE], "rename_unavailable", "over")

rename_backend_summary ==
    /\ phase \in {"rename_available", "rename_unavailable"}
    /\ \/ artifacts' = [artifacts EXCEPT !["backend_summary"] = artifacts["backend_summary.tmp"],
                                         !["backend_summary.tmp"] = Absent]
       \/ UNCHANGED artifacts
    /\ phase' = IF phase = "rename_available" THEN "trajectory" ELSE "over"
    /\ UNCHANGED <<recorder, trajectory, trajectory_enabled>>

export_trajectory ==
    /\ phase = "trajectory" /\ trajectory_enabled
    /\ write_evaluation_final_trajectory
    /\ UNCHANGED <<recorder, exports>>

Interference == phase = "trajectory" /\ someone_else /\ UNCHANGED <<recorder, exports>>

Next ==
    \/ track \/ begin_export
    \/ write_metadata \/ write_frames \/ write_summary
    \/ write_evaluation_inputs \/ write_evaluation_export_complete
    \/ backend_shutdown \/ write_evaluation_backend_summary \/ rename_backend_summary
    \/ export_trajectory \/ Interference

Spec == Init /\ [][Next]_vars

-----------------------------------------------------------------------------
(* The marker certifies a complete export of one run: when                  *)
(* export_complete.txt exists (at any later time, whatever fails after it), *)
(* the four files it speaks of are complete, its figures are those of the   *)
(* rows and of both summaries, and together they are all frames that were   *)
(* processed.  A backend summary with totals exists only after the backend  *)
(* has joined, and the trajectories are exported only then.                 *)
Whole(a) == artifacts[a] \notin {Absent, Malformed}
MarkerCertifiesFigures ==
    /\ Whole("export_complete") =>
        LET marker == artifacts["export_complete"] IN
        /\ \A a \in {"metadata", "frames", "summary", "inputs"} : Whole(a)
        /\ marker.recorded = Len(artifacts["frames"].rows)
        /\ marker.recorded = artifacts["summary"].recorded
        /\ marker.recorded + marker.dropped = artifacts["summary"].processed
        /\ artifacts["inputs"] = [processed |-> marker.recorded + marker.dropped,
                                  recorded |-> marker.recorded, dropped |-> marker.dropped]
    /\ Whole("backend_summary") /\ artifacts["backend_summary"].available => phase = "trajectory"
    /\ step # "begin" => phase = "trajectory"
=============================================================================
