------------------------ MODULE MCEvaluationExport ------------------------
(***************************************************************************)
(* Calls of every kind that the figures tell apart: before and after the   *)
(* first tracked frame, lost, unknown, without a snapshot, with a pose,    *)
(* with and without inliers.  Three of them overflow two records.          *)
(***************************************************************************)
EXTENDS EvaluationExport

Tracked == [raw_tracking_state |-> 2, has_frame |-> TRUE, map_id_valid |-> TRUE, captured |-> TRUE,
            pose_valid |-> TRUE, rotation_valid |-> TRUE, inliers |-> 5, keyframes |-> 1,
            lost_events |-> 0, duration |-> 2]

MCReturns ==
    {Tracked,
     [Tracked EXCEPT !.raw_tracking_state = 1, !.map_id_valid = FALSE, !.inliers = None,
                     !.keyframes = 0, !.duration = 3],
     [Tracked EXCEPT !.raw_tracking_state = 4, !.inliers = 0, !.lost_events = 1, !.keyframes = 2],
     [Tracked EXCEPT !.raw_tracking_state = 5, !.rotation_valid = FALSE, !.inliers = 7, !.duration = 1],
     [Tracked EXCEPT !.raw_tracking_state = 9, !.has_frame = FALSE, !.inliers = 3, !.keyframes = 3]}

\* The export of the trajectories reads nothing of the recorder and of the
\* other files: its own states are explored after a run without frames whose
\* other files were all written.
TrajectoryOnce ==
    step # "begin" => processed_frames = 0 /\ \A a \in {"export_complete", "backend_summary"} : Whole(a)
=============================================================================
