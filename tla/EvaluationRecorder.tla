------------------------- MODULE EvaluationRecorder -------------------------
(***************************************************************************)
(* The evaluation recorder (src/utils/evaluation_recorder.cpp): what each  *)
(* upstream call that returned leaves in it, and the figures it writes to  *)
(* frames.csv and summary.csv.                                             *)
(*                                                                         *)
(* The tracking consumer is its only writer (execute_work), and it is read *)
(* after all callbacks have ended.  The adapter's conversion of the Core's *)
(* snapshot (orbslam3_adapter.cpp) is part of a call.  Collection is       *)
(* enabled; a pose is reduced to its validity, and duration stands for     *)
(* every column that is summed or whose maximum is kept.                   *)
(***************************************************************************)
EXTENDS Integers, Sequences, FiniteSetsExt

CONSTANTS None,
          Capacity,          \* of frames_
          PoseEnabled,       \* evaluation.pose_enabled
          Returns,           \* what a call may return: see CoreReturns
          MaxFrames          \* bound: calls

\* TrackingSnapshot of the Core, and how long the call took.
CoreReturns == [raw_tracking_state : Int, has_frame : BOOLEAN, map_id_valid : BOOLEAN,
                captured : BOOLEAN, pose_valid : BOOLEAN, rotation_valid : BOOLEAN,
                inliers : Nat \cup {None}, keyframes : Nat, lost_events : Nat, duration : Nat]

ASSUME RecorderAssumption ==
    /\ Capacity \in Nat \ {0} /\ MaxFrames \in Nat /\ PoseEnabled \in BOOLEAN
    /\ None \notin Nat /\ Returns \subseteq CoreReturns

VARIABLES
    processed_frames,        \* the coordinator's count
    frames, dropped, processed,
    tracking_started, state_counts, startup_frames, after_first_ok_frames, lost_frames,
    snapshots,               \* the counters of frames with a snapshot
    last_keyframes_inserted, adapter_sum, adapter_max,
    returned                 \* history: everything the calls returned

recorder == <<processed_frames, frames, dropped, processed, tracking_started, state_counts,
              startup_frames, after_first_ok_frames, lost_frames, snapshots,
              last_keyframes_inserted, adapter_sum, adapter_max, returned>>

Buckets == -1..6             \* the states -1 to 5, and every other value
OK == {2, 5}                 \* OK and OK_KLT
LOST == 4

RecorderInit ==
    /\ processed_frames = 0
    /\ frames = <<>> /\ dropped = 0 /\ processed = 0
    /\ tracking_started = FALSE
    /\ state_counts = [b \in Buckets |-> 0]
    /\ startup_frames = 0 /\ after_first_ok_frames = 0 /\ lost_frames = 0
    /\ snapshots = [frames |-> 0, pose_collection |-> 0, pose_valid |-> 0, lost_events |-> 0,
                    inlier_samples |-> 0, inlier_sum |-> 0, inlier_min |-> 0, inlier_max |-> 0]
    /\ last_keyframes_inserted = None
    /\ adapter_sum = 0 /\ adapter_max = 0
    /\ returned = <<>>

-----------------------------------------------------------------------------
\* What the adapter keeps of a snapshot: a pose is valid only in a frame that
\* is tracked, with a map, a capture and a finite rigid transform.
convert_tracking_snapshot(core) ==
    [raw_tracking_state |-> core.raw_tracking_state, has_frame |-> core.has_frame,
     inliers |-> core.inliers, keyframes |-> core.keyframes, lost_events |-> core.lost_events,
     duration |-> core.duration,
     pose_valid |-> /\ core.has_frame /\ PoseEnabled /\ core.map_id_valid
                    /\ core.pose_valid /\ core.captured
                    /\ core.raw_tracking_state \in OK
                    /\ core.rotation_valid]

Bucket(state) == IF state \in -1..5 THEN state ELSE 6
Count(condition) == IF condition THEN 1 ELSE 0
Smaller(x, y) == IF x < y THEN x ELSE y
Larger(x, y) == IF x > y THEN x ELSE y

\* Mutant of Minimum: the initial zero takes part in the minimum.
MinimumFromZero(old, inliers) == Smaller(old.inlier_min, inliers)

\* The first sample initializes the minimum.
Minimum(old, inliers) ==
    IF old.inlier_samples = 0 THEN inliers ELSE Smaller(old.inlier_min, inliers)

Collect(old, frame) ==
    LET with_frame == [old EXCEPT !.frames = @ + 1, !.lost_events = @ + frame.lost_events,
                                  !.pose_collection = @ + Count(PoseEnabled),
                                  !.pose_valid = @ + Count(PoseEnabled /\ frame.pose_valid)]
    IN  IF ~frame.has_frame THEN old
        ELSE IF frame.inliers = None THEN with_frame
        ELSE [with_frame EXCEPT !.inlier_samples = @ + 1, !.inlier_sum = @ + frame.inliers,
                                !.inlier_min = Minimum(old, frame.inliers),
                                !.inlier_max = Larger(@, frame.inliers)]

\* "Full aggregates continue after overflow; percentiles later describe the
\* retained prefix only."
Retained(frame) == IF Len(frames) = Capacity THEN frames ELSE Append(frames, frame)

record(frame) ==
    LET started == tracking_started \/ frame.raw_tracking_state \in OK
        bucket == Bucket(frame.raw_tracking_state)
    IN  /\ processed' = processed + 1
        /\ snapshots' = Collect(snapshots, frame)
        /\ last_keyframes_inserted' =
              IF frame.has_frame THEN frame.keyframes ELSE last_keyframes_inserted
        /\ state_counts' = [state_counts EXCEPT ![bucket] = @ + 1]
        /\ tracking_started' = started
        /\ after_first_ok_frames' = after_first_ok_frames + Count(started)
        /\ lost_frames' = lost_frames + Count(started /\ frame.raw_tracking_state = LOST)
        /\ startup_frames' = startup_frames + Count(~started)
        /\ adapter_sum' = adapter_sum + frame.duration
        /\ adapter_max' = Larger(adapter_max, frame.duration)
        /\ frames' = Retained(frame)
        /\ dropped' = dropped + Count(Len(frames) = Capacity)

\* A call that returned: the coordinator completes the frame, then records it.
execute_work(core) ==
    /\ processed_frames < MaxFrames
    /\ processed_frames' = processed_frames + 1
    /\ record(convert_tracking_snapshot(core))
    /\ returned' = Append(returned, core)

-----------------------------------------------------------------------------
(* What write puts into the two files; None is an N/A.                      *)

frames_csv == [i \in 1..Len(frames) |->
    LET f == frames[i] IN
    [raw_tracking_state |-> f.raw_tracking_state, duration |-> f.duration,
     core_snapshot_valid |-> f.has_frame,
     tracked_mappoint_inliers |-> IF f.has_frame THEN f.inliers ELSE None,
     keyframes_inserted_total |-> IF f.has_frame THEN f.keyframes ELSE None,
     pose |-> f.has_frame /\ PoseEnabled /\ f.pose_valid]]

\* Nearest rank in the sorted durations of the retained frames.
Percentile(percent) ==
    LET n == Len(frames)
        rank == (percent * n + 99) \div 100
        UpTo(d) == Cardinality({i \in 1..n : frames[i].duration <= d})
        Below(d) == Cardinality({i \in 1..n : frames[i].duration < d})
    IN  IF n = 0 THEN None
        ELSE CHOOSE d \in {frames[i].duration : i \in 1..n} : Below(d) < rank /\ rank <= UpTo(d)

If(valid, value) == IF valid THEN value ELSE None

summary_csv ==
    [recorded |-> Len(frames), dropped |-> dropped, processed |-> processed,
     startup_frames |-> startup_frames,
     lost_ratio_denominator |-> after_first_ok_frames, lost_frames |-> lost_frames,
     state_counts |-> state_counts,
     core_snapshot_frames |-> snapshots.frames,
     pose_valid_samples |-> snapshots.pose_valid,
     pose_invalid_samples |-> snapshots.pose_collection - snapshots.pose_valid,
     inliers_valid_samples |-> snapshots.inlier_samples,
     inliers_sum |-> If(snapshots.inlier_samples # 0, snapshots.inlier_sum),
     inliers_min |-> If(snapshots.inlier_samples # 0, snapshots.inlier_min),
     inliers_max |-> If(snapshots.inlier_samples # 0, snapshots.inlier_max),
     tracking_lost_events |-> If(snapshots.frames = processed /\ processed # 0,
                                 snapshots.lost_events),
     keyframes_inserted_last_frame |-> last_keyframes_inserted,
     adapter_sum |-> If(processed # 0, adapter_sum), adapter_max |-> If(processed # 0, adapter_max),
     adapter_p50 |-> Percentile(50), adapter_p95 |-> Percentile(95)]

-----------------------------------------------------------------------------
(* A run is the sequence r of what its calls returned; each set holds the   *)
(* calls that a figure is about.                                            *)
Calls(r) == 1..Len(r)
After(r) == {i \in Calls(r) : \E j \in 1..i : r[j].raw_tracking_state \in OK}
Lost(r) == {i \in After(r) : r[i].raw_tracking_state = LOST}
InBucket(r, b) == {i \in Calls(r) : IF b = 6 THEN r[i].raw_tracking_state \notin -1..5
                                             ELSE r[i].raw_tracking_state = b}
Shown(r) == {i \in Calls(r) : r[i].has_frame}
Counted(r) == {i \in Shown(r) : r[i].inliers # None}
Posed(r) == {i \in Shown(r) : convert_tracking_snapshot(r[i]).pose_valid}
Kept(r) == 1..Smaller(Len(r), Capacity)

Inliers(r) == {r[i].inliers : i \in Counted(r)}
Durations(r) == {r[i].duration : i \in Calls(r)}

\* The sum of a sequence of numbers.
SumOf(v) == LET upTo[i \in 0..Len(v)] == IF i = 0 THEN 0 ELSE upTo[i - 1] + v[i]
            IN  upTo[Len(v)]
LeastOrNone(S) == IF S = {} THEN None ELSE Min(S)

\* The least duration that so many of the calls kept do not exceed.
AtLeast(r, percent) ==
    LeastOrNone({d \in {r[i].duration : i \in Kept(r)} :
        100 * Cardinality({i \in Kept(r) : r[i].duration <= d}) >= percent * Cardinality(Kept(r))})

Reference(r) ==
    LET n == Len(r) IN
    [recorded |-> Cardinality(Kept(r)), dropped |-> n - Cardinality(Kept(r)), processed |-> n,
     startup_frames |-> n - Cardinality(After(r)),
     lost_ratio_denominator |-> Cardinality(After(r)), lost_frames |-> Cardinality(Lost(r)),
     state_counts |-> [b \in Buckets |-> Cardinality(InBucket(r, b))],
     core_snapshot_frames |-> Cardinality(Shown(r)),
     pose_valid_samples |-> Cardinality(Posed(r)),
     pose_invalid_samples |-> IF PoseEnabled THEN Cardinality(Shown(r) \ Posed(r)) ELSE 0,
     inliers_valid_samples |-> Cardinality(Counted(r)),
     inliers_sum |-> If(Counted(r) # {},
                        SumOf([i \in Calls(r) |-> IF i \in Counted(r) THEN r[i].inliers ELSE 0])),
     inliers_min |-> LeastOrNone(Inliers(r)),
     inliers_max |-> If(Counted(r) # {}, Max(Inliers(r))),
     tracking_lost_events |-> If(Shown(r) = Calls(r) /\ n > 0,
                                 SumOf([i \in Calls(r) |-> r[i].lost_events])),
     keyframes_inserted_last_frame |-> If(Shown(r) # {}, r[Max(Shown(r))].keyframes),
     adapter_sum |-> If(n > 0, SumOf([i \in Calls(r) |-> r[i].duration])),
     adapter_max |-> If(n > 0, Max(Durations(r))),
     adapter_p50 |-> AtLeast(r, 50), adapter_p95 |-> AtLeast(r, 95)]

(* The figures are those of the run, not of the buffer: whatever overflows, *)
(* and whichever frames come without a snapshot or a map, every figure of   *)
(* summary.csv equals its definition over all calls that returned, and the  *)
(* rows and percentiles are those of the first Capacity of them.            *)
SummaryExact ==
    /\ processed_frames = Len(returned) /\ processed = Len(returned)
    /\ summary_csv = Reference(returned)
    /\ \A i \in Kept(returned) :
          /\ frames_csv[i].raw_tracking_state = returned[i].raw_tracking_state
          /\ frames_csv[i].pose => i \in Posed(returned) /\ returned[i].raw_tracking_state \in OK
=============================================================================
