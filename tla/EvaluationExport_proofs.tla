---------------------- MODULE EvaluationExport_proofs -----------------------
(***************************************************************************)
(* What the evaluation's artifacts promise, for every run, capacity and    *)
(* number of rows: a published trajectory is complete, whatever the        *)
(* exporter leaves behind, the marker certifies the other files, whichever *)
(* write fails, and the summary is the exact account of all calls.         *)
(***************************************************************************)
EXTENDS EvaluationExport, SequenceTheorems, FiniteSetTheorems, WellFoundedInduction, TLAPS

Returned == {"validate", "inspect", "manifest", "name_manifest", "recheck", "publish", "done"}
Validated == Returned \ {"validate"}
Inspected == Validated \ {"inspect"}
Named == Inspected \ {"manifest", "name_manifest"}

(* PublishedComplete is not inductive: it says nothing of a step before the *)
(* publication.  The strengthening says what each step has established.     *)
StepsEstablish ==
    /\ step \in Returned => result \in Results
    /\ step \in Validated => ResultValid(result)
    /\ step \in Inspected => \A f \in Files : FileValid(f)
    /\ step \in Named => manifest = Manifest /\ temporary = "absent"
    /\ step \notin {"begin", "failed", "done"} => staging = "ours"
    /\ step = "done" <=> destination = "published"
    /\ (temporary # "absent" \/ manifest # Absent) /\ destination # "published" => staging = "ours"

TrajectoryInv == TrajectoryTypeOK /\ StepsEstablish

LEMMA ManifestTyped ==
    ASSUME TrajectoryTypeOK, result \in Results
    PROVE  Manifest \in Manifests /\ Manifest # Absent
<1>1. Manifest \in Manifests
    BY DEF Manifest, Manifests, Results
<1> QED BY <1>1, TrajectoryAssumption

LEMMA TrajectoryInvInit == TrajectoryInit => TrajectoryInv
BY DEF TrajectoryInit, TrajectoryInv, TrajectoryTypeOK, StepsEstablish, Contents, Returned, Validated,
       Inspected, Named

LEMMA TrajectoryInvStep == TrajectoryInv /\ [TrajectoryNext]_trajectory => TrajectoryInv'
<1> SUFFICES ASSUME TrajectoryInv, [TrajectoryNext]_trajectory PROVE TrajectoryInv'
    OBVIOUS
<1> USE DEF TrajectoryInv, TrajectoryTypeOK, StepsEstablish, Returned, Validated, Inspected, Named
<1>1. CASE begin
    BY <1>1 DEF begin, Fail
<1>2. CASE export
    BY <1>2 DEF export, Fail
<1>3. CASE validate
    BY <1>3 DEF validate, Fail
<1>4. CASE inspect
    BY <1>4 DEF inspect, Fail, FileValid
<1>5. CASE write_manifest
    BY <1>5 DEF write_manifest, Fail, FileValid
<1>6. CASE name_manifest
    <2>1. result \in Results /\ Manifest \in Manifests
        BY <1>6, ManifestTyped DEF name_manifest
    <2>2. Manifest' = Manifest /\ \A f \in Files : FileValid(f)' = FileValid(f)
        BY <1>6 DEF name_manifest, Manifest, FileValid
    <2> QED BY <1>6, <2>1, <2>2 DEF name_manifest, Fail
<1>7. CASE recheck
    BY <1>7 DEF recheck, Fail, FileValid, Manifest
<1>8. CASE publish
    BY <1>8 DEF publish, Fail, FileValid, Manifest
<1>9. CASE someone_else
    BY <1>9 DEF someone_else, FileValid, Manifest
<1>10. CASE UNCHANGED trajectory
    BY <1>10 DEF trajectory, FileValid, Manifest
<1> QED BY <1>1, <1>2, <1>3, <1>4, <1>5, <1>6, <1>7, <1>8, <1>9, <1>10
        DEF TrajectoryNext, write_evaluation_final_trajectory

LEMMA TrajectoryInvImplies == TrajectoryInv => PublishedComplete
<1> SUFFICES ASSUME TrajectoryInv PROVE PublishedComplete
    OBVIOUS
<1> USE DEF TrajectoryInv, StepsEstablish, Returned, Validated, Inspected, Named
<1>1. CASE destination = "published"
    <2>1. /\ step = "done" /\ result \in Results /\ ResultValid(result)
          /\ \A f \in Files : FileValid(f)
          /\ manifest = Manifest /\ temporary = "absent"
        BY <1>1
    <2>2. manifest # Absent
        BY <2>1, ManifestTyped
    <2>3. ASSUME NEW f \in Files
          PROVE  /\ manifest.present[f] = (files[f] # Absent)
                 /\ manifest.written[f] = result.written[f]
        BY <2>1, <2>3 DEF Manifest
    <2>4. ASSUME NEW f \in Files
          PROVE  IF manifest.present[f] THEN files[f] = manifest.written[f]
                 ELSE files[f] = Absent /\ manifest.written[f] = 0
        BY <2>1, <2>3, <2>4 DEF FileValid
    <2>5. manifest.available <=> result.status = "Complete"
        BY <2>1 DEF Manifest
    <2>6. manifest.map_selected = result.map_selected
        BY <2>1 DEF Manifest
    <2>7. ASSUME manifest.available
          PROVE  manifest.map_selected /\ \A f \in Files : manifest.present[f] /\ manifest.written[f] > 0
        <3>1. result.map_selected /\ \A f \in Files : result.written[f] # 0
            BY <2>1, <2>5, <2>7 DEF ResultValid
        <3>2. \A f \in Files : result.written[f] \in 0..MaxRows
            BY <2>1 DEF Results
        <3>3. \A f \in Files : files[f] # Absent
            BY <2>1, <3>1 DEF FileValid
        <3>4. ASSUME NEW f \in Files PROVE manifest.present[f] /\ manifest.written[f] > 0
            <4>1. manifest.written[f] \in 0..MaxRows /\ manifest.written[f] # 0
                BY <2>3, <3>1, <3>2, <3>4
            <4>2. manifest.present[f]
                BY <2>3, <3>3, <3>4
            <4> QED BY <4>1, <4>2, TrajectoryAssumption
        <3> QED BY <2>6, <3>1, <3>4
    <2> QED BY <1>1, <2>1, <2>2, <2>4, <2>7 DEF PublishedComplete
<1>2. CASE destination # "published"
    BY <1>2 DEF PublishedComplete
<1> QED BY <1>1, <1>2

(* "Publish the complete directory last", for every number of rows and      *)
(* every exporter: what is found under final_trajectory, at any moment, is  *)
(* complete and its manifest tells the truth about the files beside it.     *)
THEOREM PublicationIsComplete == TrajectorySpec => []PublishedComplete
<1>1. TrajectorySpec => []TrajectoryInv
    BY TrajectoryInvInit, TrajectoryInvStep, PTL DEF TrajectorySpec
<1> QED BY <1>1, TrajectoryInvImplies, PTL

-----------------------------------------------------------------------------
(* The recorder's figures agree with each other after every call.           *)
Snapshots == {convert_tracking_snapshot(core) : core \in Returns}

FiguresInv ==
    /\ frames \in Seq(Snapshots)
    /\ dropped \in Nat
    /\ processed = Len(frames) + dropped
    /\ processed_frames = processed

\* The phases in which a file cannot have been written yet.
BeforeMetadata == {"recording", "metadata"}
BeforeFrames == BeforeMetadata \cup {"frames"}
BeforeSummary == BeforeFrames \cup {"summary"}
BeforeInputs == BeforeSummary \cup {"inputs"}
BeforeMarker == BeforeInputs \cup {"export_complete"}
BeforeTotals == BeforeMarker \cup {"backend", "summary_available", "summary_unavailable",
                                   "rename_available", "rename_unavailable"}
Phases == BeforeTotals \cup {"trajectory", "over"}

(* MarkerCertifiesFigures is not inductive: it says nothing before the      *)
(* marker is there.  Its strengthening says in which phase a file may be    *)
(* whole and what a whole file then says.                                   *)
NotYet ==
    /\ phase \in BeforeMetadata => ~Whole("metadata")
    /\ phase \in BeforeFrames => ~Whole("frames")
    /\ phase \in BeforeSummary => ~Whole("summary")
    /\ phase \in BeforeInputs => ~Whole("inputs")
    /\ phase \in BeforeMarker => ~Whole("export_complete")
    /\ phase \in BeforeTotals => ~Whole("backend_summary")

Already ==
    /\ phase \in {"frames", "summary"} => Whole("metadata")
    /\ phase = "summary" => Whole("frames")
    /\ phase = "export_complete" => Whole("summary") /\ Whole("inputs")
    /\ phase = "rename_available" => artifacts["backend_summary.tmp"] = [available |-> TRUE]
    /\ phase = "rename_unavailable" => artifacts["backend_summary.tmp"] = [available |-> FALSE]

InputsContent == [processed |-> processed_frames, recorded |-> Len(frames), dropped |-> dropped]
MarkerContent == [recorded |-> Len(frames), dropped |-> dropped]

Says ==
    /\ Whole("frames") => artifacts["frames"] = [rows |-> frames_csv]
    /\ Whole("summary") => /\ Whole("metadata") /\ Whole("frames")
                           /\ artifacts["summary"] = summary_csv
    /\ Whole("inputs") => artifacts["inputs"] = InputsContent
    /\ Whole("export_complete") => /\ Whole("summary") /\ Whole("inputs")
                                   /\ artifacts["export_complete"] = MarkerContent
    /\ Whole("backend_summary") =>
          \/ phase = "trajectory"
          \/ phase = "over" /\ artifacts["backend_summary"] = [available |-> FALSE]

ExportInv ==
    /\ phase \in Phases
    /\ artifacts = [a \in Artifacts |-> artifacts[a]]
    /\ step # "begin" => phase = "trajectory"
    /\ NotYet /\ Already /\ Says

(* A call adds one frame to the figures, retained or dropped.               *)
LEMMA FiguresStep ==
  ASSUME FiguresInv, NEW core \in Returns, execute_work(core)
  PROVE  FiguresInv'
<1> DEFINE frame == convert_tracking_snapshot(core)
<1>1. frame \in Snapshots
  BY DEF Snapshots
<1>2. /\ frames' = Retained(frame)
      /\ dropped' = dropped + Count(Len(frames) = Capacity)
      /\ processed' = processed + 1
      /\ processed_frames' = processed_frames + 1
  BY DEF execute_work, record
<1> HIDE DEF frame
<1>3. /\ frames \in Seq(Snapshots) /\ Len(frames) \in Nat /\ dropped \in Nat
      /\ processed = Len(frames) + dropped /\ processed_frames = processed
  BY LenProperties DEF FiguresInv
<1>4. CASE Len(frames) = Capacity
  BY <1>2, <1>3, <1>4 DEF FiguresInv, Retained, Count
<1>5. CASE Len(frames) # Capacity
  <2>1. Append(frames, frame) \in Seq(Snapshots) /\ Len(Append(frames, frame)) = Len(frames) + 1
    BY <1>1, <1>3, AppendProperties
  <2> QED
    BY <1>2, <1>3, <1>5, <2>1 DEF FiguresInv, Retained, Count
<1> QED
  BY <1>4, <1>5

(* Every line of frames.csv has the type of one.                            *)
LEMMA RowsTyped ==
  ASSUME FiguresInv
  PROVE  [rows |-> frames_csv] \in [rows : Seq(Row)] /\ Len(frames_csv) = Len(frames)
<1>1. frames \in Seq(Snapshots) /\ Len(frames) \in Nat
  BY LenProperties DEF FiguresInv
<1>2. ASSUME NEW i \in 1..Len(frames)
      PROVE  frames_csv[i] \in Row
  <2>1. PICK core \in Returns : frames[i] = convert_tracking_snapshot(core)
    <3>1. frames[i] \in Snapshots
      BY <1>1, ElementOfSeq
    <3> QED
      BY <3>1 DEF Snapshots
  <2>2. core \in CoreReturns
    BY RecorderAssumption
  <2> DEFINE f == frames[i]
  <2>3. /\ f.raw_tracking_state \in Int /\ f.duration \in Nat /\ f.has_frame \in BOOLEAN
        /\ f.inliers \in Nat \cup {None} /\ f.keyframes \in Nat
    BY <2>1, <2>2 DEF convert_tracking_snapshot, CoreReturns
  <2>4. (f.has_frame /\ PoseEnabled /\ f.pose_valid) \in BOOLEAN
    OBVIOUS
  <2>5. frames_csv[i] =
          [raw_tracking_state |-> f.raw_tracking_state, duration |-> f.duration,
           core_snapshot_valid |-> f.has_frame,
           tracked_mappoint_inliers |-> IF f.has_frame THEN f.inliers ELSE None,
           keyframes_inserted_total |-> IF f.has_frame THEN f.keyframes ELSE None,
           pose |-> f.has_frame /\ PoseEnabled /\ f.pose_valid]
    BY <1>1 DEF frames_csv
  <2> DEFINE pose == f.has_frame /\ PoseEnabled /\ f.pose_valid
             inliers == IF f.has_frame THEN f.inliers ELSE None
             keyframes == IF f.has_frame THEN f.keyframes ELSE None
  <2>6. inliers \in Nat \cup {None} /\ keyframes \in Nat \cup {None}
    BY <2>3
  <2> HIDE DEF pose, inliers, keyframes, f
  <2>7. pose \in BOOLEAN
    BY <2>4 DEF pose
  <2>8. frames_csv[i] =
          [raw_tracking_state |-> f.raw_tracking_state, duration |-> f.duration,
           core_snapshot_valid |-> f.has_frame, tracked_mappoint_inliers |-> inliers,
           keyframes_inserted_total |-> keyframes, pose |-> pose]
    BY <2>5, Zenon DEF pose, inliers, keyframes
  <2> QED
    BY <2>3, <2>6, <2>7, <2>8 DEF Row
<1>3. frames_csv = [i \in 1..Len(frames) |-> frames_csv[i]]
  BY DEF frames_csv
<1>4. frames_csv \in Seq(Row) /\ Len(frames_csv) = Len(frames)
  <2> HIDE DEF frames_csv
  <2>1. PICK n \in Nat : n = Len(frames)
    BY <1>1
  <2>2. frames_csv \in [1..n -> Row]
    BY <1>2, <1>3, <2>1
  <2> QED
    <3>1. \A q : q \in [1..n -> Row] => q \in Seq(Row) /\ Len(q) = n
      BY <2>1
    <3> QED
      BY <2>1, <2>2, <3>1
<1> QED
  BY <1>4

\* A percentile as a function of the retained frames.
PercentileOf(q, percent) ==
    LET n == Len(q)
        rank == (percent * n + 99) \div 100
        UpTo(d) == Cardinality({i \in 1..n : q[i].duration <= d})
        Below(d) == Cardinality({i \in 1..n : q[i].duration < d})
    IN  IF n = 0 THEN None
        ELSE CHOOSE d \in {q[i].duration : i \in 1..n} : Below(d) < rank /\ rank <= UpTo(d)

(* The figures do not change after the recording.                           *)
LEMMA SameFigures ==
  ASSUME UNCHANGED recorder
  PROVE  /\ FiguresInv => FiguresInv'
         /\ frames_csv' = frames_csv /\ summary_csv' = summary_csv
         /\ InputsContent' = InputsContent /\ MarkerContent' = MarkerContent
<1>1. /\ frames' = frames /\ dropped' = dropped /\ processed' = processed
      /\ processed_frames' = processed_frames
  BY DEF recorder
<1>2. FiguresInv => FiguresInv'
  BY <1>1 DEF FiguresInv
<1>3. frames_csv' = frames_csv
  BY <1>1, Zenon DEF frames_csv
<1>4. Percentile(50)' = Percentile(50) /\ Percentile(95)' = Percentile(95)
  <2>1. /\ Percentile(50) = PercentileOf(frames, 50) /\ Percentile(95) = PercentileOf(frames, 95)
        /\ Percentile(50)' = PercentileOf(frames', 50) /\ Percentile(95)' = PercentileOf(frames', 95)
    BY Zenon DEF Percentile, PercentileOf
  <2> QED
    BY <1>1, <2>1, Zenon
<1>5. summary_csv' = summary_csv
  BY <1>1, <1>4 DEF recorder, summary_csv
<1>6. InputsContent' = InputsContent /\ MarkerContent' = MarkerContent
  BY <1>1 DEF InputsContent, MarkerContent
<1> QED
  BY <1>2, <1>3, <1>5, <1>6

(* What a write leaves: the file it names is what it should be, or says     *)
(* nothing; the others are not touched.                                     *)
LEMMA WriteLeaves ==
  ASSUME NEW artifact \in Artifacts, NEW content, NEW next, NEW after_failure,
         artifacts = [a \in Artifacts |-> artifacts[a]],
         Write(artifact, content, next, after_failure)
  PROVE  /\ artifacts' = [a \in Artifacts |-> artifacts'[a]]
         /\ \A a \in Artifacts \ {artifact} : artifacts'[a] = artifacts[a]
         /\ \A a \in Artifacts \ {artifact} : Whole(a)' <=> Whole(a)
         /\ \/ phase' = next /\ artifacts'[artifact] = content
            \/ phase' = after_failure /\ ~Whole(artifact)'
         /\ Whole(artifact)' => phase' = next /\ artifacts'[artifact] = content
         /\ UNCHANGED <<recorder, trajectory>>
<1>1. /\ \/ artifacts' = [artifacts EXCEPT ![artifact] = content] /\ phase' = next
         \/ \E left \in {Absent, Malformed} :
               artifacts' = [artifacts EXCEPT ![artifact] = left] /\ phase' = after_failure
      /\ UNCHANGED <<recorder, trajectory>>
  BY DEF Write
<1>2. \A a \in Artifacts \ {artifact} : artifacts'[a] = artifacts[a]
  BY <1>1
<1>3. artifacts' = [a \in Artifacts |-> artifacts'[a]]
  BY <1>1
<1>4. \/ phase' = next /\ artifacts'[artifact] = content
      \/ phase' = after_failure /\ artifacts'[artifact] \in {Absent, Malformed}
  BY <1>1
<1> QED
  BY <1>1, <1>2, <1>3, <1>4 DEF Whole

(* What a successful write leaves is not nothing.                           *)
LEMMA ContentsAreWhole ==
  ASSUME FiguresInv
  PROVE  /\ [pose_enabled |-> PoseEnabled] \notin {Absent, Malformed}
         /\ [rows |-> frames_csv] \notin {Absent, Malformed}
         /\ InputsContent \notin {Absent, Malformed}
<1>1. [pose_enabled |-> PoseEnabled] \in [pose_enabled : BOOLEAN]
  BY RecorderAssumption
<1>2. [rows |-> frames_csv] \in [rows : Seq(Row)]
  BY RowsTyped
<1>3. InputsContent \in [processed : Nat, recorded : Nat, dropped : Nat]
  <2>1. Len(frames) \in Nat /\ dropped \in Nat /\ processed_frames \in Nat
    BY LenProperties DEF FiguresInv
  <2> QED
    BY <2>1 DEF InputsContent
<1> QED
  BY <1>1, <1>2, <1>3, ExportAssumption

(* Each phase establishes what the next one relies on, or skips the marker. *)
LEMMA ExportStep ==
  ASSUME FiguresInv, ExportInv, [Next]_vars
  PROVE  FiguresInv' /\ ExportInv'
<1> USE DEF BeforeMetadata, BeforeFrames, BeforeSummary, BeforeInputs, BeforeMarker,
            BeforeTotals, Phases
<1>a. /\ {"metadata", "frames", "summary", "inputs", "export_complete",
          "backend_summary.tmp", "backend_summary"} = Artifacts
      /\ artifacts = [a \in Artifacts |-> artifacts[a]]
  BY DEF Artifacts, ExportInv
<1>same. UNCHANGED recorder =>
           /\ FiguresInv' /\ frames_csv' = frames_csv /\ summary_csv' = summary_csv
           /\ InputsContent' = InputsContent /\ MarkerContent' = MarkerContent
  BY SameFigures
<1>kept. ASSUME UNCHANGED artifacts PROVE \A a : Whole(a)' <=> Whole(a)
  BY <1>kept DEF Whole
<1>step. UNCHANGED trajectory => step' = step
  BY DEF trajectory
<1>1. CASE track
  <2>1. PICK core \in Returns : execute_work(core)
    BY <1>1 DEF track
  <2>2. FiguresInv'
    BY <2>1, FiguresStep
  <2>3. phase = "recording" /\ phase' = phase /\ step' = step /\ artifacts' = artifacts
    BY <1>1, <1>step DEF track, exports
  <2>4. ExportInv'
    <3>1. \A a \in {"metadata", "frames", "summary", "inputs", "export_complete",
                    "backend_summary"} : ~Whole(a) /\ ~Whole(a)'
      BY <1>kept, <2>3 DEF ExportInv, NotYet
    <3> QED
      BY <2>3, <3>1 DEF ExportInv, NotYet, Already, Says
  <2> QED
    BY <2>2, <2>4
<1>2. CASE begin_export
  <2>1. /\ phase = "recording" /\ phase' = "metadata" /\ artifacts' = artifacts /\ step' = step
        /\ FiguresInv'
    BY <1>2, <1>same, <1>step DEF begin_export
  <2>2. \A a \in {"metadata", "frames", "summary", "inputs", "export_complete",
                  "backend_summary"} : ~Whole(a) /\ ~Whole(a)'
    BY <1>kept, <2>1 DEF ExportInv, NotYet
  <2> QED
    BY <2>1, <2>2 DEF ExportInv, NotYet, Already, Says
<1>3. CASE write_metadata
  <2>1. /\ phase = "metadata"
        /\ Write("metadata", [pose_enabled |-> PoseEnabled], "frames", "inputs")
    BY <1>3 DEF write_metadata
  <2>2. /\ artifacts' = [a \in Artifacts |-> artifacts'[a]]
        /\ \A a \in Artifacts \ {"metadata"} : Whole(a)' <=> Whole(a)
        /\ \/ phase' = "frames" /\ artifacts'["metadata"] = [pose_enabled |-> PoseEnabled]
           \/ phase' = "inputs" /\ ~Whole("metadata")'
        /\ UNCHANGED <<recorder, trajectory>>
    BY <1>a, <2>1, WriteLeaves
  <2>3. phase' = "frames" => Whole("metadata")'
    BY <2>2, ContentsAreWhole DEF Whole
  <2>4. \A a \in {"frames", "summary", "inputs", "export_complete", "backend_summary"} : ~Whole(a)'
    BY <1>a, <2>1, <2>2 DEF ExportInv, NotYet
  <2>5. step' = "begin"
    BY <1>step, <2>1, <2>2 DEF ExportInv
  <2> QED
    BY <1>same, <2>2, <2>3, <2>4, <2>5 DEF ExportInv, NotYet, Already, Says
<1>4. CASE write_frames
  <2>1. /\ phase = "frames"
        /\ Write("frames", [rows |-> frames_csv], "summary", "inputs")
    BY <1>4 DEF write_frames
  <2>2. /\ artifacts' = [a \in Artifacts |-> artifacts'[a]]
        /\ \A a \in Artifacts \ {"frames"} : Whole(a)' <=> Whole(a)
        /\ \/ phase' = "summary" /\ artifacts'["frames"] = [rows |-> frames_csv]
           \/ phase' = "inputs" /\ ~Whole("frames")'
        /\ UNCHANGED <<recorder, trajectory>>
    BY <1>a, <2>1, WriteLeaves
  <2>3. phase' = "summary" => Whole("frames")'
    BY <2>2, ContentsAreWhole DEF Whole
  <2>4. Whole("metadata")'
        /\ \A a \in {"summary", "inputs", "export_complete", "backend_summary"} : ~Whole(a)'
    BY <1>a, <2>1, <2>2 DEF ExportInv, NotYet, Already
  <2>5. step' = "begin"
    BY <1>step, <2>1, <2>2 DEF ExportInv
  <2>6. Whole("frames")' => artifacts'["frames"] = [rows |-> frames_csv']
    BY <1>same, <2>2
  <2> QED
    BY <1>same, <2>2, <2>3, <2>4, <2>5, <2>6 DEF ExportInv, NotYet, Already, Says
<1>5. CASE write_summary
  <2>1. phase = "summary" /\ Write("summary", summary_csv, "inputs", "inputs")
    BY <1>5 DEF write_summary
  <2>2. /\ artifacts' = [a \in Artifacts |-> artifacts'[a]]
        /\ \A a \in Artifacts \ {"summary"} : /\ artifacts'[a] = artifacts[a]
                                              /\ Whole(a)' <=> Whole(a)
        /\ phase' = "inputs"
        /\ Whole("summary")' => artifacts'["summary"] = summary_csv
        /\ UNCHANGED <<recorder, trajectory>>
    BY <1>a, <2>1, WriteLeaves
  <2>3. /\ Whole("metadata")' /\ Whole("frames")'
        /\ artifacts'["frames"] = [rows |-> frames_csv']
        /\ \A a \in {"inputs", "export_complete", "backend_summary"} : ~Whole(a)'
    BY <1>a, <1>same, <2>1, <2>2 DEF ExportInv, NotYet, Already, Says
  <2>5. step' = "begin"
    BY <1>step, <2>1, <2>2 DEF ExportInv
  <2> QED
    BY <1>same, <2>2, <2>3, <2>5 DEF ExportInv, NotYet, Already, Says
<1>6. CASE write_evaluation_inputs
  <2>1. /\ phase = "inputs"
        /\ Write("inputs", InputsContent,
                 IF EvaluationWritten THEN "export_complete" ELSE "backend", "backend")
    BY <1>6 DEF write_evaluation_inputs, InputsContent
  <2> DEFINE next == IF EvaluationWritten THEN "export_complete" ELSE "backend"
  <2>n. next = "backend" \/ (next = "export_complete" /\ Whole("summary"))
    BY DEF EvaluationWritten, Whole
  <2>2. /\ artifacts' = [a \in Artifacts |-> artifacts'[a]]
        /\ \A a \in Artifacts \ {"inputs"} : /\ artifacts'[a] = artifacts[a]
                                             /\ Whole(a)' <=> Whole(a)
        /\ \/ phase' = next /\ artifacts'["inputs"] = InputsContent
           \/ phase' = "backend" /\ ~Whole("inputs")'
        /\ Whole("inputs")' => artifacts'["inputs"] = InputsContent
        /\ UNCHANGED <<recorder, trajectory>>
    <3> HIDE DEF next
    <3>1. Write("inputs", InputsContent, next, "backend")
      BY <2>1 DEF next
    <3> QED
      BY <1>a, <3>1, WriteLeaves
  <2> HIDE DEF next
  <2>3. phase' \in {"backend", "export_complete"}
    BY <2>n, <2>2
  <2>4. phase' = "export_complete" => Whole("summary")' /\ Whole("inputs")'
    <3>1. ASSUME phase' = "export_complete" PROVE Whole("summary")' /\ Whole("inputs")'
      <4>1. next = "export_complete" /\ artifacts'["inputs"] = InputsContent
        BY <2>2, <3>1
      <4>2. Whole("inputs")'
        BY <4>1, ContentsAreWhole DEF Whole
      <4> QED
        BY <1>a, <2>n, <2>2, <4>1, <4>2
    <3> QED
      BY <3>1
  <2>5. step' = "begin" /\ ~Whole("export_complete")' /\ ~Whole("backend_summary")'
    BY <1>a, <1>step, <2>1, <2>2 DEF ExportInv, NotYet
  <2>6. /\ Whole("frames")' => artifacts'["frames"] = [rows |-> frames_csv']
        /\ Whole("summary")' => /\ Whole("metadata")' /\ Whole("frames")'
                                /\ artifacts'["summary"] = summary_csv'
        /\ Whole("inputs")' => artifacts'["inputs"] = InputsContent'
    BY <1>a, <1>same, <2>2 DEF ExportInv, Says
  <2> QED
    BY <1>same, <2>2, <2>3, <2>4, <2>5, <2>6 DEF ExportInv, NotYet, Already, Says
<1>7. CASE write_evaluation_export_complete
  <2>1. /\ phase = "export_complete"
        /\ Write("export_complete", MarkerContent, "backend", "backend")
    BY <1>7 DEF write_evaluation_export_complete, MarkerContent
  <2>2. /\ artifacts' = [a \in Artifacts |-> artifacts'[a]]
        /\ \A a \in Artifacts \ {"export_complete"} : /\ artifacts'[a] = artifacts[a]
                                                      /\ Whole(a)' <=> Whole(a)
        /\ phase' = "backend"
        /\ Whole("export_complete")' => artifacts'["export_complete"] = MarkerContent
        /\ UNCHANGED <<recorder, trajectory>>
    BY <1>a, <2>1, WriteLeaves
  <2>3. Whole("summary")' /\ Whole("inputs")' /\ ~Whole("backend_summary")' /\ step' = "begin"
    BY <1>a, <1>step, <2>1, <2>2 DEF ExportInv, NotYet, Already
  <2>4. /\ Whole("frames")' => artifacts'["frames"] = [rows |-> frames_csv']
        /\ Whole("summary")' => /\ Whole("metadata")' /\ Whole("frames")'
                                /\ artifacts'["summary"] = summary_csv'
        /\ Whole("inputs")' => artifacts'["inputs"] = InputsContent'
    BY <1>a, <1>same, <2>2 DEF ExportInv, Says
  <2> QED
    BY <1>same, <2>2, <2>3, <2>4 DEF ExportInv, NotYet, Already, Says
<1>8. CASE backend_shutdown
  <2>1. /\ phase = "backend" /\ phase' \in {"summary_available", "summary_unavailable"}
        /\ UNCHANGED <<recorder, trajectory, artifacts>>
    BY <1>8 DEF backend_shutdown
  <2>2. \A a : Whole(a)' <=> Whole(a)
    BY <1>kept, <2>1
  <2> QED
    BY <1>same, <1>step, <2>1, <2>2 DEF ExportInv, NotYet, Already, Says
<1>9. CASE write_evaluation_backend_summary
  <2>1. PICK available \in BOOLEAN, next \in {"rename_available", "rename_unavailable"},
             after_failure \in {"trajectory", "over"} :
          /\ phase \in {"summary_available", "summary_unavailable"}
          /\ next = "rename_available" => available = TRUE
          /\ next = "rename_unavailable" => available = FALSE
          /\ Write("backend_summary.tmp", [available |-> available], next, after_failure)
    BY <1>9 DEF write_evaluation_backend_summary
  <2>2. /\ artifacts' = [a \in Artifacts |-> artifacts'[a]]
        /\ \A a \in Artifacts \ {"backend_summary.tmp"} : /\ artifacts'[a] = artifacts[a]
                                                          /\ Whole(a)' <=> Whole(a)
        /\ \/ phase' = next /\ artifacts'["backend_summary.tmp"] = [available |-> available]
           \/ phase' = after_failure
        /\ UNCHANGED <<recorder, trajectory>>
    BY <1>a, <2>1, WriteLeaves
  <2>3. step' = "begin" /\ ~Whole("backend_summary")'
    BY <1>a, <1>step, <2>1, <2>2 DEF ExportInv, NotYet
  <2>4. Already'
    BY <2>1, <2>2 DEF Already
  <2>5. NotYet'
    BY <2>1, <2>2, <2>3 DEF NotYet
  <2>6. Says'
    BY <1>a, <1>same, <2>2, <2>3 DEF ExportInv, Says
  <2> QED
    BY <1>same, <2>1, <2>2, <2>3, <2>4, <2>5, <2>6 DEF ExportInv
<1>10. CASE rename_backend_summary
  <2>1. /\ phase \in {"rename_available", "rename_unavailable"}
        /\ \/ artifacts' = [artifacts EXCEPT
                              !["backend_summary"] = artifacts["backend_summary.tmp"],
                              !["backend_summary.tmp"] = Absent]
           \/ UNCHANGED artifacts
        /\ phase' = IF phase = "rename_available" THEN "trajectory" ELSE "over"
        /\ UNCHANGED <<recorder, trajectory>>
    BY <1>10 DEF rename_backend_summary
  <2>2. /\ artifacts' = [a \in Artifacts |-> artifacts'[a]]
        /\ \A a \in Artifacts \ {"backend_summary", "backend_summary.tmp"} :
              artifacts'[a] = artifacts[a]
        /\ \/ artifacts'["backend_summary"] = artifacts["backend_summary.tmp"]
           \/ artifacts'["backend_summary"] = artifacts["backend_summary"]
    BY <1>a, <2>1
  <2>3. \A a \in Artifacts \ {"backend_summary", "backend_summary.tmp"} : Whole(a)' <=> Whole(a)
    BY <2>2 DEF Whole
  <2>4. Whole("backend_summary")' =>
           artifacts'["backend_summary"] = artifacts["backend_summary.tmp"]
    <3>1. ~Whole("backend_summary")
      BY <2>1 DEF ExportInv, NotYet
    <3> QED
      BY <2>2, <3>1 DEF Whole
  <2>5. Whole("backend_summary")' =>
          \/ phase' = "trajectory"
          \/ phase' = "over" /\ artifacts'["backend_summary"] = [available |-> FALSE]
    BY <2>1, <2>4 DEF ExportInv, Already
  <2>6. /\ Whole("frames")' => artifacts'["frames"] = [rows |-> frames_csv']
        /\ Whole("summary")' => /\ Whole("metadata")' /\ Whole("frames")'
                                /\ artifacts'["summary"] = summary_csv'
        /\ Whole("inputs")' => artifacts'["inputs"] = InputsContent'
        /\ Whole("export_complete")' => /\ Whole("summary")' /\ Whole("inputs")'
                                        /\ artifacts'["export_complete"] = MarkerContent'
    BY <1>a, <1>same, <2>1, <2>2, <2>3 DEF ExportInv, Says
  <2>7. step' = "begin" /\ phase' \in {"trajectory", "over"}
    BY <1>step, <2>1 DEF ExportInv
  <2> QED
    BY <1>same, <2>1, <2>2, <2>5, <2>6, <2>7 DEF ExportInv, NotYet, Already, Says
<1>11. CASE export_trajectory \/ Interference \/ UNCHANGED vars
  <2>1. /\ UNCHANGED <<recorder, phase, artifacts>>
        /\ phase = "trajectory" \/ step' = step
    BY <1>11 DEF export_trajectory, Interference, exports, vars, trajectory
  <2>2. \A a : Whole(a)' <=> Whole(a)
    BY <1>kept, <2>1
  <2>3. NotYet' /\ Already'
    BY <2>1, <2>2 DEF ExportInv, NotYet, Already
  <2>4. Says'
    BY <1>same, <2>1, <2>2 DEF ExportInv, Says
  <2> QED
    BY <1>same, <2>1, <2>3, <2>4 DEF ExportInv
<1> QED
  BY <1>1, <1>2, <1>3, <1>4, <1>5, <1>6, <1>7, <1>8, <1>9, <1>10, <1>11 DEF Next

LEMMA ExportInit == Init => FiguresInv /\ ExportInv
<1> SUFFICES ASSUME Init PROVE FiguresInv /\ ExportInv
  OBVIOUS
<1>1. /\ frames = <<>> /\ dropped = 0 /\ processed = 0 /\ processed_frames = 0
      /\ step = "begin" /\ phase = "recording"
      /\ artifacts = [a \in Artifacts |-> Absent]
  BY DEF Init, RecorderInit, TrajectoryInit
<1>2. FiguresInv
  BY <1>1 DEF FiguresInv
<1>3. \A a \in {"metadata", "frames", "summary", "inputs", "export_complete",
                "backend_summary"} : ~Whole(a)
  BY <1>1 DEF Whole, Artifacts
<1>4. ExportInv
  BY <1>1, <1>3
  DEF ExportInv, NotYet, Already, Says, BeforeMetadata, BeforeFrames, BeforeSummary,
      BeforeInputs, BeforeMarker, BeforeTotals, Phases
<1> QED
  BY <1>2, <1>4

(* What a whole file says makes the marker true.                            *)
LEMMA ExportMeansMarker ==
  ASSUME FiguresInv, ExportInv
  PROVE  MarkerCertifiesFigures
<1>1. ASSUME Whole("export_complete")
      PROVE  LET marker == artifacts["export_complete"] IN
             /\ \A a \in {"metadata", "frames", "summary", "inputs"} : Whole(a)
             /\ marker.recorded = Len(artifacts["frames"].rows)
             /\ marker.recorded = artifacts["summary"].recorded
             /\ marker.recorded + marker.dropped = artifacts["summary"].processed
             /\ artifacts["inputs"] = [processed |-> marker.recorded + marker.dropped,
                                       recorded |-> marker.recorded, dropped |-> marker.dropped]
  <2>1. /\ \A a \in {"metadata", "frames", "summary", "inputs"} : Whole(a)
        /\ artifacts["frames"] = [rows |-> frames_csv]
        /\ artifacts["summary"] = summary_csv
        /\ artifacts["inputs"] = InputsContent
        /\ artifacts["export_complete"] = MarkerContent
    BY <1>1 DEF ExportInv, Says
  <2>2. summary_csv.recorded = Len(frames) /\ summary_csv.processed = processed
    BY DEF summary_csv
  <2>3. Len(artifacts["frames"].rows) = Len(frames)
    BY <2>1, RowsTyped
  <2>4. processed = Len(frames) + dropped /\ processed_frames = processed
    BY DEF FiguresInv
  <2> QED
    BY <2>1, <2>2, <2>3, <2>4 DEF InputsContent, MarkerContent
<1>2. Whole("backend_summary") /\ artifacts["backend_summary"].available => phase = "trajectory"
  BY DEF ExportInv, Says
<1>3. step # "begin" => phase = "trajectory"
  BY DEF ExportInv
<1> QED
  BY <1>1, <1>2, <1>3 DEF MarkerCertifiesFigures

(* export_complete.txt certifies the four files it speaks of, whatever      *)
(* fails and in whatever phase: for every capacity of the recorder and      *)
(* every sequence of tracking results.                                      *)
THEOREM MarkerIsAccurate == Spec => []MarkerCertifiesFigures
BY ExportInit, ExportStep, ExportMeansMarker, PTL DEF Spec

(* The export publishes the trajectories by the steps of FinalTrajectory    *)
(* only, so what it publishes is complete as well.                          *)
THEOREM ExportPublishesComplete == Spec => []PublishedComplete
<1>1. Init => TrajectoryInit
  BY DEF Init
<1>2. [Next]_vars => [TrajectoryNext]_trajectory
  <2> SUFFICES ASSUME [Next]_vars PROVE TrajectoryNext \/ UNCHANGED trajectory
    OBVIOUS
  <2>1. CASE export_trajectory \/ Interference
    BY <2>1 DEF export_trajectory, Interference, TrajectoryNext
  <2>2. CASE track \/ begin_export \/ backend_shutdown \/ rename_backend_summary
    BY <2>2 DEF track, begin_export, backend_shutdown, rename_backend_summary
  <2>3. CASE \/ write_metadata \/ write_frames \/ write_summary \/ write_evaluation_inputs
             \/ write_evaluation_export_complete \/ write_evaluation_backend_summary
    BY <2>3 DEF write_metadata, write_frames, write_summary, write_evaluation_inputs,
       write_evaluation_export_complete, write_evaluation_backend_summary, Write
  <2>4. CASE UNCHANGED vars
    BY <2>4 DEF vars
  <2> QED
    BY <2>1, <2>2, <2>3, <2>4 DEF Next
<1> QED
  BY <1>1, <1>2, PublicationIsComplete, PTL DEF Spec, TrajectorySpec

-----------------------------------------------------------------------------
(* The figures that are certified are those of the run.  Their proof needs  *)
(* what the library does not have: least elements, sums of sequences,       *)
(* growing counts and extrema, and nearest ranks.                           *)

(* A set of natural numbers has a least one.                                *)
LEMMA LeastNatural ==
  ASSUME NEW T \in SUBSET Nat, T # {}
  PROVE  \E x \in T : \A y \in T : x <= y
<1>1. OpToRel(<, Nat) = {p \in Nat \X Nat : p[1] < p[2]}
  BY Zenon DEF OpToRel
<1>2. IsWellFoundedOn({p \in Nat \X Nat : p[1] < p[2]}, Nat)
  BY <1>1, NatLessThanWellFounded, Zenon
<1> DEFINE R == {p \in Nat \X Nat : p[1] < p[2]}
<1> HIDE DEF R
<1>3. PICK x \in T : \A y \in T : ~ (<<y, x>> \in R)
  BY <1>2, WFMin DEF R
<1>4. \A y \in T : y < x => <<y, x>> \in R
  BY DEF R
<1>5. \A y \in T : ~(y < x)
  BY <1>3, <1>4, Zenon
<1> QED
  BY <1>5

(* What every set of numbers closed under successor up to n contains.       *)
LEMMA CountingUp ==
  ASSUME NEW n \in Nat, NEW P \in SUBSET (0..n), 0 \in P,
         \A m \in 1..n : m - 1 \in P => m \in P
  PROVE  P = 0..n
<1> SUFFICES ASSUME (0..n) \ P # {} PROVE FALSE
  OBVIOUS
<1>1. PICK m \in (0..n) \ P : \A y \in (0..n) \ P : m <= y
  <2>1. (0..n) \ P \in SUBSET Nat
    OBVIOUS
  <2> QED
    BY <2>1, LeastNatural
<1>2. m \in 1..n
  BY <1>1
<1>3. m - 1 \in 0..n /\ ~(m <= m - 1)
  BY <1>2
<1>4. m - 1 \in P
  BY <1>1, <1>3
<1> QED
  BY <1>1, <1>2, <1>4

-----------------------------------------------------------------------------
(* Sums *)

\* That g holds the sums of the first elements of v.
Sums(g, v) == g = [i \in 0..Len(v) |-> IF i = 0 THEN 0 ELSE g[i - 1] + v[i]]

(* The sums of the first elements exist: the recursion is well-founded.     *)
LEMMA SumsExist ==
  ASSUME NEW v \in Seq(Nat)
  PROVE  \E g : Sums(g, v)
<1> DEFINE Until(g, m) == g = [i \in 0..m |-> IF i = 0 THEN 0 ELSE g[i - 1] + v[i]]
           P == {m \in 0..Len(v) : \E g : Until(g, m)}
<1>1. Len(v) \in Nat
  BY LenProperties
<1>2. 0 \in P
  <2> DEFINE g == [i \in 0..0 |-> 0]
  <2>1. Until(g, 0)
    OBVIOUS
  <2>2. 0 \in 0..Len(v)
    BY <1>1
  <2> HIDE DEF g, Until
  <2> QED
    BY <2>1, <2>2
<1>3. ASSUME NEW m \in 1..Len(v), m - 1 \in P
      PROVE  m \in P
  <2>1. PICK g : Until(g, m - 1)
    BY <1>3
  <2> DEFINE h == [i \in 0..m |-> IF i = m THEN g[m - 1] + v[m] ELSE g[i]]
  <2>2. \A i \in 0..(m - 1) : g[i] = IF i = 0 THEN 0 ELSE g[i - 1] + v[i]
    BY <2>1
  <2>3. \A i \in 0..m : h[i] = IF i = 0 THEN 0 ELSE h[i - 1] + v[i]
    BY <1>1, <2>2
  <2>4. Until(h, m)
    <3>1. h = [i \in 0..m |-> h[i]]
      OBVIOUS
    <3> HIDE DEF h
    <3> QED
      BY <2>3, <3>1
  <2> HIDE DEF h, Until
  <2> QED
    BY <1>1, <2>4
<1>4. P = 0..Len(v)
  <2> HIDE DEF P
  <2>1. P \in SUBSET (0..Len(v))
    BY DEF P
  <2> QED
    BY <1>1, <1>2, <1>3, <2>1, CountingUp
<1>5. Len(v) \in P
  BY <1>1, <1>4
<1> QED
  BY <1>5 DEF Sums

\* The sums that SumOf takes the last of.
SumsOf(v) == CHOOSE g : Sums(g, v)

(* SumOf is the last of those sums.                                         *)
LEMMA SumIsLast ==
  ASSUME NEW v \in Seq(Nat)
  PROVE  Sums(SumsOf(v), v) /\ SumOf(v) = SumsOf(v)[Len(v)]
<1>1. Sums(SumsOf(v), v)
  BY SumsExist DEF SumsOf
<1>2. SumOf(v) = SumsOf(v)[Len(v)]
  BY DEF SumOf, SumsOf, Sums
<1> QED
  BY <1>1, <1>2

(* Sums of natural numbers are natural numbers.                             *)
LEMMA SumTyped ==
  ASSUME NEW v \in Seq(Nat)
  PROVE  \A i \in 0..Len(v) : SumsOf(v)[i] \in Nat
<1> DEFINE g == SumsOf(v)
           P == {i \in 0..Len(v) : g[i] \in Nat}
<1>1. Len(v) \in Nat /\ \A i \in 1..Len(v) : v[i] \in Nat
  BY LenProperties, ElementOfSeq
<1>2. \A i \in 0..Len(v) : g[i] = IF i = 0 THEN 0 ELSE g[i - 1] + v[i]
  BY SumIsLast DEF Sums
<1> HIDE DEF g
<1>3. 0 \in P
  BY <1>1, <1>2
<1>4. ASSUME NEW m \in 1..Len(v), m - 1 \in P
      PROVE  m \in P
  BY <1>1, <1>2, <1>4
<1>5. P = 0..Len(v)
  <2> HIDE DEF P
  <2>1. P \in SUBSET (0..Len(v))
    BY DEF P
  <2> QED
    BY <1>1, <1>3, <1>4, <2>1, CountingUp
<1> QED
  BY <1>5 DEF g

(* Nothing sums up to nothing, and one number more is added.                *)
LEMMA SumProperties ==
  /\ SumOf(<<>>) = 0
  /\ \A v \in Seq(Nat) : \A x \in Nat : SumOf(Append(v, x)) = SumOf(v) + x
  /\ \A v \in Seq(Nat) : SumOf(v) \in Nat
<1>1. SumOf(<<>>) = 0
  <2>1. <<>> \in Seq(Nat) /\ Len(<<>>) = 0
    OBVIOUS
  <2>2. /\ SumsOf(<<>>) = [i \in 0..0 |-> IF i = 0 THEN 0 ELSE SumsOf(<<>>)[i - 1] + <<>>[i]]
        /\ SumOf(<<>>) = SumsOf(<<>>)[0]
    BY <2>1, SumIsLast DEF Sums
  <2> QED
    BY <2>2
<1>2. ASSUME NEW v \in Seq(Nat), NEW x \in Nat
      PROVE  SumOf(Append(v, x)) = SumOf(v) + x
  <2> DEFINE w == Append(v, x)
             g == SumsOf(v)
             h == SumsOf(w)
             P == {i \in 0..Len(v) : h[i] = g[i]}
  <2>1. /\ w \in Seq(Nat) /\ Len(w) = Len(v) + 1 /\ w[Len(v) + 1] = x /\ Len(v) \in Nat
        /\ \A i \in 1..Len(v) : w[i] = v[i]
    BY AppendProperties, LenProperties
  <2>2. \A i \in 0..Len(v) : g[i] = IF i = 0 THEN 0 ELSE g[i - 1] + v[i]
    BY SumIsLast DEF Sums
  <2> HIDE DEF w
  <2>3. \A i \in 0..(Len(v) + 1) : h[i] = IF i = 0 THEN 0 ELSE h[i - 1] + w[i]
    BY <2>1, SumIsLast DEF Sums
  <2>4. SumOf(v) = g[Len(v)] /\ SumOf(w) = h[Len(v) + 1]
    BY <2>1, SumIsLast
  <2> HIDE DEF g, h
  <2>5. 0 \in P
    BY <2>1, <2>2, <2>3
  <2>6. ASSUME NEW m \in 1..Len(v), m - 1 \in P
        PROVE  m \in P
    <3>1. h[m] = h[m - 1] + w[m] /\ g[m] = g[m - 1] + v[m] /\ w[m] = v[m]
      BY <2>1, <2>2, <2>3
    <3> QED
      BY <2>1, <2>6, <3>1
  <2>7. P = 0..Len(v)
    <3> HIDE DEF P
    <3>1. P \in SUBSET (0..Len(v))
      BY DEF P
    <3> QED
      BY <2>1, <2>5, <2>6, <3>1, CountingUp
  <2>8. h[Len(v)] = g[Len(v)]
    BY <2>1, <2>7
  <2>9. h[Len(v) + 1] = h[Len(v)] + x
    <3>1. /\ Len(v) + 1 \in 0..(Len(v) + 1) /\ Len(v) + 1 # 0
          /\ (Len(v) + 1) - 1 = Len(v)
      <4>1. PICK n \in Nat : n = Len(v)
        BY <2>1
      <4>2. n + 1 \in 0..(n + 1) /\ n + 1 # 0 /\ (n + 1) - 1 = n
        OBVIOUS
      <4> QED
        BY <4>1, <4>2, Zenon
    <3>2. h[Len(v) + 1] = h[(Len(v) + 1) - 1] + w[Len(v) + 1]
      BY <2>3, <3>1, Zenon
    <3> QED
      BY <2>1, <3>1, <3>2, Zenon
  <2> QED
    BY <2>4, <2>8, <2>9, Zenon DEF w
<1>3. ASSUME NEW v \in Seq(Nat)
      PROVE  SumOf(v) \in Nat
  <2>1. Len(v) \in 0..Len(v)
    BY LenProperties
  <2> QED
    BY <2>1, SumIsLast, SumTyped
<1> QED
  BY <1>1, <1>2, <1>3

-----------------------------------------------------------------------------
(* Counting and extrema *)

\* U is S, some of the first n calls, with the next one if b.
Joins(U, S, n, b) == U = S \cup (IF b THEN {n + 1} ELSE {})

(* A set of calls that takes in a new one has one element more.             *)
LEMMA CountGrows ==
  ASSUME NEW n \in Nat, NEW S \in SUBSET (1..n), NEW b \in BOOLEAN,
         NEW U, Joins(U, S, n, b)
  PROVE  /\ Cardinality(S) \in Nat /\ IsFiniteSet(S)
         /\ Cardinality(U) = Cardinality(S) + Count(b)
<1>1. IsFiniteSet(S) /\ Cardinality(S) \in Nat
  <2>1. IsFiniteSet(1..n)
    BY FS_Interval
  <2> QED
    BY <2>1, FS_Subset, FS_CardinalityType
<1>2. n + 1 \notin S
  OBVIOUS
<1>3. CASE b
  <2>1. Cardinality(S \cup {n + 1}) = Cardinality(S) + 1
    BY <1>1, <1>2, FS_AddElement
  <2> QED
    BY <1>1, <1>3, <2>1 DEF Count, Joins
<1>4. CASE ~b
  BY <1>1, <1>4 DEF Count, Joins
<1> QED
  BY <1>1, <1>3, <1>4

\* m is the largest, the smallest element of S.
Largest(m, S) == m \in S /\ \A x \in S : x <= m
Smallest(m, S) == m \in S /\ \A x \in S : m <= x

(* Max and Min of the community modules are the largest and the smallest.   *)
LEMMA Extrema ==
  ASSUME NEW S \in SUBSET Int, NEW m
  PROVE  /\ Largest(m, S) => Max(S) = m
         /\ Smallest(m, S) => Min(S) = m
<1>1. ASSUME Largest(m, S) PROVE Max(S) = m
  <2>1. \A x \in S : (\A y \in S : x >= y) <=> x = m
    BY <1>1 DEF Largest
  <2> QED
    BY <1>1, <2>1 DEF Max, Largest
<1>2. ASSUME Smallest(m, S) PROVE Min(S) = m
  <2>1. \A x \in S : (\A y \in S : x =< y) <=> x = m
    BY <1>2 DEF Smallest
  <2> QED
    BY <1>2, <2>1 DEF Min, Smallest
<1> QED
  BY <1>1, <1>2

(* One number more can only be the new extremum.                            *)
LEMMA ExtremaGrow ==
  ASSUME NEW S \in SUBSET Int, NEW x \in Int, NEW m
  PROVE  /\ Largest(x, {x}) /\ Smallest(x, {x})
         /\ Largest(m, S) => Largest(Larger(m, x), S \cup {x})
         /\ Smallest(m, S) => Smallest(Smaller(m, x), S \cup {x})
<1>1. Largest(x, {x}) /\ Smallest(x, {x})
  BY DEF Largest, Smallest
<1>2. ASSUME Largest(m, S) PROVE Largest(Larger(m, x), S \cup {x})
  <2>1. m \in Int /\ m \in S /\ \A y \in S : y \in Int /\ y <= m
    BY <1>2 DEF Largest
  <2>2. CASE m > x
    BY <2>1, <2>2 DEF Largest, Larger
  <2>3. CASE ~(m > x)
    BY <2>1, <2>3 DEF Largest, Larger
  <2> QED
    BY <2>2, <2>3
<1>3. ASSUME Smallest(m, S) PROVE Smallest(Smaller(m, x), S \cup {x})
  <2>1. m \in Int /\ m \in S /\ \A y \in S : y \in Int /\ m <= y
    BY <1>3 DEF Smallest
  <2>2. CASE m < x
    BY <2>1, <2>2 DEF Smallest, Smaller
  <2>3. CASE ~(m < x)
    BY <2>1, <2>3 DEF Smallest, Smaller
  <2> QED
    BY <2>2, <2>3
<1> QED
  BY <1>1, <1>2, <1>3

-----------------------------------------------------------------------------
(* Percentiles *)

(* Among some of the elements of a sequence one is the largest.             *)
LEMMA LargestAmong ==
  ASSUME NEW n \in Nat, NEW f \in [1..n -> Nat], NEW I \in SUBSET (1..n), I # {}
  PROVE  \E k \in I : \A i \in I : f[i] <= f[k]
<1> DEFINE Of(m) == {i \in I : i <= m}
           P == {m \in 0..n : Of(m) = {} \/ \E k \in Of(m) : \A i \in Of(m) : f[i] <= f[k]}
<1>0. \A i \in I : i \in Nat /\ 1 <= i /\ i <= n
  OBVIOUS
<1>1. 0 \in P
  <2>1. Of(0) = {}
    <3> SUFFICES ASSUME NEW i \in I, i <= 0 PROVE FALSE
      OBVIOUS
    <3> QED
      BY <1>0
  <2>2. 0 \in 0..n
    OBVIOUS
  <2> HIDE DEF Of
  <2> QED
    BY <2>1, <2>2
<1>2. ASSUME NEW m \in 1..n, m - 1 \in P
      PROVE  m \in P
  <2>1. Of(m) = Of(m - 1) \cup (IF m \in I THEN {m} ELSE {})
    <3>1. \A i \in I : i <= m <=> i <= m - 1 \/ i = m
      OBVIOUS
    <3> QED
      BY <3>1
  <2>2. Of(m - 1) \subseteq 1..n /\ \A i \in 1..n : f[i] \in Nat
    OBVIOUS
  <2>3. m \in 0..n
    OBVIOUS
  <2>4. Of(m - 1) = {} \/ \E k \in Of(m - 1) : \A i \in Of(m - 1) : f[i] <= f[k]
    BY <1>2
  <2> SUFFICES Of(m) = {} \/ \E k \in Of(m) : \A i \in Of(m) : f[i] <= f[k]
    BY <2>3
  <2> HIDE DEF Of, P
  <2>5. CASE m \notin I
    BY <2>1, <2>4, <2>5
  <2>6. CASE m \in I /\ Of(m - 1) = {}
    BY <2>1, <2>2, <2>6
  <2>7. CASE m \in I /\ Of(m - 1) # {}
    <3>1. PICK k \in Of(m - 1) : \A i \in Of(m - 1) : f[i] <= f[k]
      BY <2>4, <2>7
    <3>2. Of(m) = Of(m - 1) \cup {m}
      BY <2>1, <2>7
    <3>3. CASE f[m] <= f[k]
      BY <3>1, <3>2, <3>3
    <3>4. CASE ~(f[m] <= f[k])
      <4>1. \A i \in Of(m - 1) : f[i] <= f[m]
        BY <2>2, <3>1, <3>4
      <4>2. f[m] <= f[m]
        BY <2>2
      <4> QED
        BY <3>2, <4>1, <4>2
    <3> QED
      BY <3>3, <3>4
  <2> QED
    BY <2>5, <2>6, <2>7
<1>3. P = 0..n
  <2> HIDE DEF P
  <2>1. P \in SUBSET (0..n)
    BY DEF P
  <2> QED
    BY <1>1, <1>2, <2>1, CountingUp
<1>4. Of(n) = I
  BY <1>0
<1>5. n \in P
  <2> HIDE DEF P
  <2> QED
    BY <1>3
<1> QED
  BY <1>4, <1>5

\* How many of the first n values of f do not exceed d, and are below it.
AtMost(f, n, d) == Cardinality({i \in 1..n : f[i] <= d})
LessThan(f, n, d) == Cardinality({i \in 1..n : f[i] < d})

(* A set of calls has at most as many elements as a larger one.             *)
LEMMA CountsOrdered ==
  ASSUME NEW n \in Nat, NEW S \in SUBSET (1..n), NEW T \in SUBSET S
  PROVE  /\ Cardinality(S) \in 0..n /\ Cardinality(T) \in Nat
         /\ Cardinality(T) <= Cardinality(S)
<1>1. IsFiniteSet(1..n) /\ Cardinality(1..n) = n
  BY FS_Interval
<1>2. IsFiniteSet(S) /\ Cardinality(S) <= n
  BY <1>1, FS_Subset
<1>3. Cardinality(S) \in Nat
  BY <1>2, FS_CardinalityType
<1>4. IsFiniteSet(T) /\ Cardinality(T) <= Cardinality(S)
  BY <1>2, FS_Subset
<1>5. Cardinality(T) \in Nat
  BY <1>4, FS_CardinalityType
<1> QED
  BY <1>2, <1>3, <1>4, <1>5

Percents == {50, 95}
Rank(n, percent) == (percent * n + 99) \div 100
EnoughOf(count, n, percent) == 100 * count >= percent * n

(* Rounding the rank up takes it past every count below the percentage.     *)
LEMMA RankRoundsUp ==
  ASSUME NEW n \in Nat \ {0}, NEW percent \in Percents
  PROVE  /\ Rank(n, percent) \in 1..n
         /\ \A u \in Nat : Rank(n, percent) <= u <=> EnoughOf(u, n, percent)
<1>1. CASE percent = 50
  BY <1>1, Z3 DEF Rank, EnoughOf
<1>2. CASE percent = 95
  BY <1>2, Z3 DEF Rank, EnoughOf
<1> QED
  BY <1>1, <1>2 DEF Percents

(* The nearest rank in the sorted values is the least value that the        *)
(* percentage of them does not exceed, and it is the only one of that rank. *)
LEMMA NearestRank ==
  ASSUME NEW n \in Nat \ {0}, NEW f \in [1..n -> Nat], NEW percent \in Percents
  PROVE  LET D == {f[i] : i \in 1..n}
             Enough == {d \in D : EnoughOf(AtMost(f, n, d), n, percent)}
             rank == Rank(n, percent)
         IN  /\ Enough # {}
             /\ (CHOOSE d \in D : LessThan(f, n, d) < rank /\ rank <= AtMost(f, n, d)) = Min(Enough)
<1> DEFINE D == {f[i] : i \in 1..n}
           Enough == {d \in D : EnoughOf(AtMost(f, n, d), n, percent)}
           rank == Rank(n, percent)
           Ranked(d) == LessThan(f, n, d) < rank /\ rank <= AtMost(f, n, d)
<1>1. /\ rank \in 1..n
      /\ \A u \in Nat : rank <= u <=> EnoughOf(u, n, percent)
  BY RankRoundsUp, Zenon
<1> HIDE DEF rank
<1>2. D \in SUBSET Nat
  OBVIOUS
<1>3. \A d \in Nat : AtMost(f, n, d) \in 0..n /\ LessThan(f, n, d) \in 0..n
  BY CountsOrdered DEF AtMost, LessThan
<1>4. \A d \in D : d \in Enough <=> rank <= AtMost(f, n, d)
  <2> SUFFICES ASSUME NEW d \in D
               PROVE  EnoughOf(AtMost(f, n, d), n, percent) <=> rank <= AtMost(f, n, d)
    OBVIOUS
  <2>1. AtMost(f, n, d) \in Nat
    BY <1>2, <1>3
  <2> QED
    BY <1>1, <2>1
<1>5. Enough # {}
  <2>1. PICK k \in 1..n : \A i \in 1..n : f[i] <= f[k]
    <3>1. 1..n \in SUBSET (1..n) /\ 1 \in 1..n /\ n \in Nat
      OBVIOUS
    <3> QED
      BY <3>1, LargestAmong, Zenon
  <2>2. {i \in 1..n : f[i] <= f[k]} = 1..n
    BY <2>1
  <2>3. AtMost(f, n, f[k]) = n
    <3>1. Cardinality(1..n) = n
      BY FS_Interval
    <3> QED
      BY <2>2, <3>1 DEF AtMost
  <2> QED
    BY <1>1, <1>4, <2>3
<1> HIDE DEF D
<1>6. PICK least \in Enough : \A d \in Enough : least <= d
  BY <1>2, <1>5, LeastNatural
<1>7. least \in D /\ least \in Nat /\ rank <= AtMost(f, n, least)
  BY <1>2, <1>4, <1>6
<1> HIDE DEF Enough
<1>8. LessThan(f, n, least) < rank
  <2> SUFFICES ASSUME rank <= LessThan(f, n, least) PROVE FALSE
    BY <1>1, <1>3, <1>7
  <2> DEFINE I == {i \in 1..n : f[i] < least}
  <2>1. I # {}
    <3> SUFFICES ASSUME I = {} PROVE FALSE
      OBVIOUS
    <3>1. LessThan(f, n, least) = 0
      BY FS_EmptySet DEF LessThan
    <3> QED
      BY <1>1, <3>1
  <2>2. PICK k \in I : \A i \in I : f[i] <= f[k]
    <3>1. I \in SUBSET (1..n) /\ n \in Nat
      OBVIOUS
    <3> HIDE DEF I
    <3> QED
      BY <2>1, <3>1, LargestAmong, Zenon
  <2>3. f[k] \in D /\ f[k] < least /\ f[k] \in Nat
    BY <2>2 DEF D
  <2>4. {i \in 1..n : f[i] <= f[k]} = I
    <3>1. ASSUME NEW i \in 1..n PROVE f[i] <= f[k] <=> f[i] < least
      <4>1. f[i] \in Nat
        OBVIOUS
      <4>2. f[i] < least => f[i] <= f[k]
        BY <2>2
      <4> QED
        BY <1>7, <2>3, <4>1, <4>2
    <3> QED
      BY <3>1
  <2>5. AtMost(f, n, f[k]) = LessThan(f, n, least)
    BY <2>4 DEF AtMost, LessThan
  <2>6. f[k] \in Enough
    BY <1>4, <2>3, <2>5
  <2> QED
    BY <1>6, <1>7, <2>3, <2>6
<1>9. ASSUME NEW d \in D, Ranked(d)
      PROVE  d = least
  <2>1. d \in Enough /\ least <= d /\ d \in Nat
    BY <1>2, <1>4, <1>6, <1>9
  <2> SUFFICES ASSUME least < d PROVE FALSE
    BY <1>7, <2>1
  <2>2. {i \in 1..n : f[i] <= least} \subseteq {i \in 1..n : f[i] < d}
    <3>1. \A i \in 1..n : f[i] \in Nat
      OBVIOUS
    <3> QED
      BY <1>7, <2>1, <3>1
  <2>3. AtMost(f, n, least) <= LessThan(f, n, d)
    BY <2>2, CountsOrdered DEF AtMost, LessThan
  <2> QED
    BY <1>1, <1>3, <1>7, <1>9, <2>1, <2>3
<1>10. (CHOOSE d \in D : Ranked(d)) = least
  <2> HIDE DEF Ranked
  <2>1. Ranked(least)
    BY <1>7, <1>8 DEF Ranked
  <2> QED
    BY <1>7, <1>9, <2>1
<1>11. Min(Enough) = least
  <2>1. Smallest(least, Enough) /\ Enough \in SUBSET Int
    <3>1. Enough \subseteq D
      BY DEF Enough
    <3> QED
      BY <1>2, <1>6, <3>1 DEF Smallest
  <2> QED
    BY <2>1, Extrema
<1> QED
  BY <1>5, <1>10, <1>11 DEF D, Enough, rank

-----------------------------------------------------------------------------
(* One call more *)

Started(r) == \E j \in Calls(r) : r[j].raw_tracking_state \in OK
HasInliers(core) == core.has_frame /\ core.inliers # None

\* The columns of numbers that are summed.
InlierColumn(r) == [i \in Calls(r) |-> IF i \in Counted(r) THEN r[i].inliers ELSE 0]
LostColumn(r) == [i \in Calls(r) |-> IF i \in Shown(r) THEN r[i].lost_events ELSE 0]
DurationColumn(r) == [i \in Calls(r) |-> r[i].duration]

(* What a call may return.                                                  *)
LEMMA CallTypes ==
  ASSUME NEW core \in Returns
  PROVE  /\ core.raw_tracking_state \in Int /\ core.has_frame \in BOOLEAN
         /\ core.inliers \in Nat \cup {None} /\ core.keyframes \in Nat
         /\ core.lost_events \in Nat /\ core.duration \in Nat
         /\ convert_tracking_snapshot(core).pose_valid \in BOOLEAN
<1>1. core \in CoreReturns
  BY RecorderAssumption
<1>2. convert_tracking_snapshot(core).pose_valid =
        (/\ core.has_frame /\ PoseEnabled /\ core.map_id_valid
         /\ core.pose_valid /\ core.captured
         /\ core.raw_tracking_state \in OK
         /\ core.rotation_valid)
  BY DEF convert_tracking_snapshot
<1> QED
  BY <1>1, <1>2 DEF CoreReturns

(* The conversion of a snapshot touches its pose only.                      *)
LEMMA Converted ==
  ASSUME NEW core
  PROVE  LET f == convert_tracking_snapshot(core) IN
         /\ f.raw_tracking_state = core.raw_tracking_state /\ f.has_frame = core.has_frame
         /\ f.inliers = core.inliers /\ f.keyframes = core.keyframes
         /\ f.lost_events = core.lost_events /\ f.duration = core.duration
BY DEF convert_tracking_snapshot

\* That s is r with one call more.
Longer(s, r, core) ==
    /\ s \in Seq(Returns) /\ Len(r) \in Nat /\ Len(s) = Len(r) + 1
    /\ s[Len(r) + 1] = core /\ Calls(r) = 1..Len(r)
    /\ \A i \in Calls(r) : s[i] = r[i] /\ r[i] \in Returns
    /\ Calls(s) = Calls(r) \cup {Len(r) + 1} /\ Len(r) + 1 \notin Calls(r)

(* A call that returns makes the run longer by what it returned.            *)
LEMMA RunGrows ==
  ASSUME NEW r \in Seq(Returns), NEW core \in Returns
  PROVE  Longer(Append(r, core), r, core)
<1> DEFINE s == Append(r, core)
<1>1. /\ s \in Seq(Returns) /\ Len(s) = Len(r) + 1 /\ s[Len(r) + 1] = core
      /\ \A i \in 1..Len(r) : s[i] = r[i]
  BY AppendProperties
<1>2. Len(r) \in Nat /\ \A i \in 1..Len(r) : r[i] \in Returns
  BY LenProperties, ElementOfSeq
<1>3. 1..(Len(r) + 1) = (1..Len(r)) \cup {Len(r) + 1}
  BY <1>2
<1> QED
  BY <1>1, <1>2, <1>3 DEF Calls, Longer

(* Each set of calls takes in the new one when it is of that kind.          *)
LEMMA CallSetsGrow ==
  ASSUME NEW r \in Seq(Returns), NEW core \in Returns, NEW s, Longer(s, r, core)
  PROVE  LET n == Len(r)
             state == core.raw_tracking_state
             now == Started(r) \/ state \in OK
         IN  /\ Started(s) = now
             /\ Joins(After(s), After(r), n, now)
             /\ Joins(Lost(s), Lost(r), n, now /\ state = LOST)
             /\ \A b \in Buckets : Joins(InBucket(s, b), InBucket(r, b), n, Bucket(state) = b)
             /\ Joins(Shown(s), Shown(r), n, core.has_frame)
             /\ Joins(Counted(s), Counted(r), n, HasInliers(core))
             /\ Joins(Posed(s), Posed(r), n,
                      core.has_frame /\ convert_tracking_snapshot(core).pose_valid)
<1> DEFINE n == Len(r)
           If1(b) == IF b THEN {n + 1} ELSE {}
           state == core.raw_tracking_state
           now == Started(r) \/ state \in OK
<1>1. /\ n \in Nat /\ s[n + 1] = core /\ \A i \in Calls(r) : s[i] = r[i]
      /\ Calls(s) = Calls(r) \cup {n + 1} /\ n + 1 \notin Calls(r) /\ Calls(r) = 1..n
  BY DEF Longer
<1>2. Started(s) = now
  BY <1>1 DEF Started
<1>3. After(s) = After(r) \cup If1(now)
  <2>1. ASSUME NEW i \in Calls(r) PROVE i \in After(s) <=> i \in After(r)
    <3>1. \A j \in 1..i : j \in Calls(r) /\ s[j] = r[j]
      BY <1>1
    <3> QED
      BY <1>1, <3>1 DEF After
  <2>2. n + 1 \in After(s) <=> now
    <3>1. 1..(n + 1) = Calls(s)
      BY <1>1
    <3> QED
      BY <1>1, <1>2, <3>1 DEF After, Started
  <2>3. After(s) \subseteq Calls(s) /\ After(r) \subseteq Calls(r)
    BY DEF After
  <2> HIDE DEF n, now
  <2> QED
    BY <1>1, <2>1, <2>2, <2>3
<1> HIDE DEF now
<1>4. Lost(s) = Lost(r) \cup If1(now /\ state = LOST)
  <2>1. After(r) \subseteq Calls(r)
    BY DEF After
  <2>2. n + 1 \notin After(r)
    BY <1>1, <2>1
  <2> HIDE DEF n
  <2> QED
    BY <1>1, <1>3, <2>1, <2>2 DEF Lost
<1>5. ASSUME NEW b \in Buckets
      PROVE  InBucket(s, b) = InBucket(r, b) \cup If1(Bucket(state) = b)
  <2> DEFINE In(t) == IF b = 6 THEN t \notin -1..5 ELSE t = b
  <2>1. In(state) <=> Bucket(state) = b
    <3>1. b \in -1..6 /\ state \in Int
      BY CallTypes DEF Buckets
    <3>2. CASE state \in -1..5
      BY <3>1, <3>2 DEF Bucket
    <3>3. CASE state \notin -1..5
      BY <3>1, <3>3 DEF Bucket
    <3> QED
      BY <3>2, <3>3
  <2>2. \A q : InBucket(q, b) = {i \in Calls(q) : In(q[i].raw_tracking_state)}
    BY DEF InBucket
  <2> HIDE DEF In, n
  <2> QED
    BY <1>1, <2>1, <2>2
<1>6. Shown(s) = Shown(r) \cup If1(core.has_frame)
  <2> HIDE DEF n
  <2> QED
    BY <1>1 DEF Shown
<1>7. Counted(s) = Counted(r) \cup If1(HasInliers(core))
  <2>1. Shown(r) \subseteq Calls(r) /\ n + 1 \notin Shown(r)
    BY <1>1 DEF Shown
  <2> HIDE DEF n
  <2> QED
    BY <1>1, <1>6, <2>1 DEF Counted, HasInliers
<1>8. Posed(s) = Posed(r) \cup If1(core.has_frame /\ convert_tracking_snapshot(core).pose_valid)
  <2>1. Shown(r) \subseteq Calls(r) /\ n + 1 \notin Shown(r)
    BY <1>1 DEF Shown
  <2> HIDE DEF n
  <2> QED
    BY <1>1, <1>6, <2>1 DEF Posed
<1> QED
  BY <1>2, <1>3, <1>4, <1>5, <1>6, <1>7, <1>8 DEF now, Joins

(* The calls of a run that the figures are about are some of its calls.     *)
LEMMA CallSetsBounded ==
  ASSUME NEW r
  PROVE  /\ After(r) \subseteq 1..Len(r) /\ Lost(r) \subseteq After(r)
         /\ \A b : InBucket(r, b) \subseteq 1..Len(r)
         /\ Shown(r) \subseteq 1..Len(r) /\ Counted(r) \subseteq Shown(r)
         /\ Posed(r) \subseteq Shown(r)
BY DEF After, Lost, InBucket, Shown, Counted, Posed, Calls

\* U has one element more than S if b.
Counts(U, S, b) == Cardinality(S) \in Nat /\ Cardinality(U) = Cardinality(S) + Count(b)

(* So the number of such calls is one more, or stays.                       *)
LEMMA CallCountsGrow ==
  ASSUME NEW r \in Seq(Returns), NEW core \in Returns, NEW s, Longer(s, r, core)
  PROVE  LET state == core.raw_tracking_state
             now == Started(r) \/ state \in OK
         IN  /\ Counts(After(s), After(r), now)
             /\ Counts(Lost(s), Lost(r), now /\ state = LOST)
             /\ \A b \in Buckets : Counts(InBucket(s, b), InBucket(r, b), Bucket(state) = b)
             /\ Counts(Shown(s), Shown(r), core.has_frame)
             /\ Counts(Counted(s), Counted(r), HasInliers(core))
             /\ Counts(Posed(s), Posed(r),
                       core.has_frame /\ convert_tracking_snapshot(core).pose_valid)
<1> DEFINE n == Len(r)
           state == core.raw_tracking_state
           now == Started(r) \/ state \in OK
           posed == core.has_frame /\ convert_tracking_snapshot(core).pose_valid
<1>1. /\ Joins(After(s), After(r), n, now)
      /\ Joins(Lost(s), Lost(r), n, now /\ state = LOST)
      /\ \A b \in Buckets : Joins(InBucket(s, b), InBucket(r, b), n, Bucket(state) = b)
      /\ Joins(Shown(s), Shown(r), n, core.has_frame)
      /\ Joins(Counted(s), Counted(r), n, HasInliers(core))
      /\ Joins(Posed(s), Posed(r), n, posed)
  BY CallSetsGrow
<1>2. /\ After(r) \in SUBSET (1..n) /\ Lost(r) \in SUBSET (1..n)
      /\ \A b : InBucket(r, b) \in SUBSET (1..n)
      /\ Shown(r) \in SUBSET (1..n) /\ Counted(r) \in SUBSET (1..n) /\ Posed(r) \in SUBSET (1..n)
  BY CallSetsBounded
<1>3. n \in Nat
  BY DEF Longer
<1>4. ASSUME NEW U, NEW S \in SUBSET (1..n), NEW b \in BOOLEAN, Joins(U, S, n, b)
      PROVE  Counts(U, S, b)
  BY <1>3, <1>4, CountGrows DEF Counts
<1>5. now \in BOOLEAN /\ core.has_frame \in BOOLEAN /\ HasInliers(core) \in BOOLEAN
      /\ posed \in BOOLEAN /\ (now /\ state = LOST) \in BOOLEAN
  BY CallTypes DEF Started, HasInliers
<1>6. \A b : (Bucket(state) = b) \in BOOLEAN
  OBVIOUS
<1> HIDE DEF n, now, posed
<1>7. Counts(After(s), After(r), now)
  BY <1>1, <1>2, <1>4, <1>5, Zenon
<1>8. Counts(Lost(s), Lost(r), now /\ state = LOST)
  BY <1>1, <1>2, <1>4, <1>5, Zenon
<1>9. \A b \in Buckets : Counts(InBucket(s, b), InBucket(r, b), Bucket(state) = b)
  BY <1>1, <1>2, <1>4, <1>6, Zenon
<1>10. Counts(Shown(s), Shown(r), core.has_frame)
  BY <1>1, <1>2, <1>4, <1>5, Zenon
<1>11. Counts(Counted(s), Counted(r), HasInliers(core))
  BY <1>1, <1>2, <1>4, <1>5, Zenon
<1>12. Counts(Posed(s), Posed(r), posed)
  BY <1>1, <1>2, <1>4, <1>5, Zenon
<1> QED
  BY <1>7, <1>8, <1>9, <1>10, <1>11, <1>12, Zenon DEF now, posed

(* A column of numbers that is one longer has its last number appended.     *)
LEMMA ColumnGrows ==
  ASSUME NEW n \in Nat, NEW v \in [1..n -> Nat], NEW w \in [1..(n + 1) -> Nat],
         \A i \in 1..n : w[i] = v[i]
  PROVE  /\ v \in Seq(Nat) /\ w[n + 1] \in Nat /\ w = Append(v, w[n + 1])
<1>1. v \in Seq(Nat) /\ Len(v) = n
  OBVIOUS
<1>2. w[n + 1] \in Nat
  OBVIOUS
<1>3. Append(v, w[n + 1]) \in [1..(n + 1) -> Nat]
      /\ \A i \in 1..(n + 1) : Append(v, w[n + 1])[i] = w[i]
  <2>1. /\ Append(v, w[n + 1]) \in Seq(Nat) /\ Len(Append(v, w[n + 1])) = n + 1
        /\ Append(v, w[n + 1])[n + 1] = w[n + 1]
        /\ \A i \in 1..n : Append(v, w[n + 1])[i] = v[i]
    BY <1>1, <1>2, AppendProperties
  <2>2. Append(v, w[n + 1]) \in [1..(n + 1) -> Nat]
    <3> DEFINE a == Append(v, w[n + 1])
    <3>1. a \in Seq(Nat) /\ Len(a) = n + 1
      BY <2>1
    <3> HIDE DEF a
    <3>2. a \in [1..(n + 1) -> Nat]
      BY <3>1
    <3> QED
      BY <3>2 DEF a
  <2>3. \A i \in 1..(n + 1) : i \in 1..n \/ i = n + 1
    OBVIOUS
  <2> QED
    BY <2>1, <2>2, <2>3
<1> QED
  BY <1>1, <1>2, <1>3

(* The columns hold natural numbers, one for each call.                     *)
LEMMA ColumnsTyped ==
  ASSUME NEW r \in Seq(Returns)
  PROVE  /\ InlierColumn(r) \in [1..Len(r) -> Nat]
         /\ LostColumn(r) \in [1..Len(r) -> Nat]
         /\ DurationColumn(r) \in [1..Len(r) -> Nat]
<1>1. \A i \in Calls(r) : /\ r[i].inliers \in Nat \cup {None}
                          /\ r[i].lost_events \in Nat /\ r[i].duration \in Nat
  BY CallTypes, ElementOfSeq DEF Calls
<1>2. \A i \in Counted(r) : r[i].inliers # None
  BY DEF Counted
<1>3. Counted(r) \subseteq Calls(r)
  BY DEF Counted, Shown
<1> QED
  BY <1>1, <1>2, <1>3 DEF InlierColumn, LostColumn, DurationColumn, Calls

(* The sums take in what the new call adds.                                 *)
LEMMA SumsGrow ==
  ASSUME NEW r \in Seq(Returns), NEW core \in Returns, NEW s, Longer(s, r, core)
  PROVE  /\ SumOf(InlierColumn(s)) = SumOf(InlierColumn(r)) + IF HasInliers(core) THEN core.inliers ELSE 0
         /\ SumOf(LostColumn(s)) = SumOf(LostColumn(r)) + IF core.has_frame THEN core.lost_events ELSE 0
         /\ SumOf(DurationColumn(s)) = SumOf(DurationColumn(r)) + core.duration
<1> DEFINE n == Len(r)
<1>1. /\ n \in Nat /\ s[n + 1] = core /\ \A i \in Calls(r) : s[i] = r[i]
      /\ Calls(s) = Calls(r) \cup {n + 1} /\ n + 1 \notin Calls(r) /\ Calls(r) = 1..n
      /\ s \in Seq(Returns) /\ Len(s) = n + 1
  BY DEF Longer
<1>2. /\ \A i \in Calls(r) : i \in Counted(s) <=> i \in Counted(r)
      /\ \A i \in Calls(r) : i \in Shown(s) <=> i \in Shown(r)
      /\ n + 1 \in Counted(s) <=> HasInliers(core)
      /\ n + 1 \in Shown(s) <=> core.has_frame
  <2> HIDE DEF n
  <2> QED
    BY <1>1 DEF Counted, Shown, HasInliers
<1>3. \A v, w : /\ v \in [1..n -> Nat] /\ w \in [1..(n + 1) -> Nat]
                /\ \A i \in 1..n : w[i] = v[i]
                => SumOf(w) = SumOf(v) + w[n + 1]
  <2> SUFFICES ASSUME NEW v \in [1..n -> Nat], NEW w \in [1..(n + 1) -> Nat],
                      \A i \in 1..n : w[i] = v[i]
               PROVE  SumOf(w) = SumOf(v) + w[n + 1]
    BY Zenon
  <2>1. v \in Seq(Nat) /\ w[n + 1] \in Nat /\ w = Append(v, w[n + 1])
    BY <1>1, ColumnGrows
  <2>2. SumOf(Append(v, w[n + 1])) = SumOf(v) + w[n + 1]
    BY <2>1, SumProperties, Zenon
  <2> QED
    BY <2>1, <2>2
<1>4. /\ InlierColumn(r) \in [1..n -> Nat] /\ InlierColumn(s) \in [1..(n + 1) -> Nat]
      /\ LostColumn(r) \in [1..n -> Nat] /\ LostColumn(s) \in [1..(n + 1) -> Nat]
      /\ DurationColumn(r) \in [1..n -> Nat] /\ DurationColumn(s) \in [1..(n + 1) -> Nat]
  BY <1>1, ColumnsTyped
<1> HIDE DEF n
<1>5. /\ \A i \in 1..n : /\ InlierColumn(s)[i] = InlierColumn(r)[i]
                         /\ LostColumn(s)[i] = LostColumn(r)[i]
                         /\ DurationColumn(s)[i] = DurationColumn(r)[i]
      /\ InlierColumn(s)[n + 1] = IF HasInliers(core) THEN core.inliers ELSE 0
      /\ LostColumn(s)[n + 1] = IF core.has_frame THEN core.lost_events ELSE 0
      /\ DurationColumn(s)[n + 1] = core.duration
  BY <1>1, <1>2 DEF InlierColumn, LostColumn, DurationColumn
<1>6. SumOf(InlierColumn(s)) = SumOf(InlierColumn(r)) + InlierColumn(s)[n + 1]
  BY <1>3, <1>4, <1>5, Zenon
<1>7. SumOf(LostColumn(s)) = SumOf(LostColumn(r)) + LostColumn(s)[n + 1]
  BY <1>3, <1>4, <1>5, Zenon
<1>8. SumOf(DurationColumn(s)) = SumOf(DurationColumn(r)) + DurationColumn(s)[n + 1]
  BY <1>3, <1>4, <1>5, Zenon
<1> QED
  BY <1>5, <1>6, <1>7, <1>8, Zenon

-----------------------------------------------------------------------------
(* The figures of a run so far *)

CountsExact(r) ==
    /\ processed_frames = Len(r) /\ processed = Len(r)
    /\ tracking_started = Started(r)
    /\ after_first_ok_frames = Cardinality(After(r))
    /\ startup_frames = Len(r) - Cardinality(After(r))
    /\ lost_frames = Cardinality(Lost(r))
    /\ state_counts = [b \in Buckets |-> Cardinality(InBucket(r, b))]

SnapshotFields == {"frames", "pose_collection", "pose_valid", "lost_events",
                   "inlier_samples", "inlier_sum", "inlier_min", "inlier_max"}

\* The extrema mean nothing before the first sample.
SnapshotsExact(r) ==
    /\ snapshots \in [SnapshotFields -> Nat]
    /\ snapshots.frames = Cardinality(Shown(r))
    /\ snapshots.pose_collection = IF PoseEnabled THEN Cardinality(Shown(r)) ELSE 0
    /\ snapshots.pose_valid = Cardinality(Posed(r))
    /\ snapshots.lost_events = SumOf(LostColumn(r))
    /\ snapshots.inlier_samples = Cardinality(Counted(r))
    /\ snapshots.inlier_sum = SumOf(InlierColumn(r))
    /\ Counted(r) = {} => snapshots.inlier_max = 0
    /\ Counted(r) # {} => /\ Smallest(snapshots.inlier_min, Inliers(r))
                          /\ Largest(snapshots.inlier_max, Inliers(r))

KeyframesExact(r) ==
    IF Shown(r) = {} THEN last_keyframes_inserted = None
    ELSE \E k \in Shown(r) : Largest(k, Shown(r)) /\ last_keyframes_inserted = r[k].keyframes

DurationsExact(r) ==
    /\ adapter_sum = SumOf(DurationColumn(r))
    /\ Len(r) = 0 => adapter_max = 0
    /\ Len(r) > 0 => Largest(adapter_max, Durations(r))

FramesExact(r) ==
    /\ frames = [i \in Kept(r) |-> convert_tracking_snapshot(r[i])]
    /\ dropped = Len(r) - Smaller(Len(r), Capacity)

(* SummaryExact is about the quotients, percentiles and N/As that are       *)
(* written; what is inductive is that every counter, sum and extremum is    *)
(* already that of the calls so far.                                        *)
TallyInv ==
    /\ returned \in Seq(Returns)
    /\ CountsExact(returned) /\ SnapshotsExact(returned) /\ KeyframesExact(returned)
    /\ DurationsExact(returned) /\ FramesExact(returned)

(* The counters of the calls, and of the states they report, stay exact.    *)
LEMMA CountsStep ==
  ASSUME returned \in Seq(Returns), NEW core \in Returns, Longer(returned', returned, core),
         CountsExact(returned), execute_work(core)
  PROVE  CountsExact(returned)'
<1> DEFINE r == returned
           s == returned'
           n == Len(r)
           state == core.raw_tracking_state
           now == Started(r) \/ state \in OK
<1>1. /\ n \in Nat /\ Len(s) = n + 1 /\ r = returned /\ s = returned'
  BY DEF Longer
<1>2. /\ processed' = processed + 1 /\ processed_frames' = processed_frames + 1
      /\ state_counts' = [state_counts EXCEPT ![Bucket(state)] = @ + 1]
      /\ tracking_started' = (tracking_started \/ state \in OK)
      /\ after_first_ok_frames' = after_first_ok_frames + Count(tracking_started')
      /\ lost_frames' = lost_frames + Count(tracking_started' /\ state = LOST)
      /\ startup_frames' = startup_frames + Count(~tracking_started')
  BY Converted DEF execute_work, record
<1>3. Started(s) = now
  BY CallSetsGrow
<1>4. /\ Counts(After(s), After(r), now)
      /\ Counts(Lost(s), Lost(r), now /\ state = LOST)
      /\ \A b \in Buckets : Counts(InBucket(s, b), InBucket(r, b), Bucket(state) = b)
  BY CallCountsGrow
<1> HIDE DEF r, s, n, now
<1>5. /\ Cardinality(After(r)) \in Nat /\ Cardinality(Lost(r)) \in Nat
      /\ Cardinality(After(s)) = Cardinality(After(r)) + Count(now)
      /\ Cardinality(Lost(s)) = Cardinality(Lost(r)) + Count(now /\ state = LOST)
      /\ \A b \in Buckets : /\ Cardinality(InBucket(r, b)) \in Nat
                            /\ Cardinality(InBucket(s, b)) =
                                 Cardinality(InBucket(r, b)) + Count(Bucket(state) = b)
  BY <1>4, Zenon DEF Counts
<1>6. tracking_started' = now
  BY <1>1, <1>2 DEF CountsExact, now
<1>7. processed_frames' = Len(s) /\ processed' = Len(s)
  BY <1>1, <1>2 DEF CountsExact, n
<1>8. /\ after_first_ok_frames' = Cardinality(After(s))
      /\ lost_frames' = Cardinality(Lost(s))
  BY <1>1, <1>2, <1>5, <1>6 DEF CountsExact
<1>9. startup_frames' = Len(s) - Cardinality(After(s))
  <2>1. startup_frames = n - Cardinality(After(r))
    BY <1>1 DEF CountsExact, n
  <2>2. PICK x, a : x = Cardinality(After(r)) /\ a = startup_frames
    OBVIOUS
  <2>3. x \in Nat /\ a = n - x
    BY <1>5, <2>1, <2>2
  <2>4. CASE now
    <3>1. startup_frames' = a + 0 /\ Cardinality(After(s)) = x + 1
      BY <1>2, <1>5, <1>6, <2>2, <2>4 DEF Count
    <3> QED
      BY <1>1, <2>3, <3>1
  <2>5. CASE ~now
    <3>1. startup_frames' = a + 1 /\ Cardinality(After(s)) = x + 0
      BY <1>2, <1>5, <1>6, <2>2, <2>5 DEF Count
    <3> QED
      BY <1>1, <2>3, <3>1
  <2> QED
    BY <2>4, <2>5
<1>10. state_counts' = [b \in Buckets |-> Cardinality(InBucket(s, b))]
  <2>1. state_counts = [b \in Buckets |-> Cardinality(InBucket(r, b))]
    BY <1>1 DEF CountsExact
  <2>2. Bucket(state) \in Buckets
    BY CallTypes DEF Bucket, Buckets
  <2>3. ASSUME NEW b \in Buckets
        PROVE  Cardinality(InBucket(s, b)) = IF b = Bucket(state) THEN state_counts[b] + 1
                                             ELSE state_counts[b]
    BY <1>5, <2>1 DEF Count
  <2>4. state_counts' = [b \in Buckets |-> IF b = Bucket(state) THEN state_counts[b] + 1
                                           ELSE state_counts[b]]
    BY <1>2, <2>1, <2>2
  <2> QED
    BY <2>3, <2>4
<1>11. tracking_started' = Started(s)
  BY <1>3, <1>6
<1> QED
  BY <1>1, <1>7, <1>8, <1>9, <1>10, <1>11 DEF CountsExact

(* The samples of inliers take in that of the new call.                     *)
LEMMA InliersGrow ==
  ASSUME NEW r \in Seq(Returns), NEW core \in Returns, NEW s, Longer(s, r, core)
  PROVE  /\ Inliers(r) \in SUBSET Nat /\ (Inliers(r) = {} <=> Counted(r) = {})
         /\ Inliers(s) = Inliers(r) \cup (IF HasInliers(core) THEN {core.inliers} ELSE {})
<1> DEFINE n == Len(r)
<1>1. Joins(Counted(s), Counted(r), n, HasInliers(core))
  BY CallSetsGrow
<1>2. /\ n \in Nat /\ s[n + 1] = core /\ \A i \in Calls(r) : s[i] = r[i] /\ r[i] \in Returns
  BY DEF Longer
<1> HIDE DEF n
<1>3. Counted(r) \subseteq Calls(r)
  BY DEF Counted, Shown
<1>4. Inliers(r) \in SUBSET Nat
  <2>1. ASSUME NEW i \in Counted(r) PROVE r[i].inliers \in Nat
    <3>1. r[i] \in Returns
      BY <1>2, <1>3
    <3>2. r[i].inliers \in Nat \cup {None}
      BY <3>1, CallTypes
    <3>3. r[i].inliers # None
      BY DEF Counted
    <3> QED
      BY <3>2, <3>3
  <2> QED
    BY <2>1 DEF Inliers
<1>5. Inliers(r) = {} <=> Counted(r) = {}
  BY DEF Inliers
<1>6. Inliers(s) = Inliers(r) \cup (IF HasInliers(core) THEN {core.inliers} ELSE {})
  <2>1. \A i \in Counted(r) : s[i] = r[i]
    BY <1>2, <1>3
  <2>2. CASE HasInliers(core)
    <3>1. Counted(s) = Counted(r) \cup {n + 1}
      BY <1>1, <2>2 DEF Joins
    <3> QED
      BY <1>2, <2>1, <2>2, <3>1 DEF Inliers
  <2>3. CASE ~HasInliers(core)
    <3>1. Counted(s) = Counted(r)
      BY <1>1, <2>3 DEF Joins
    <3> QED
      BY <2>1, <2>3, <3>1 DEF Inliers
  <2> QED
    BY <2>2, <2>3
<1> QED
  BY <1>4, <1>5, <1>6

(* The counters are as many natural numbers.                                *)
LEMMA SnapshotsTyped ==
  ASSUME NEW w, w = [field \in SnapshotFields |-> w[field]],
         w.frames \in Nat, w.pose_collection \in Nat, w.pose_valid \in Nat, w.lost_events \in Nat,
         w.inlier_samples \in Nat, w.inlier_sum \in Nat, w.inlier_min \in Nat, w.inlier_max \in Nat
  PROVE  w \in [SnapshotFields -> Nat]
<1>1. \A field \in SnapshotFields : w[field] \in Nat
  BY DEF SnapshotFields
<1> QED
  BY <1>1

(* Each of the counters is a natural number.                                *)
LEMMA FieldsNatural ==
  ASSUME NEW w \in [SnapshotFields -> Nat]
  PROVE  /\ w.frames \in Nat /\ w.pose_collection \in Nat /\ w.pose_valid \in Nat
         /\ w.lost_events \in Nat /\ w.inlier_samples \in Nat /\ w.inlier_sum \in Nat
         /\ w.inlier_min \in Nat /\ w.inlier_max \in Nat
BY DEF SnapshotFields

(* The counters of the frames with a snapshot stay exact, whatever the      *)
(* frame lacks.                                                             *)
LEMMA SnapshotsStep ==
  ASSUME returned \in Seq(Returns), NEW core \in Returns, Longer(returned', returned, core),
         SnapshotsExact(returned), execute_work(core)
  PROVE  SnapshotsExact(returned)'
<1> DEFINE r == returned
           s == returned'
           f == convert_tracking_snapshot(core)
           old == snapshots
           new == snapshots'
           posed == core.has_frame /\ f.pose_valid
           Type == [SnapshotFields -> Nat]
<1>1. /\ f.has_frame = core.has_frame /\ f.inliers = core.inliers
      /\ f.lost_events = core.lost_events
  BY Converted
<1>2. /\ core.has_frame \in BOOLEAN /\ f.pose_valid \in BOOLEAN /\ core.lost_events \in Nat
      /\ core.inliers \in Nat \cup {None} /\ PoseEnabled \in BOOLEAN
      /\ (HasInliers(core) => core.inliers \in Nat)
  BY CallTypes, RecorderAssumption DEF HasInliers
<1>3. f.pose_valid => PoseEnabled
  BY DEF convert_tracking_snapshot
<1>4. new = Collect(old, f)
  BY DEF execute_work, record
<1>5. /\ Counts(Shown(s), Shown(r), core.has_frame)
      /\ Counts(Counted(s), Counted(r), HasInliers(core))
      /\ Counts(Posed(s), Posed(r), posed)
  BY CallCountsGrow
<1>6. /\ SumOf(InlierColumn(s)) = SumOf(InlierColumn(r)) + IF HasInliers(core) THEN core.inliers ELSE 0
      /\ SumOf(LostColumn(s)) = SumOf(LostColumn(r)) + IF core.has_frame THEN core.lost_events ELSE 0
  BY SumsGrow
<1>7. /\ Inliers(r) \in SUBSET Nat /\ (Inliers(r) = {} <=> Counted(r) = {})
      /\ Inliers(s) = Inliers(r) \cup (IF HasInliers(core) THEN {core.inliers} ELSE {})
  BY InliersGrow
<1>8. /\ old \in Type
      /\ old.frames = Cardinality(Shown(r))
      /\ old.pose_collection = IF PoseEnabled THEN Cardinality(Shown(r)) ELSE 0
      /\ old.pose_valid = Cardinality(Posed(r))
      /\ old.lost_events = SumOf(LostColumn(r))
      /\ old.inlier_samples = Cardinality(Counted(r))
      /\ old.inlier_sum = SumOf(InlierColumn(r))
      /\ Counted(r) = {} => old.inlier_max = 0
      /\ Counted(r) # {} => Smallest(old.inlier_min, Inliers(r)) /\ Largest(old.inlier_max, Inliers(r))
  BY DEF SnapshotsExact
<1>9. old.inlier_samples = 0 <=> Counted(r) = {}
  <2>1. Counted(r) \subseteq 1..Len(r) /\ Len(r) \in Nat
    BY CallSetsBounded, LenProperties
  <2>2. IsFiniteSet(Counted(r))
    <3>1. PICK n \in Nat : n = Len(r)
      BY <2>1
    <3>2. IsFiniteSet(1..n)
      BY FS_Interval
    <3> QED
      BY <2>1, <3>1, <3>2, FS_Subset
  <2> QED
    BY <1>8, <2>2, FS_EmptySet
<1> HIDE DEF r, s, f, old, new
<1>n. /\ old.frames \in Nat /\ old.pose_collection \in Nat /\ old.pose_valid \in Nat
      /\ old.lost_events \in Nat /\ old.inlier_samples \in Nat /\ old.inlier_sum \in Nat
      /\ old.inlier_min \in Nat /\ old.inlier_max \in Nat
  BY <1>8, FieldsNatural
<1>10. /\ new \in Type
       /\ new.frames = old.frames + Count(core.has_frame)
       /\ new.pose_collection = old.pose_collection + Count(core.has_frame /\ PoseEnabled)
       /\ new.pose_valid = old.pose_valid + Count(posed)
       /\ new.lost_events = old.lost_events + IF core.has_frame THEN core.lost_events ELSE 0
       /\ new.inlier_samples = old.inlier_samples + Count(HasInliers(core))
       /\ new.inlier_sum = old.inlier_sum + IF HasInliers(core) THEN core.inliers ELSE 0
       /\ new.inlier_min = IF HasInliers(core) THEN Minimum(old, core.inliers) ELSE old.inlier_min
       /\ new.inlier_max = IF HasInliers(core) THEN Larger(old.inlier_max, core.inliers) ELSE old.inlier_max
  <2>1. CASE ~core.has_frame
    <3>1. new = old
      BY <1>1, <1>4, <2>1 DEF Collect
    <3> QED
      BY <1>n, <1>8, <2>1, <3>1 DEF Count, HasInliers
  <2> DEFINE with_frame == [old EXCEPT !.frames = @ + 1, !.lost_events = @ + f.lost_events,
                                       !.pose_collection = @ + Count(PoseEnabled),
                                       !.pose_valid = @ + Count(PoseEnabled /\ f.pose_valid)]
  <2>2. Count(PoseEnabled) \in Nat /\ Count(PoseEnabled /\ f.pose_valid) \in Nat
    BY DEF Count
  <2>3. /\ with_frame \in Type
        /\ with_frame.frames = old.frames + 1
        /\ with_frame.pose_collection = old.pose_collection + Count(PoseEnabled)
        /\ with_frame.pose_valid = old.pose_valid + Count(PoseEnabled /\ f.pose_valid)
        /\ with_frame.lost_events = old.lost_events + core.lost_events
        /\ with_frame.inlier_samples = old.inlier_samples
        /\ with_frame.inlier_sum = old.inlier_sum
        /\ with_frame.inlier_min = old.inlier_min
        /\ with_frame.inlier_max = old.inlier_max
    <3>1. PICK l, c, v : /\ l = f.lost_events /\ c = Count(PoseEnabled)
                         /\ v = Count(PoseEnabled /\ f.pose_valid)
      OBVIOUS
    <3>2. l \in Nat /\ c \in Nat /\ v \in Nat /\ l = core.lost_events
      BY <1>1, <1>2, <2>2, <3>1
    <3>3. with_frame = [old EXCEPT !.frames = @ + 1, !.lost_events = @ + l,
                                   !.pose_collection = @ + c, !.pose_valid = @ + v]
      BY <3>1, Zenon
    <3> HIDE DEF with_frame
    <3>4. old \in Type
      BY <1>8
    <3>s. with_frame = [field \in SnapshotFields |-> with_frame[field]]
      BY <3>3, <3>4
    <3>5. /\ with_frame.frames = old.frames + 1
          /\ with_frame.pose_collection = old.pose_collection + c
          /\ with_frame.pose_valid = old.pose_valid + v
          /\ with_frame.lost_events = old.lost_events + l
          /\ with_frame.inlier_samples = old.inlier_samples
          /\ with_frame.inlier_sum = old.inlier_sum
          /\ with_frame.inlier_min = old.inlier_min
          /\ with_frame.inlier_max = old.inlier_max
      BY <3>3, <3>4 DEF SnapshotFields
    <3>6. with_frame \in Type
      <4>1. with_frame.frames \in Nat /\ with_frame.pose_collection \in Nat
        BY <1>n, <3>2, <3>5
      <4>2. with_frame.pose_valid \in Nat /\ with_frame.lost_events \in Nat
        <5>1. \A x, y \in Nat : x + y \in Nat
          OBVIOUS
        <5> QED
          BY <1>n, <3>2, <3>5, <5>1, Zenon
      <4>3. /\ with_frame.inlier_samples \in Nat /\ with_frame.inlier_sum \in Nat
            /\ with_frame.inlier_min \in Nat /\ with_frame.inlier_max \in Nat
        BY <1>n, <3>5
      <4> QED
        BY <3>s, <4>1, <4>2, <4>3, SnapshotsTyped, Zenon
    <3> QED
      BY <3>1, <3>2, <3>5, <3>6, Zenon
  <2>4. ASSUME core.has_frame
        PROVE  new = IF core.inliers = None THEN with_frame
                     ELSE [with_frame EXCEPT !.inlier_samples = @ + 1, !.inlier_sum = @ + core.inliers,
                                             !.inlier_min = Minimum(old, core.inliers),
                                             !.inlier_max = Larger(@, core.inliers)]
    BY <1>1, <1>4, <2>4 DEF Collect
  <2> HIDE DEF with_frame
  <2>5. CASE core.has_frame /\ core.inliers = None
    <3>1. new = with_frame
      BY <2>4, <2>5
    <3>2. ~HasInliers(core) /\ Count(core.has_frame) = 1 /\ Count(HasInliers(core)) = 0
      BY <2>5 DEF Count, HasInliers
    <3>3. /\ Count(core.has_frame /\ PoseEnabled) = Count(PoseEnabled)
          /\ Count(PoseEnabled /\ f.pose_valid) = Count(posed)
      BY <1>2, <1>3, <2>5 DEF Count
    <3> HIDE DEF posed, Type
    <3>4. /\ old.inlier_samples + 0 = old.inlier_samples
          /\ old.inlier_sum + 0 = old.inlier_sum
      BY <1>n
    <3> QED
      BY <2>3, <2>5, <3>1, <3>2, <3>3, <3>4, Zenon
  <2>6. CASE core.has_frame /\ core.inliers # None
    <3>1. core.inliers \in Nat /\ HasInliers(core)
      BY <1>2, <2>6 DEF HasInliers
    <3>2. Minimum(old, core.inliers) \in Nat /\ Larger(old.inlier_max, core.inliers) \in Nat
      BY <1>n, <3>1 DEF Minimum, Smaller, Larger
    <3>3. PICK a, b, w : /\ a = Minimum(old, core.inliers)
                         /\ b = Larger(old.inlier_max, core.inliers) /\ w = with_frame
      OBVIOUS
    <3>4. new = [w EXCEPT !.inlier_samples = @ + 1, !.inlier_sum = @ + core.inliers,
                          !.inlier_min = a, !.inlier_max = b]
      BY <2>3, <2>4, <2>6, <3>3
    <3>5. w \in Type /\ a \in Nat /\ b \in Nat
      BY <2>3, <3>2, <3>3
    <3>6. /\ new = [field \in SnapshotFields |-> new[field]]
          /\ new.frames = w.frames /\ new.pose_collection = w.pose_collection
          /\ new.pose_valid = w.pose_valid /\ new.lost_events = w.lost_events
          /\ new.inlier_samples = w.inlier_samples + 1
          /\ new.inlier_sum = w.inlier_sum + core.inliers
          /\ new.inlier_min = a /\ new.inlier_max = b
      BY <3>4, <3>5 DEF SnapshotFields
    <3>n. new \in Type
      <4>1. /\ w.frames \in Nat /\ w.pose_collection \in Nat /\ w.pose_valid \in Nat
            /\ w.lost_events \in Nat /\ w.inlier_samples \in Nat /\ w.inlier_sum \in Nat
        BY <3>5, FieldsNatural
      <4>2. new.inlier_samples \in Nat /\ new.inlier_sum \in Nat
        BY <3>1, <3>6, <4>1
      <4> QED
        BY <3>5, <3>6, <4>1, <4>2, SnapshotsTyped
    <3>7. /\ Count(core.has_frame) = 1 /\ Count(HasInliers(core)) = 1
          /\ Count(core.has_frame /\ PoseEnabled) = Count(PoseEnabled)
          /\ Count(PoseEnabled /\ f.pose_valid) = Count(posed)
      BY <1>2, <1>3, <2>6, <3>1 DEF Count
    <3> HIDE DEF posed
    <3> QED
      BY <2>3, <2>6, <3>1, <3>3, <3>6, <3>7, <3>n, Zenon
  <2> QED
    BY <1>2, <2>1, <2>5, <2>6
<1>11. /\ new.frames = Cardinality(Shown(s))
       /\ new.pose_valid = Cardinality(Posed(s))
       /\ new.inlier_samples = Cardinality(Counted(s))
  BY <1>5, <1>8, <1>10, Zenon DEF Counts
<1>12. new.pose_collection = IF PoseEnabled THEN Cardinality(Shown(s)) ELSE 0
  <2>1. CASE PoseEnabled
    <3>1. Count(core.has_frame /\ PoseEnabled) = Count(core.has_frame)
      BY <2>1 DEF Count
    <3> QED
      BY <1>5, <1>8, <1>10, <2>1, <3>1, Zenon DEF Counts
  <2>2. CASE ~PoseEnabled
    <3>1. Count(core.has_frame /\ PoseEnabled) = 0
      BY <2>2 DEF Count
    <3> QED
      BY <1>8, <1>10, <2>2, <3>1
  <2> QED
    BY <2>1, <2>2
<1>13. new.lost_events = SumOf(LostColumn(s)) /\ new.inlier_sum = SumOf(InlierColumn(s))
  BY <1>6, <1>8, <1>10, Zenon
<1>14. Counted(s) = {} <=> Counted(r) = {} /\ ~HasInliers(core)
  <2>1. Joins(Counted(s), Counted(r), Len(r), HasInliers(core))
    BY CallSetsGrow DEF r, s
  <2> QED
    BY <2>1 DEF Joins
<1>15. CASE ~HasInliers(core)
  <2>1. Inliers(s) = Inliers(r) /\ new.inlier_min = old.inlier_min /\ new.inlier_max = old.inlier_max
    BY <1>7, <1>10, <1>15
  <2> QED
    BY <1>8, <1>10, <1>11, <1>12, <1>13, <1>14, <1>15, <2>1, Zenon DEF SnapshotsExact, s, new
<1>16. CASE HasInliers(core)
  <2>1. core.inliers \in Nat /\ Inliers(s) = Inliers(r) \cup {core.inliers} /\ Inliers(r) \in SUBSET Int
    BY <1>2, <1>7, <1>16
  <2>i. core.inliers \in Int
    BY <2>1
  <2>2. Smallest(new.inlier_min, Inliers(s)) /\ Largest(new.inlier_max, Inliers(s))
    <3>1. CASE Counted(r) = {}
      <4>1. Inliers(s) = {core.inliers}
        BY <1>7, <2>1, <3>1
      <4>2. new.inlier_min = core.inliers
        BY <1>9, <1>10, <1>16, <3>1 DEF Minimum
      <4>3. new.inlier_max = core.inliers
        <5>1. new.inlier_max = Larger(0, core.inliers)
          BY <1>8, <1>10, <1>16, <3>1
        <5> QED
          BY <2>1, <5>1 DEF Larger
      <4> QED
        BY <2>1, <4>1, <4>2, <4>3 DEF Smallest, Largest
    <3>2. CASE Counted(r) # {}
      <4>1. new.inlier_min = Smaller(old.inlier_min, core.inliers)
        BY <1>9, <1>10, <1>16, <3>2 DEF Minimum
      <4>2. new.inlier_max = Larger(old.inlier_max, core.inliers)
        BY <1>10, <1>16
      <4>3. Smallest(old.inlier_min, Inliers(r)) /\ Largest(old.inlier_max, Inliers(r))
        BY <1>8, <3>2
      <4> QED
        BY <2>1, <2>i, <4>1, <4>2, <4>3, ExtremaGrow, Zenon
    <3> QED
      BY <3>1, <3>2
  <2>3. Counted(s) # {}
    BY <1>14, <1>16
  <2> QED
    BY <1>10, <1>11, <1>12, <1>13, <2>2, <2>3, Zenon DEF SnapshotsExact, s, new
<1> QED
  BY <1>15, <1>16

(* The total of the last frame with a snapshot is kept over those without   *)
(* one.                                                                     *)
LEMMA KeyframesStep ==
  ASSUME returned \in Seq(Returns), NEW core \in Returns, Longer(returned', returned, core),
         KeyframesExact(returned), execute_work(core)
  PROVE  KeyframesExact(returned)'
<1> DEFINE r == returned
           s == returned'
           n == Len(r)
<1>1. /\ n \in Nat /\ s[n + 1] = core /\ \A i \in Calls(r) : s[i] = r[i]
      /\ Calls(r) = 1..n /\ Shown(r) \subseteq Calls(r)
  BY DEF Longer, Shown
<1>2. Joins(Shown(s), Shown(r), n, core.has_frame)
  BY CallSetsGrow
<1>3. last_keyframes_inserted' = IF core.has_frame THEN core.keyframes ELSE last_keyframes_inserted
  BY Converted DEF execute_work, record
<1> HIDE DEF n
<1>4. CASE core.has_frame
  <2>1. Shown(s) = Shown(r) \cup {n + 1}
    BY <1>2, <1>4 DEF Joins
  <2>2. n + 1 \in Shown(s) /\ Largest(n + 1, Shown(s))
    BY <1>1, <2>1 DEF Largest
  <2> QED
    BY <1>1, <1>3, <1>4, <2>2 DEF KeyframesExact
<1>5. CASE ~core.has_frame
  <2>1. Shown(s) = Shown(r) /\ last_keyframes_inserted' = last_keyframes_inserted
    BY <1>2, <1>3, <1>5 DEF Joins
  <2>2. \A k \in Shown(r) : s[k] = r[k]
    BY <1>1
  <2>3. IF Shown(s) = {} THEN last_keyframes_inserted' = None
        ELSE \E k \in Shown(s) : Largest(k, Shown(s)) /\ last_keyframes_inserted' = s[k].keyframes
    BY <2>1, <2>2 DEF KeyframesExact
  <2> QED
    BY <2>3 DEF KeyframesExact
<1> QED
  BY <1>4, <1>5

(* Sum and maximum of the durations stay exact after the buffer is full.    *)
LEMMA DurationsStep ==
  ASSUME returned \in Seq(Returns), NEW core \in Returns, Longer(returned', returned, core),
         DurationsExact(returned), execute_work(core)
  PROVE  DurationsExact(returned)'
<1> DEFINE r == returned
           s == returned'
           n == Len(r)
<1>1. /\ n \in Nat /\ s[n + 1] = core /\ \A i \in Calls(r) : s[i] = r[i] /\ r[i] \in Returns
      /\ Calls(r) = 1..n /\ Calls(s) = Calls(r) \cup {n + 1} /\ Len(s) = n + 1
  BY DEF Longer
<1>2. /\ adapter_sum' = adapter_sum + core.duration
      /\ adapter_max' = Larger(adapter_max, core.duration)
  BY Converted DEF execute_work, record
<1>3. SumOf(DurationColumn(s)) = SumOf(DurationColumn(r)) + core.duration
  BY SumsGrow
<1>4. core.duration \in Nat /\ Durations(r) \in SUBSET Int
  <2>1. \A i \in Calls(r) : r[i].duration \in Int
    BY <1>1, CallTypes
  <2> QED
    BY <2>1, CallTypes DEF Durations
<1> HIDE DEF n
<1>5. Durations(s) = Durations(r) \cup {core.duration}
  BY <1>1 DEF Durations
<1>6. Largest(adapter_max', Durations(s))
  <2>1. CASE n = 0
    <3>1. Durations(s) = {core.duration}
      <4>1. Calls(r) = {}
        BY <1>1, <2>1
      <4> QED
        BY <1>5, <4>1 DEF Durations
    <3>2. adapter_max' = core.duration
      BY <1>2, <1>4, <2>1 DEF DurationsExact, Larger, n
    <3> QED
      BY <1>4, <3>1, <3>2 DEF Largest
  <2>2. CASE n > 0
    <3>1. Largest(adapter_max, Durations(r))
      BY <2>2 DEF DurationsExact, n
    <3>2. core.duration \in Int
      BY <1>4
    <3> QED
      BY <1>2, <1>4, <1>5, <3>1, <3>2, ExtremaGrow, Zenon
  <2> QED
    BY <1>1, <2>1, <2>2
<1>7. adapter_sum' = SumOf(DurationColumn(s)) /\ Len(s) # 0
  BY <1>1, <1>2, <1>3 DEF DurationsExact
<1> QED
  BY <1>6, <1>7 DEF DurationsExact

(* The buffer holds the calls kept: the first ones, up to its capacity.     *)
LEMMA FramesStep ==
  ASSUME returned \in Seq(Returns), NEW core \in Returns, Longer(returned', returned, core),
         FramesExact(returned), execute_work(core)
  PROVE  FramesExact(returned)'
<1> DEFINE r == returned
           s == returned'
           n == Len(r)
           Frames == {convert_tracking_snapshot(c) : c \in Returns}
<1>1. /\ n \in Nat /\ s[n + 1] = core /\ \A i \in Calls(r) : s[i] = r[i] /\ r[i] \in Returns
      /\ Calls(r) = 1..n /\ Len(s) = n + 1
  BY DEF Longer
<1>2. /\ frames' = Retained(convert_tracking_snapshot(core))
      /\ dropped' = dropped + Count(Len(frames) = Capacity)
  BY DEF execute_work, record
<1>3. Capacity \in Nat \ {0}
  BY RecorderAssumption
<1>4. CASE n < Capacity
  <2>1. /\ Kept(r) = 1..n /\ Kept(s) = 1..(n + 1)
        /\ Smaller(n, Capacity) = n /\ Smaller(n + 1, Capacity) = n + 1
    <3>1. Smaller(n, Capacity) = n
      BY <1>4 DEF Smaller
    <3>2. Smaller(n + 1, Capacity) = n + 1
      BY <1>1, <1>3, <1>4 DEF Smaller
    <3> QED
      BY <1>1, <3>1, <3>2 DEF Kept
  <2>2. frames = [i \in 1..n |-> convert_tracking_snapshot(r[i])] /\ dropped = n - n
    BY <2>1 DEF FramesExact
  <2>3. frames \in [1..n -> Frames] /\ convert_tracking_snapshot(core) \in Frames
    BY <1>1, <2>2
  <2> HIDE DEF Frames, n
  <2>4. PICK w : w = Append(frames, convert_tracking_snapshot(core)) /\ w \in Seq(Frames)
    <3>1. frames \in Seq(Frames)
      BY <1>1, <2>3, IsASeq
    <3> QED
      BY <2>3, <3>1, AppendProperties, Zenon
  <2>g. /\ Len(frames) = n /\ w \in [1..(n + 1) -> Frames]
        /\ w[n + 1] = convert_tracking_snapshot(core)
        /\ \A i \in 1..n : w[i] = frames[i]
    <3>1. PICK m, F, v, x : m = n /\ F = Frames /\ v = frames /\ x = convert_tracking_snapshot(core)
      OBVIOUS
    <3>2. m \in Nat /\ v \in [1..m -> F] /\ x \in F /\ w = Append(v, x) /\ w \in Seq(F)
      BY <1>1, <2>3, <2>4, <3>1, Zenon
    <3>3. v \in Seq(F) /\ Len(v) = m
      BY <3>2
    <3>4. Len(w) = m + 1 /\ w[m + 1] = x /\ \A i \in 1..m : w[i] = v[i]
      BY <3>2, <3>3, AppendProperties
    <3>5. w \in [1..(m + 1) -> F]
      BY <3>2, <3>4, LenProperties, Zenon
    <3> QED
      BY <3>1, <3>3, <3>4, <3>5, Zenon
  <2>5. frames' = w /\ dropped' = dropped + 0
    BY <1>1, <1>2, <1>3, <1>4, <2>4, <2>g DEF Retained, Count
  <2>6. \A i \in 1..(n + 1) : frames'[i] = convert_tracking_snapshot(s[i])
    <3>1. \A i \in 1..n : frames'[i] = convert_tracking_snapshot(s[i])
      BY <1>1, <2>2, <2>g, <2>5
    <3>2. frames'[n + 1] = convert_tracking_snapshot(s[n + 1])
      BY <1>1, <2>g, <2>5
    <3>3. \A i \in 1..(n + 1) : i \in 1..n \/ i = n + 1
      BY <1>1
    <3> QED
      BY <3>1, <3>2, <3>3
  <2>7. frames' = [i \in Kept(s) |-> convert_tracking_snapshot(s[i])]
    <3>1. frames' \in [1..(n + 1) -> Frames]
      BY <2>g, <2>5
    <3> QED
      BY <2>1, <2>6, <3>1
  <2>8. dropped' = Len(s) - Smaller(Len(s), Capacity)
    BY <1>1, <2>1, <2>2, <2>5
  <2> QED
    BY <2>7, <2>8 DEF FramesExact
<1>5. CASE ~(n < Capacity)
  <2>1. /\ Kept(r) = 1..Capacity /\ Kept(s) = 1..Capacity
        /\ Smaller(n, Capacity) = Capacity /\ Smaller(n + 1, Capacity) = Capacity
    <3>1. Smaller(n, Capacity) = Capacity
      BY <1>5 DEF Smaller
    <3>2. Smaller(n + 1, Capacity) = Capacity
      BY <1>1, <1>3, <1>5 DEF Smaller
    <3> QED
      BY <1>1, <3>1, <3>2 DEF Kept
  <2>2. frames = [i \in 1..Capacity |-> convert_tracking_snapshot(r[i])] /\ dropped = n - Capacity
    BY <2>1 DEF FramesExact
  <2>3. Len(frames) = Capacity
    <3>1. PICK c \in Nat : c = Capacity
      BY <1>3
    <3>2. frames \in [1..c -> Frames]
      <4>1. \A i \in 1..c : r[i] \in Returns
        BY <1>1, <1>5, <3>1
      <4> QED
        BY <2>2, <3>1, <4>1
    <3> HIDE DEF Frames
    <3>3. Len(frames) = c
      BY <3>2
    <3> QED
      BY <3>1, <3>3
  <2> HIDE DEF n
  <2>4. frames' = frames /\ dropped' = dropped + 1
    BY <1>2, <2>3 DEF Retained, Count
  <2>5. \A i \in 1..Capacity : s[i] = r[i]
    BY <1>1, <1>3, <1>5
  <2>6. frames' = [i \in Kept(s) |-> convert_tracking_snapshot(s[i])]
    BY <2>1, <2>2, <2>4, <2>5
  <2>7. dropped' = Len(s) - Smaller(Len(s), Capacity)
    BY <1>1, <1>3, <2>1, <2>2, <2>4
  <2> QED
    BY <2>6, <2>7 DEF FramesExact
<1> QED
  BY <1>4, <1>5

(* Nothing is recorded yet.                                                 *)
LEMMA TallyInit == Init => TallyInv
<1> SUFFICES ASSUME Init PROVE TallyInv
  OBVIOUS
<1> DEFINE r == <<>>
<1>1. /\ returned = r /\ r \in Seq(Returns) /\ Len(r) = 0 /\ Calls(r) = {}
  BY DEF Init, RecorderInit, Calls
<1>2. /\ After(r) = {} /\ Lost(r) = {} /\ Shown(r) = {} /\ Counted(r) = {} /\ Posed(r) = {}
      /\ (\A b : InBucket(r, b) = {}) /\ ~Started(r)
  BY <1>1 DEF After, Lost, Shown, Counted, Posed, InBucket, Started
<1>3. Cardinality({}) = 0
  BY FS_EmptySet
<1>4. InlierColumn(r) = r /\ LostColumn(r) = r /\ DurationColumn(r) = r
  BY <1>1 DEF InlierColumn, LostColumn, DurationColumn
<1>5. SumOf(r) = 0
  BY SumProperties
<1>6. Kept(r) = {} /\ Smaller(0, Capacity) = 0
  <2>1. Smaller(0, Capacity) = 0
    BY RecorderAssumption DEF Smaller
  <2> QED
    BY <1>1, <2>1 DEF Kept
<1> HIDE DEF r
<1>7. CountsExact(r)
  <2>1. state_counts = [b \in Buckets |-> Cardinality(InBucket(r, b))]
    BY <1>2, <1>3 DEF Init, RecorderInit
  <2>2. /\ processed_frames = 0 /\ processed = 0 /\ tracking_started = FALSE
        /\ after_first_ok_frames = 0 /\ startup_frames = 0 /\ lost_frames = 0
    BY DEF Init, RecorderInit
  <2>3. /\ after_first_ok_frames = Cardinality(After(r)) /\ lost_frames = Cardinality(Lost(r))
        /\ startup_frames = Len(r) - Cardinality(After(r))
    BY <1>1, <1>2, <1>3, <2>2
  <2>4. tracking_started = Started(r)
    BY <1>2, <2>2 DEF Started
  <2> QED
    BY <1>1, <2>1, <2>2, <2>3, <2>4, Zenon DEF CountsExact
<1>8. SnapshotsExact(r)
  <2>1. snapshots = [frames |-> 0, pose_collection |-> 0, pose_valid |-> 0, lost_events |-> 0,
                     inlier_samples |-> 0, inlier_sum |-> 0, inlier_min |-> 0, inlier_max |-> 0]
    BY DEF Init, RecorderInit
  <2>2. /\ snapshots.frames = 0 /\ snapshots.pose_collection = 0 /\ snapshots.pose_valid = 0
        /\ snapshots.lost_events = 0 /\ snapshots.inlier_samples = 0 /\ snapshots.inlier_sum = 0
        /\ snapshots.inlier_min = 0 /\ snapshots.inlier_max = 0
    BY <2>1
  <2>3. snapshots = [field \in SnapshotFields |-> snapshots[field]]
    BY <2>1 DEF SnapshotFields
  <2>4. snapshots \in [SnapshotFields -> Nat]
    <3>1. 0 \in Nat
      OBVIOUS
    <3> QED
      BY <2>2, <2>3, <3>1, SnapshotsTyped, Zenon
  <2> QED
    BY <1>2, <1>3, <1>4, <1>5, <2>2, <2>4, Zenon DEF SnapshotsExact
<1>9. KeyframesExact(r)
  BY <1>2 DEF KeyframesExact, Init, RecorderInit
<1>10. DurationsExact(r)
  BY <1>1, <1>4, <1>5 DEF DurationsExact, Init, RecorderInit
<1>11. FramesExact(r)
  <2>1. frames = [i \in Kept(r) |-> convert_tracking_snapshot(r[i])]
    BY <1>6 DEF Init, RecorderInit
  <2> QED
    BY <1>1, <1>6, <2>1 DEF FramesExact, Init, RecorderInit
<1> QED
  BY <1>1, <1>7, <1>8, <1>9, <1>10, <1>11 DEF TallyInv

(* Every call keeps the tallies exact, and nothing else touches them.       *)
LEMMA TallyStep == TallyInv /\ [Next]_vars => TallyInv'
<1> SUFFICES ASSUME TallyInv, [Next]_vars PROVE TallyInv'
  OBVIOUS
<1>1. CASE track
  <2>1. PICK core \in Returns : execute_work(core)
    BY <1>1 DEF track
  <2>2. returned \in Seq(Returns) /\ returned' = Append(returned, core)
    BY <2>1 DEF execute_work, TallyInv
  <2>3. Longer(returned', returned, core)
    BY <2>2, RunGrows
  <2>4. CountsExact(returned)'
    BY <2>1, <2>2, <2>3, CountsStep DEF TallyInv
  <2>5. SnapshotsExact(returned)'
    BY <2>1, <2>2, <2>3, SnapshotsStep DEF TallyInv
  <2>6. KeyframesExact(returned)'
    BY <2>1, <2>2, <2>3, KeyframesStep DEF TallyInv
  <2>7. DurationsExact(returned)'
    BY <2>1, <2>2, <2>3, DurationsStep DEF TallyInv
  <2>8. FramesExact(returned)'
    BY <2>1, <2>2, <2>3, FramesStep DEF TallyInv
  <2>9. returned' \in Seq(Returns)
    BY <2>3 DEF Longer
  <2> QED
    BY <2>4, <2>5, <2>6, <2>7, <2>8, <2>9, Zenon DEF TallyInv
<1>2. ASSUME UNCHANGED recorder PROVE TallyInv'
  BY <1>2 DEF recorder, TallyInv, CountsExact, SnapshotsExact, KeyframesExact, DurationsExact,
     FramesExact
<1>3. [Next]_vars => track \/ UNCHANGED recorder
  BY DEF Next, vars, begin_export, write_metadata, write_frames, write_summary, Write,
     write_evaluation_inputs, write_evaluation_export_complete, backend_shutdown,
     write_evaluation_backend_summary, rename_backend_summary, export_trajectory, Interference
<1> QED
  BY <1>1, <1>2, <1>3

-----------------------------------------------------------------------------
(* What the counts of sets of calls say of the sets.                        *)
LEMMA SubsetsFinite ==
  ASSUME NEW n \in Nat, NEW S \in SUBSET (1..n)
  PROVE  /\ IsFiniteSet(S) /\ Cardinality(S) \in Nat
         /\ (Cardinality(S) = 0 <=> S = {})
         /\ (Cardinality(S) = n <=> S = 1..n)
         /\ \A T \in SUBSET S : Cardinality(S \ T) = Cardinality(S) - Cardinality(T)
<1>1. IsFiniteSet(1..n) /\ Cardinality(1..n) = n
  BY FS_Interval
<1>2. IsFiniteSet(S)
  BY <1>1, FS_Subset
<1>3. Cardinality(S) \in Nat /\ (Cardinality(S) = 0 <=> S = {})
  BY <1>2, FS_CardinalityType, FS_EmptySet
<1>4. Cardinality(S) = n <=> S = 1..n
  BY <1>1, FS_Subset
<1>5. ASSUME NEW T \in SUBSET S
      PROVE  Cardinality(S \ T) = Cardinality(S) - Cardinality(T)
  <2>1. S \cap T = T
    OBVIOUS
  <2> QED
    BY <1>2, <2>1, FS_Difference
<1> QED
  BY <1>2, <1>3, <1>4, <1>5

(* The figures of summary.csv that are counts.                              *)
LEMMA CountFigures ==
  ASSUME TallyInv
  PROVE  LET r == returned
             n == Len(r)
         IN  /\ n \in Nat /\ Calls(r) = 1..n
             /\ processed_frames = n /\ processed = n
             /\ startup_frames = n - Cardinality(After(r))
             /\ after_first_ok_frames = Cardinality(After(r))
             /\ lost_frames = Cardinality(Lost(r))
             /\ state_counts = [b \in Buckets |-> Cardinality(InBucket(r, b))]
             /\ snapshots.frames = Cardinality(Shown(r))
             /\ snapshots.pose_valid = Cardinality(Posed(r))
             /\ snapshots.pose_collection - snapshots.pose_valid =
                   (IF PoseEnabled THEN Cardinality(Shown(r) \ Posed(r)) ELSE 0)
             /\ snapshots.inlier_samples = Cardinality(Counted(r))
             /\ snapshots.inlier_samples = 0 <=> Counted(r) = {}
             /\ snapshots.frames = n <=> Shown(r) = Calls(r)
<1> DEFINE r == returned
           n == Len(r)
<1>1. n \in Nat /\ Calls(r) = 1..n
  BY LenProperties DEF TallyInv, Calls
<1>2. CountsExact(r) /\ SnapshotsExact(r)
  BY DEF TallyInv
<1>3. /\ Shown(r) \in SUBSET (1..n) /\ Counted(r) \in SUBSET (1..n) /\ Posed(r) \in SUBSET Shown(r)
      /\ Posed(r) \in SUBSET (1..n)
  BY CallSetsBounded
<1> HIDE DEF n
<1>4. /\ Cardinality(Counted(r)) = 0 <=> Counted(r) = {}
      /\ Cardinality(Shown(r)) = n <=> Shown(r) = 1..n
      /\ Cardinality(Shown(r) \ Posed(r)) = Cardinality(Shown(r)) - Cardinality(Posed(r))
      /\ Cardinality(Shown(r)) \in Nat
  BY <1>1, <1>3, SubsetsFinite, Zenon
<1>5. snapshots.pose_collection - snapshots.pose_valid =
        (IF PoseEnabled THEN Cardinality(Shown(r) \ Posed(r)) ELSE 0)
  <2>1. CASE PoseEnabled
    BY <1>2, <1>4, <2>1 DEF SnapshotsExact
  <2>2. CASE ~PoseEnabled
    <3>1. Posed(r) = {}
      BY <2>2 DEF Posed, convert_tracking_snapshot
    <3>2. snapshots.pose_collection = 0 /\ snapshots.pose_valid = 0
      BY <1>2, <2>2, <3>1, FS_EmptySet DEF SnapshotsExact
    <3> QED
      BY <2>2, <3>2
  <2> QED
    BY <2>1, <2>2
<1>6. processed_frames = n /\ processed = n /\ startup_frames = n - Cardinality(After(r))
  BY <1>2 DEF CountsExact, n
<1>7. /\ after_first_ok_frames = Cardinality(After(r)) /\ lost_frames = Cardinality(Lost(r))
      /\ state_counts = [b \in Buckets |-> Cardinality(InBucket(r, b))]
  BY <1>2 DEF CountsExact
<1>8. /\ snapshots.frames = Cardinality(Shown(r)) /\ snapshots.pose_valid = Cardinality(Posed(r))
      /\ snapshots.inlier_samples = Cardinality(Counted(r))
  BY <1>2 DEF SnapshotsExact
<1> QED
  BY <1>1, <1>4, <1>5, <1>6, <1>7, <1>8, Zenon DEF n

(* Those that are sums, extrema and the last value, or an N/A.              *)
LEMMA SampleFigures ==
  ASSUME TallyInv
  PROVE  LET r == returned
             n == Len(r)
         IN  /\ If(Counted(r) # {}, snapshots.inlier_sum) =
                   If(Counted(r) # {},
                      SumOf([i \in Calls(r) |-> IF i \in Counted(r) THEN r[i].inliers ELSE 0]))
             /\ If(Counted(r) # {}, snapshots.inlier_min) = LeastOrNone(Inliers(r))
             /\ If(Counted(r) # {}, snapshots.inlier_max) = If(Counted(r) # {}, Max(Inliers(r)))
             /\ If(Shown(r) = Calls(r) /\ n # 0, snapshots.lost_events) =
                   If(Shown(r) = Calls(r) /\ n > 0, SumOf([i \in Calls(r) |-> r[i].lost_events]))
             /\ last_keyframes_inserted = If(Shown(r) # {}, r[Max(Shown(r))].keyframes)
             /\ If(n # 0, adapter_sum) = If(n > 0, SumOf([i \in Calls(r) |-> r[i].duration]))
             /\ If(n # 0, adapter_max) = If(n > 0, Max(Durations(r)))
<1> DEFINE r == returned
           n == Len(r)
<1>1. /\ n \in Nat /\ Calls(r) = 1..n /\ Shown(r) \in SUBSET Int
      /\ \A i \in Calls(r) : r[i] \in Returns
  BY LenProperties, ElementOfSeq, CallSetsBounded DEF TallyInv, Calls
<1>2. SnapshotsExact(r) /\ KeyframesExact(r) /\ DurationsExact(r)
  BY DEF TallyInv
<1>3. Inliers(r) \in SUBSET Int /\ Durations(r) \in SUBSET Int
  <2>1. \A i \in Calls(r) : r[i].duration \in Int /\ r[i].inliers \in Int \cup {None}
    BY <1>1, CallTypes
  <2>2. \A i \in Counted(r) : i \in Calls(r) /\ r[i].inliers # None
    BY DEF Counted, Shown
  <2> QED
    BY <2>1, <2>2 DEF Inliers, Durations
<1>4. Inliers(r) = {} <=> Counted(r) = {}
  BY DEF Inliers
<1> HIDE DEF n
<1>5. n # 0 <=> n > 0
  BY <1>1
<1>6. If(Counted(r) # {}, snapshots.inlier_sum) =
        If(Counted(r) # {}, SumOf([i \in Calls(r) |-> IF i \in Counted(r) THEN r[i].inliers ELSE 0]))
  BY <1>2 DEF SnapshotsExact, InlierColumn
<1>7. /\ If(Counted(r) # {}, snapshots.inlier_min) = LeastOrNone(Inliers(r))
      /\ If(Counted(r) # {}, snapshots.inlier_max) = If(Counted(r) # {}, Max(Inliers(r)))
  <2>1. CASE Counted(r) = {}
    BY <1>4, <2>1 DEF If, LeastOrNone
  <2>2. CASE Counted(r) # {}
    <3>1. Min(Inliers(r)) = snapshots.inlier_min /\ Max(Inliers(r)) = snapshots.inlier_max
      BY <1>2, <1>3, <2>2, Extrema, Zenon DEF SnapshotsExact
    <3> QED
      BY <1>4, <2>2, <3>1 DEF If, LeastOrNone
  <2> QED
    BY <2>1, <2>2
<1>8. If(Shown(r) = Calls(r) /\ n # 0, snapshots.lost_events) =
        If(Shown(r) = Calls(r) /\ n > 0, SumOf([i \in Calls(r) |-> r[i].lost_events]))
  <2>1. CASE Shown(r) = Calls(r)
    <3>1. LostColumn(r) = [i \in Calls(r) |-> r[i].lost_events]
      BY <2>1 DEF LostColumn
    <3> QED
      BY <1>2, <1>5, <3>1 DEF SnapshotsExact
  <2>2. CASE Shown(r) # Calls(r)
    BY <2>2 DEF If
  <2> QED
    BY <2>1, <2>2
<1>9. last_keyframes_inserted = If(Shown(r) # {}, r[Max(Shown(r))].keyframes)
  <2>1. CASE Shown(r) = {}
    BY <1>2, <2>1 DEF KeyframesExact, If
  <2>2. CASE Shown(r) # {}
    <3>1. PICK k \in Shown(r) : Largest(k, Shown(r)) /\ last_keyframes_inserted = r[k].keyframes
      BY <1>2, <2>2 DEF KeyframesExact
    <3>2. Max(Shown(r)) = k
      BY <1>1, <3>1, Extrema
    <3> QED
      BY <2>2, <3>1, <3>2 DEF If
  <2> QED
    BY <2>1, <2>2
<1>10. If(n # 0, adapter_sum) = If(n > 0, SumOf([i \in Calls(r) |-> r[i].duration]))
  BY <1>2, <1>5 DEF DurationsExact, DurationColumn
<1>11. If(n # 0, adapter_max) = If(n > 0, Max(Durations(r)))
  <2>1. CASE n > 0
    <3>1. Largest(adapter_max, Durations(r))
      BY <1>2, <2>1 DEF DurationsExact, n
    <3>2. Max(Durations(r)) = adapter_max
      BY <1>3, <3>1, Extrema
    <3> QED
      BY <1>5, <3>2
  <2>2. CASE ~(n > 0)
    BY <1>5, <2>2 DEF If
  <2> QED
    BY <2>1, <2>2
<1> QED
  BY <1>6, <1>7, <1>8, <1>9, <1>10, <1>11, Zenon DEF n

(* The frames of the buffer are the conversions of the calls kept.          *)
LEMMA FrameFigures ==
  ASSUME TallyInv
  PROVE  LET r == returned
             k == Len(frames)
         IN  /\ k \in Nat /\ Kept(r) = 1..k /\ Cardinality(Kept(r)) = k
             /\ dropped = Len(r) - k
             /\ \A i \in 1..k : /\ r[i] \in Returns /\ i \in Calls(r)
                                 /\ frames[i] = convert_tracking_snapshot(r[i])
<1> DEFINE r == returned
<1>1. Len(r) \in Nat /\ Calls(r) = 1..Len(r) /\ \A i \in Calls(r) : r[i] \in Returns
  BY LenProperties, ElementOfSeq DEF TallyInv, Calls
<1>2. /\ frames = [i \in Kept(r) |-> convert_tracking_snapshot(r[i])]
      /\ dropped = Len(r) - Smaller(Len(r), Capacity)
  BY DEF TallyInv, FramesExact
<1>3. PICK k : k = Smaller(Len(r), Capacity)
  OBVIOUS
<1>4. k \in Nat /\ k <= Len(r) /\ Kept(r) = 1..k
  BY <1>1, <1>3, RecorderAssumption DEF Smaller, Kept
<1>5. Len(frames) = k
  BY <1>2, <1>4
<1>6. Cardinality(1..k) = k
  BY <1>4, FS_Interval
<1>7. \A i \in 1..k : /\ r[i] \in Returns /\ i \in Calls(r)
                      /\ frames[i] = convert_tracking_snapshot(r[i])
  BY <1>1, <1>2, <1>4
<1> QED
  BY <1>2, <1>3, <1>4, <1>5, <1>6, <1>7

(* The percentiles are those of the calls kept.                             *)
LEMMA PercentileFigures ==
  ASSUME TallyInv, NEW percent \in Percents
  PROVE  Percentile(percent) = AtLeast(returned, percent)
<1> DEFINE r == returned
           k == Len(frames)
           f == [i \in 1..k |-> r[i].duration]
           D == {f[i] : i \in 1..k}
           Enough == {d \in D : EnoughOf(AtMost(f, k, d), k, percent)}
<1>1. /\ k \in Nat /\ Kept(r) = 1..k /\ Cardinality(Kept(r)) = k
      /\ \A i \in 1..k : r[i] \in Returns /\ frames[i] = convert_tracking_snapshot(r[i])
  BY FrameFigures
<1>2. \A i \in 1..k : frames[i].duration = f[i] /\ f[i] = r[i].duration /\ f[i] \in Nat
  BY <1>1, Converted, CallTypes
<1> HIDE DEF k
<1>3. f \in [1..k -> Nat]
  BY <1>2
<1>4. AtLeast(r, percent) = LeastOrNone(Enough)
  <2>1. {r[i].duration : i \in Kept(r)} = D
    BY <1>1, <1>2
  <2>2. \A d : {i \in Kept(r) : r[i].duration <= d} = {i \in 1..k : f[i] <= d}
    BY <1>1, <1>2
  <2> HIDE DEF D, f
  <2>3. \A d : 100 * Cardinality({i \in Kept(r) : r[i].duration <= d}) >= percent * Cardinality(Kept(r))
                <=> EnoughOf(AtMost(f, k, d), k, percent)
    BY <1>1, <2>2 DEF AtMost, EnoughOf
  <2> QED
    BY <2>1, <2>3, Zenon DEF AtLeast
<1>5. CASE k = 0
  <2>1. Percentile(percent) = None
    BY <1>5 DEF Percentile, k
  <2>2. Enough = {}
    BY <1>5
  <2> QED
    BY <1>4, <2>1, <2>2 DEF LeastOrNone
<1>6. CASE k # 0
  <2>1. Percentile(percent) =
          CHOOSE d \in D : LessThan(f, k, d) < Rank(k, percent) /\ Rank(k, percent) <= AtMost(f, k, d)
    <3>1. {frames[i].duration : i \in 1..k} = D
      BY <1>2
    <3>2. \A d : /\ {i \in 1..k : frames[i].duration <= d} = {i \in 1..k : f[i] <= d}
                 /\ {i \in 1..k : frames[i].duration < d} = {i \in 1..k : f[i] < d}
      BY <1>2
    <3> HIDE DEF f, D
    <3> QED
      BY <1>6, <3>1, <3>2 DEF Percentile, LessThan, AtMost, Rank, k
  <2>2. k \in Nat \ {0}
    BY <1>1, <1>6
  <2> HIDE DEF f
  <2>3. Percentile(percent) = Min(Enough) /\ Enough # {}
    BY <1>3, <2>1, <2>2, NearestRank
  <2> HIDE DEF Enough
  <2> QED
    BY <1>4, <2>3 DEF LeastOrNone
<1> QED
  BY <1>5, <1>6

(* Every figure of summary.csv is its definition over the run.              *)
LEMMA SummaryFigures == TallyInv => summary_csv = Reference(returned)
<1> SUFFICES ASSUME TallyInv PROVE summary_csv = Reference(returned)
  OBVIOUS
<1> QED
  BY CountFigures, SampleFigures, FrameFigures, PercentileFigures DEF summary_csv, Reference, Percents

(* A row tells the state its call reported, and a pose only of a tracked    *)
(* frame.                                                                   *)
LEMMA RowFigures ==
  ASSUME TallyInv, NEW i \in Kept(returned)
  PROVE  /\ frames_csv[i].raw_tracking_state = returned[i].raw_tracking_state
         /\ frames_csv[i].pose => i \in Posed(returned) /\ returned[i].raw_tracking_state \in OK
<1> DEFINE core == returned[i]
           f == convert_tracking_snapshot(core)
<1>1. i \in 1..Len(frames) /\ i \in Calls(returned) /\ frames[i] = f
  BY FrameFigures
<1>2. /\ f.raw_tracking_state = core.raw_tracking_state /\ f.has_frame = core.has_frame
  BY Converted
<1>3. f.pose_valid => core.raw_tracking_state \in OK
  BY DEF convert_tracking_snapshot
<1>4. /\ frames_csv[i].raw_tracking_state = frames[i].raw_tracking_state
      /\ frames_csv[i].pose = (frames[i].has_frame /\ PoseEnabled /\ frames[i].pose_valid)
  BY <1>1 DEF frames_csv
<1>5. i \in Posed(returned) <=> core.has_frame /\ f.pose_valid
  BY <1>1 DEF Posed, Shown
<1> QED
  BY <1>1, <1>2, <1>3, <1>4, <1>5

(* Every figure of summary.csv is that of all calls that returned, and the  *)
(* rows and percentiles are those of the first Capacity of them: for every  *)
(* capacity, every bound on the calls and everything a call may return.     *)
THEOREM FiguresAreThoseOfTheRun == Spec => []SummaryExact
<1>1. Spec => []TallyInv
  BY TallyInit, TallyStep, PTL DEF Spec
<1>2. TallyInv => SummaryExact
  <2> SUFFICES ASSUME TallyInv PROVE SummaryExact
    OBVIOUS
  <2>1. processed_frames = Len(returned) /\ processed = Len(returned)
    BY CountFigures
  <2> QED
    BY <2>1, SummaryFigures, RowFigures DEF SummaryExact
<1> QED
  BY <1>1, <1>2, PTL

(* The marker certifies more than agreement: once export_complete.txt is    *)
(* there, and whatever fails after it, the summary on disk is the exact     *)
(* account of all calls of the run.                                         *)
THEOREM CertifiedSummaryIsExact ==
  Spec => [](Whole("export_complete") => artifacts["summary"] = Reference(returned))
<1>1. Spec => [](FiguresInv /\ ExportInv /\ TallyInv)
  BY ExportInit, ExportStep, TallyInit, TallyStep, PTL DEF Spec
<1>2. FiguresInv /\ ExportInv /\ TallyInv =>
        (Whole("export_complete") => artifacts["summary"] = Reference(returned))
  BY SummaryFigures DEF ExportInv, Says
<1> QED
  BY <1>1, <1>2, PTL
=============================================================================
