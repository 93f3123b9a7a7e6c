------------------------- MODULE SlamProcess_proofs -------------------------
(***************************************************************************)
(* The teardown of the node and the life of the process around it: which   *)
(* parts and exports each step finds, what its failures leave as evidence, *)
(* and what the exit code says of them, for every number of failures.      *)
(***************************************************************************)
EXTENDS SlamProcess, TLAPS

-----------------------------------------------------------------------------
(* The order of the steps *)

LEMMA StepOrder ==
  /\ Len(Steps) = 21
  /\ \A i \in 1..21 :
        /\ Steps[i] = "stop_admission" <=> i = 1
        /\ Steps[i] = "snapshot" <=> i = 5
        /\ Steps[i] = "work_report" <=> i = 6
        /\ Steps[i] = "imu_report" <=> i = 7
        /\ Steps[i] = "status_report" <=> i = 9
        /\ Steps[i] = "trace_write" <=> i = 10
        /\ Steps[i] = "evaluation_write" <=> i = 11
        /\ Steps[i] = "evaluation_inputs" <=> i = 12
        /\ Steps[i] = "evaluation_complete" <=> i = 13
        /\ Steps[i] = "release_stereo" <=> i = 14
        /\ Steps[i] = "release_imu" <=> i = 15
        /\ Steps[i] = "release_work" <=> i = 16
        /\ Steps[i] = "backend_shutdown" <=> i = 17
        /\ Steps[i] = "evaluation_backend_summary" <=> i = 18
        /\ Steps[i] = "backend_report" <=> i = 19
        /\ Steps[i] = "evaluation_final_trajectory" <=> i = 20
        /\ Steps[i] = "release_backend" <=> i = 21
BY DEF Steps

LEMMA AppliesMeans ==
  ASSUME NEW step
  PROVE  /\ step \in {"evaluation_write", "evaluation_inputs", "evaluation_backend_summary"} =>
               (Applies(step) <=> evaluation # "off")
         /\ step = "evaluation_complete" =>
               (Applies(step) <=> evaluation # "off" /\ evaluation_written /\ inputs_written)
         /\ step \in {"backend_report", "release_backend"} => (Applies(step) <=> backend_returned)
         /\ step = "evaluation_final_trajectory" =>
               (Applies(step) <=> backend_returned /\ evaluation = "on with final trajectory")
         /\ step \in {"backend_shutdown", "stop_admission"} => Applies(step)
BY DEF Applies

LEMMA ReleasesMeans ==
  ASSUME NEW step
  PROVE  /\ Releases(step) \subseteq Components
         /\ "work" \in Releases(step) => step = "release_work"
         /\ "stereo" \in Releases(step) => step = "release_stereo"
         /\ "imu" \in Releases(step) => step = "release_imu"
         /\ "backend" \in Releases(step) => step = "release_backend"
         /\ Releases("release_backend") = {"backend"}
         /\ ~Applies(step) => step = "release_backend" \/ Releases(step) = {}
<1>1. ~Applies(step) =>
        step \in {"evaluation_write", "evaluation_inputs", "evaluation_backend_summary",
                  "evaluation_complete", "backend_report", "release_backend",
                  "evaluation_final_trajectory"}
  BY DEF Applies
<1> QED
  BY <1>1 DEF Releases, Components

LEMMA UsesMeans ==
  ASSUME NEW step
  PROVE  /\ Uses(step) \subseteq Components
         /\ "work" \in Uses(step) =>
               step \in {"snapshot", "work_report", "evaluation_inputs", "release_work"}
         /\ "imu" \in Uses(step) => step \in {"imu_report", "evaluation_inputs"}
         /\ "stereo" \in Uses(step) => step = "evaluation_inputs"
         /\ "backend" \in Uses(step) =>
               step \in {"status_report", "backend_shutdown", "evaluation_final_trajectory"}
         /\ Uses(step) \subseteq {"work", "imu", "stereo", "backend"}
BY DEF Uses, Components

LEMMA ReasonsAreSome ==
  ASSUME NEW step
  PROVE  Reason(step) \in Reasons /\ None \notin Reasons
BY FinalizationAssumption DEF Reason, Reasons

-----------------------------------------------------------------------------
(* The teardown *)

TeardownTypeOK ==
    /\ position \in 0..22
    /\ held \subseteq Components
    /\ artifacts \in [ExportSteps -> {"absent", "partial", "complete"}]
    /\ evaluation_written \in BOOLEAN /\ inputs_written \in BOOLEAN
    /\ backend_returned \in BOOLEAN

\* Only a step that was reached has failed.
FailedEarlier ==
    \A step \in failed_steps : \E i \in 1..21 : i < position /\ Steps[i] = step

\* A part is there until its release, and gone after it unless that failed.
HeldUntilReleased ==
    /\ position <= 14 => "stereo" \in held
    /\ position <= 15 => "imu" \in held
    /\ position <= 16 => "work" \in held
    /\ position <= 21 => "backend" \in held
ReleasesDone ==
    \A i \in 1..21 :
        i < position /\ Steps[i] \notin failed_steps /\ Steps[i] # "release_backend" =>
            held \cap Releases(Steps[i]) = {}

\* The backend is released only after a shutdown that returned.
BackendReturned ==
    backend_returned <=> position > 17 /\ "backend_shutdown" \notin failed_steps
BackendReleased ==
    position > 21 =>
        ("backend" \in held <=> {"backend_shutdown", "release_backend"} \cap failed_steps # {})
ShutdownTracked ==
    position > 0 => /\ shutdown_state = "NotStarted" <=> position <= 17
                    /\ shutdown_state = "Returned" <=> backend_returned

\* An export that was written stays complete, and one that applies is written
\* unless its step failed.
ExportsKept ==
    /\ evaluation_written => position > 11 /\ artifacts["evaluation_write"] = "complete"
    /\ inputs_written => position > 12 /\ artifacts["evaluation_inputs"] = "complete"
    /\ artifacts["evaluation_complete"] # "absent" =>
          position > 13 /\ evaluation_written /\ inputs_written
    /\ artifacts["evaluation_final_trajectory"] = "complete" => backend_returned
    /\ \A step \in ExportSteps : artifacts[step] = "partial" => step \in failed_steps
ExportsMade ==
    evaluation # "off" =>
        /\ position > 11 /\ "evaluation_write" \notin failed_steps => evaluation_written
        /\ position > 12 /\ "evaluation_inputs" \notin failed_steps => inputs_written
        /\ position > 13 /\ evaluation_written /\ inputs_written
              /\ "evaluation_complete" \notin failed_steps =>
                 artifacts["evaluation_complete"] = "complete"

TInv ==
    /\ TeardownTypeOK
    /\ FailedEarlier
    /\ HeldUntilReleased
    /\ ReleasesDone
    /\ BackendReturned
    /\ ShutdownTracked
    /\ ExportsKept
    /\ ExportsMade

(* What a running teardown knows of the step it has come to.                *)
LEMMA StepNow ==
  ASSUME TInv, Running
  PROVE  /\ position \in 1..21 /\ Step = Steps[position] /\ Step \notin failed_steps
         /\ Step = "stop_admission" <=> position = 1
         /\ Step = "snapshot" <=> position = 5
         /\ Step = "work_report" <=> position = 6
         /\ Step = "imu_report" <=> position = 7
         /\ Step = "status_report" <=> position = 9
         /\ Step = "evaluation_write" <=> position = 11
         /\ Step = "evaluation_inputs" <=> position = 12
         /\ Step = "evaluation_complete" <=> position = 13
         /\ Step = "release_stereo" <=> position = 14
         /\ Step = "release_imu" <=> position = 15
         /\ Step = "release_work" <=> position = 16
         /\ Step = "backend_shutdown" <=> position = 17
         /\ Step = "evaluation_final_trajectory" <=> position = 20
         /\ Step = "release_backend" <=> position = 21
<1>1. position \in 1..21 /\ Step = Steps[position]
  BY StepOrder DEF TInv, TeardownTypeOK, Running, Done, Step
<1>2. Step \notin failed_steps
  <2> SUFFICES ASSUME NEW i \in 1..21, i < position PROVE Steps[i] # Steps[position]
    BY <1>1 DEF TInv, FailedEarlier
  <2> QED
    BY <1>1 DEF Steps
<1> QED
  BY <1>1, <1>2, StepOrder

(* What the outcomes of a step do to the figures of the teardown.           *)
LEMMA SkipMeans ==
  ASSUME TInv, skip
  PROVE  /\ position' = position + 1 /\ ~Applies(Step)
         /\ UNCHANGED <<gate, adapter, evaluation, held, artifacts, failed_steps>>
         /\ evaluation_written' <=> evaluation_written
         /\ inputs_written' <=> inputs_written
         /\ backend_returned' <=> backend_returned
BY DEF skip, Advance, results

LEMMA SucceedMeans ==
  ASSUME TInv, succeed
  PROVE  /\ position' = position + 1 /\ Applies(Step)
         /\ held' = held \ Releases(Step)
         /\ \A step \in ExportSteps :
               artifacts'[step] = IF step = Step THEN "complete" ELSE artifacts[step]
         /\ evaluation_written' <=> evaluation_written \/ Step = "evaluation_write"
         /\ inputs_written' <=> inputs_written \/ Step = "evaluation_inputs"
         /\ backend_returned' <=> backend_returned \/ Step = "backend_shutdown"
         /\ UNCHANGED <<evaluation, failed_steps>>
<1>1. evaluation_written \in BOOLEAN /\ inputs_written \in BOOLEAN /\ backend_returned \in BOOLEAN
  BY DEF TInv, TeardownTypeOK
<1>2. /\ evaluation_written' <=> evaluation_written \/ Step = "evaluation_write"
      /\ inputs_written' <=> inputs_written \/ Step = "evaluation_inputs"
      /\ backend_returned' <=> backend_returned \/ Step = "backend_shutdown"
  BY <1>1, Zenon DEF succeed
<1>3. \A step \in ExportSteps :
         artifacts'[step] = IF step = Step THEN "complete" ELSE artifacts[step]
  BY DEF succeed
<1> QED
  BY <1>2, <1>3 DEF succeed, Advance

LEMMA FailMeans ==
  ASSUME TInv, fail
  PROVE  /\ position' = position + 1 /\ Applies(Step)
         /\ failed_steps' = failed_steps \cup {Step}
         /\ \E left \in {"absent", "partial"} : \A step \in ExportSteps :
               artifacts'[step] = IF step = Step /\ step \notin Renamed
                                  THEN left ELSE artifacts[step]
         /\ evaluation_written' <=> evaluation_written
         /\ inputs_written' <=> inputs_written
         /\ backend_returned' <=> backend_returned
         /\ UNCHANGED <<evaluation, held>>
<1>1. \E left \in {"absent", "partial"} : \A step \in ExportSteps :
         artifacts'[step] = IF step = Step /\ step \notin Renamed THEN left ELSE artifacts[step]
  BY DEF fail
<1> QED
  BY <1>1 DEF fail, AfterFailure, Advance, results

(* The type and the history of the failures.                                *)
LEMMA TypesStep ==
  ASSUME TInv, Next
  PROVE  TeardownTypeOK' /\ FailedEarlier'
<1>1. CASE begin
  BY <1>1 DEF begin, TInv, TeardownTypeOK, FailedEarlier, results
<1>2. CASE skip
  BY <1>2, StepNow DEF skip, Advance, TInv, TeardownTypeOK, FailedEarlier, results
<1>3. CASE succeed
  BY <1>3, StepNow DEF succeed, Advance, TInv, TeardownTypeOK, FailedEarlier
<1>4. CASE fail
  BY <1>4, StepNow DEF fail, AfterFailure, Advance, TInv, TeardownTypeOK, FailedEarlier, results
<1> QED
  BY <1>1, <1>2, <1>3, <1>4 DEF Next

LEMMA HeldStep ==
  ASSUME TInv, Next
  PROVE  HeldUntilReleased' /\ ReleasesDone'
<1>1. CASE begin
  BY <1>1 DEF begin, TInv, TeardownTypeOK, HeldUntilReleased, ReleasesDone
<1>2. CASE skip
  BY <1>2, StepNow, ReleasesMeans
     DEF skip, Advance, TInv, TeardownTypeOK, HeldUntilReleased, ReleasesDone
<1>3. CASE succeed
  BY <1>3, StepNow, ReleasesMeans
     DEF succeed, Advance, TInv, TeardownTypeOK, HeldUntilReleased, ReleasesDone
<1>4. CASE fail
  BY <1>4, StepNow
     DEF fail, AfterFailure, Advance, TInv, TeardownTypeOK, HeldUntilReleased, ReleasesDone
<1> QED
  BY <1>1, <1>2, <1>3, <1>4 DEF Next

LEMMA BackendStep ==
  ASSUME TInv, Next, position = 0 => shutdown_state = "NotStarted"
  PROVE  BackendReturned' /\ ShutdownTracked'
<1>1. CASE begin
  BY <1>1 DEF begin, TInv, BackendReturned, ShutdownTracked, adapter, results
<1>2. CASE skip
  <2>1. position \in 1..21 /\ position # 17
    BY <1>2, SkipMeans, StepNow, AppliesMeans DEF skip
  <2> QED
    BY <1>2, <2>1, SkipMeans DEF TInv, BackendReturned, ShutdownTracked, adapter
<1>3. CASE succeed
  <2>1. /\ position \in 1..21 /\ (Step = "backend_shutdown" <=> position = 17)
        /\ position = 17 => "backend_shutdown" \notin failed_steps
    BY <1>3, StepNow DEF succeed
  <2>2. IF position = 17 THEN shutdown_state' = "Returned" ELSE UNCHANGED shutdown_state
    BY <1>3, <2>1 DEF succeed, adapter, Adapter!shutdown_returns
  <2> QED
    BY <1>3, <2>1, <2>2, SucceedMeans DEF TInv, BackendReturned, ShutdownTracked
<1>4. CASE fail
  <2>1. /\ position \in 1..21 /\ (Step = "backend_shutdown" <=> position = 17)
        /\ position = 17 => "backend_shutdown" \notin failed_steps
    BY <1>4, StepNow DEF fail
  <2>2. IF position = 17 THEN shutdown_state' = "Attempted" ELSE UNCHANGED shutdown_state
    BY <1>4, <2>1 DEF fail, adapter, Adapter!shutdown_throws
  <2> QED
    BY <1>4, <2>1, <2>2, FailMeans DEF TInv, BackendReturned, ShutdownTracked
<1> QED
  BY <1>1, <1>2, <1>3, <1>4 DEF Next

LEMMA ReleasedStep ==
  ASSUME TInv, BackendReleased, Next
  PROVE  BackendReleased'
<1> USE DEF TInv, BackendReleased, BackendReturned, HeldUntilReleased
<1>0. Applies("release_backend") <=> backend_returned
  BY AppliesMeans
<1>1. CASE begin
  BY <1>1 DEF begin
<1>2. CASE skip
  <2>1. position \in 1..21 /\ (position = 21 => Step = "release_backend")
    BY <1>2, StepNow DEF skip
  <2> QED
    BY <1>0, <1>2, <2>1, SkipMeans
<1>3. CASE succeed
  <2>1. /\ position \in 1..21 /\ (position = 21 => Step = "release_backend")
        /\ Step \notin failed_steps
    BY <1>3, StepNow DEF succeed
  <2>2. "backend" \in Releases(Step) <=> Step = "release_backend"
    BY ReleasesMeans
  <2> QED
    BY <1>0, <1>3, <2>1, <2>2, SucceedMeans
<1>4. CASE fail
  <2>1. position \in 1..21 /\ (position = 21 => Step = "release_backend")
    BY <1>4, StepNow DEF fail
  <2> QED
    BY <1>4, <2>1, FailMeans
<1> QED
  BY <1>1, <1>2, <1>3, <1>4 DEF Next

LEMMA ExportsStep ==
  ASSUME TInv, Next
  PROVE  ExportsKept' /\ ExportsMade'
<1>1. /\ artifacts \in [ExportSteps -> {"absent", "partial", "complete"}]
      /\ {"evaluation_write", "evaluation_inputs", "evaluation_complete",
          "evaluation_final_trajectory"} \subseteq ExportSteps
  BY DEF TInv, TeardownTypeOK, ExportSteps
<1>2. Running => /\ position \in 1..21 /\ Step \notin failed_steps
                 /\ Step = "evaluation_write" <=> position = 11
                 /\ Step = "evaluation_inputs" <=> position = 12
                 /\ Step = "evaluation_complete" <=> position = 13
                 /\ Step = "backend_shutdown" <=> position = 17
                 /\ Step = "evaluation_final_trajectory" <=> position = 20
  BY StepNow
<1>3. /\ Applies("evaluation_write") <=> evaluation # "off"
      /\ Applies("evaluation_inputs") <=> evaluation # "off"
      /\ Applies("evaluation_complete") <=>
            evaluation # "off" /\ evaluation_written /\ inputs_written
      /\ Applies("evaluation_final_trajectory") => backend_returned
  BY AppliesMeans
<1> USE DEF TInv, ExportsKept, ExportsMade
<1>4. CASE begin
  BY <1>4 DEF begin, results
<1>5. CASE skip
  BY <1>2, <1>3, <1>5, SkipMeans DEF skip
<1>6. CASE succeed
  <2>1. Running
    BY <1>6 DEF succeed
  <2>2. ExportsKept'
    BY <1>1, <1>2, <1>3, <1>6, <2>1, SucceedMeans
  <2>3. ExportsMade'
    BY <1>1, <1>2, <1>3, <1>6, <2>1, SucceedMeans
  <2> QED
    BY <2>2, <2>3
<1>7. CASE fail
  BY <1>1, <1>2, <1>3, <1>7, FailMeans DEF fail, Renamed
<1> QED
  BY <1>4, <1>5, <1>6, <1>7 DEF Next

LEMMA TInvStep ==
  ASSUME TInv, Next, position = 0 => shutdown_state = "NotStarted"
  PROVE  TInv'
BY TypesStep, HeldStep, BackendStep, ExportsStep DEF TInv

LEMMA TInvInit ==
  ASSUME TeardownInit
  PROVE  TInv /\ BackendReleased
<1>1. /\ evaluation_written \in BOOLEAN /\ inputs_written \in BOOLEAN
      /\ backend_returned \in BOOLEAN
      /\ ~evaluation_written /\ ~inputs_written /\ ~backend_returned
  BY Zenon DEF TeardownInit
<1>2. /\ position = 0 /\ held = Components /\ failed_steps = {}
      /\ artifacts \in [ExportSteps -> {"absent", "partial", "complete"}]
      /\ \A step \in ExportSteps : artifacts[step] = "absent"
  BY DEF TeardownInit
<1>3. TeardownTypeOK
  BY <1>1, <1>2 DEF TeardownTypeOK
<1>4. FailedEarlier /\ ReleasesDone
  BY <1>2 DEF FailedEarlier, ReleasesDone
<1>5. HeldUntilReleased
  BY <1>2 DEF HeldUntilReleased, Components
<1>6. BackendReturned /\ ShutdownTracked /\ BackendReleased
  BY <1>1, <1>2 DEF BackendReturned, ShutdownTracked, BackendReleased
<1>7. ExportsKept /\ ExportsMade
  BY <1>1, <1>2 DEF ExportsKept, ExportsMade, ExportSteps
<1> QED
  BY <1>3, <1>4, <1>5, <1>6, <1>7 DEF TInv

-----------------------------------------------------------------------------
(* Finalization on its own *)

\* No failure is lost: the stop gate's cleanup evidence follows the steps.
CleanupEvidence ==
    /\ cleanup_failed \in BOOLEAN
    /\ cleanup_failed <=> failed_steps # {}

FInv ==
    /\ TInv
    /\ BackendReleased
    /\ position = 0 => shutdown_state = "NotStarted"
    /\ position > 1 => stop_requested
    /\ CleanupEvidence

LEMMA FInvInit == Init => FInv
<1> SUFFICES ASSUME Init PROVE FInv
  OBVIOUS
<1>1. TInv /\ BackendReleased
  BY TInvInit DEF Init
<1>2. cleanup_failed \in BOOLEAN /\ ~cleanup_failed /\ shutdown_state = "NotStarted"
  BY Zenon DEF Init, GateInit, Stop!Init, Adapter!Init
<1>3. position = 0 /\ failed_steps = {}
  BY DEF Init, TeardownInit
<1> QED
  BY <1>1, <1>2, <1>3 DEF FInv, CleanupEvidence

LEMMA FInvStep == FInv /\ [Next]_vars => FInv'
<1> SUFFICES ASSUME FInv, [Next]_vars PROVE FInv'
  OBVIOUS
<1>1. CASE UNCHANGED vars
  BY <1>1 DEF vars, gate, adapter, results, FInv, BackendReleased, CleanupEvidence,
              TInv, TeardownTypeOK, FailedEarlier, HeldUntilReleased, ReleasesDone,
              BackendReturned, ShutdownTracked, ExportsKept, ExportsMade
<1>2. CASE Next
  <2>1. TInv' /\ BackendReleased'
    BY <1>2, TInvStep, ReleasedStep DEF FInv
  <2>2. position' # 0
    <3>1. CASE begin
      BY <3>1 DEF begin
    <3>2. CASE skip \/ succeed \/ fail
      <4>1. Running /\ position' = position + 1
        BY <3>2 DEF skip, succeed, fail, AfterFailure, Advance
      <4>2. position \in 1..21
        BY <4>1, StepNow DEF FInv
      <4> QED
        BY <4>1, <4>2
    <3> QED
      BY <1>2, <3>1, <3>2 DEF Next
  <2>3. position' > 1 => stop_requested'
    <3>1. CASE begin
      BY <3>1 DEF begin
    <3>2. CASE skip
      <4>1. position \in 1..21 /\ position # 1
        BY <3>2, StepNow, AppliesMeans DEF skip, FInv
      <4> QED
        BY <3>2, <4>1 DEF skip, FInv, gate
    <3>3. CASE succeed
      BY <3>3, StepNow DEF succeed, FInv, gate, Advance, Stop!request_stop
    <3>4. CASE fail
      BY <3>4 DEF fail, RecordStepFailure, Stop!record_failure
    <3> QED
      BY <1>2, <3>1, <3>2, <3>3, <3>4 DEF Next
  <2>4. CleanupEvidence'
    <3>1. CASE begin \/ skip
      BY <3>1 DEF begin, skip, FInv, CleanupEvidence, gate
    <3>2. CASE succeed
      <4>1. UNCHANGED <<cleanup_failed, failed_steps>>
        BY <3>2 DEF succeed, gate, Stop!request_stop
      <4> QED
        BY <4>1 DEF FInv, CleanupEvidence
    <3>3. CASE fail
      <4>1. cleanup_failed' = (cleanup_failed \/ TRUE) /\ failed_steps' # {}
        BY <3>3 DEF fail, RecordStepFailure, Stop!record_failure
      <4> QED
        BY <4>1 DEF CleanupEvidence
    <3> QED
      BY <1>2, <3>1, <3>2, <3>3 DEF Next
  <2> QED
    BY <2>1, <2>2, <2>3, <2>4 DEF FInv
<1> QED
  BY <1>1, <1>2

LEMMA FInvHolds == Spec => []FInv
BY FInvInit, FInvStep, PTL DEF Spec

(* What a step reads has not been released, and the backend is neither shut *)
(* down twice nor read before it has joined, whatever failed before.        *)
LEMMA PreconditionsKept ==
  ASSUME TInv, position = 0 => shutdown_state = "NotStarted"
  PROVE  StepPreconditions
<1> SUFFICES ASSUME Running, Applies(Step)
             PROVE  /\ Uses(Step) \subseteq held
                    /\ Step = "backend_shutdown" => shutdown_state = "NotStarted"
                    /\ Step = "evaluation_final_trajectory" => Adapter!MayExportTrajectories
  BY DEF StepPreconditions
<1>1. position \in 1..21
  BY StepNow
<1>2. Step = "backend_shutdown" => shutdown_state = "NotStarted"
  BY <1>1, StepNow DEF TInv, ShutdownTracked
<1>3. Step = "evaluation_final_trajectory" => Adapter!MayExportTrajectories
  <2>1. Applies("evaluation_final_trajectory") => backend_returned
    BY AppliesMeans
  <2>2. backend_returned => shutdown_state = "Returned"
    BY <1>1 DEF TInv, ShutdownTracked
  <2> QED
    BY <2>1, <2>2 DEF Adapter!MayExportTrajectories
<1>4. "work" \in Uses(Step) => "work" \in held
  BY <1>1, StepNow, UsesMeans DEF TInv, HeldUntilReleased
<1>5. "imu" \in Uses(Step) => "imu" \in held
  BY <1>1, StepNow, UsesMeans DEF TInv, HeldUntilReleased
<1>6. "stereo" \in Uses(Step) => "stereo" \in held
  BY <1>1, StepNow, UsesMeans DEF TInv, HeldUntilReleased
<1>7. "backend" \in Uses(Step) => "backend" \in held
  BY <1>1 DEF TInv, HeldUntilReleased
<1> QED
  BY <1>2, <1>3, <1>4, <1>5, <1>6, <1>7, UsesMeans

(* No step of SlamNode::shutdown finds what it reads already released, and  *)
(* the adapter is never asked for what its lifecycle forbids, for every     *)
(* combination of failing steps.                                            *)
THEOREM StepsFindWhatTheyNeed == Spec => []StepPreconditions
<1>1. FInv => StepPreconditions
  BY PreconditionsKept DEF FInv
<1> QED
  BY <1>1, FInvHolds, PTL

(* The completion marker of an evaluation is never on disk, not even half   *)
(* written, without the two complete exports it certifies, and trajectories *)
(* are published only from a backend that has joined.                       *)
THEOREM MarkerIsTruthful == Spec => []MarkerCertifiesExports
<1>1. FInv => MarkerCertifiesExports
  <2> SUFFICES ASSUME FInv PROVE MarkerCertifiesExports
    OBVIOUS
  <2>1. backend_returned => shutdown_state = "Returned"
    BY DEF FInv, TInv, TeardownTypeOK, BackendReturned, ShutdownTracked
  <2> QED
    BY <2>1 DEF FInv, TInv, ExportsKept, MarkerCertifiesExports
<1> QED
  BY <1>1, FInvHolds, PTL

(* The stop gate has cleanup evidence exactly when a step of the teardown   *)
(* has failed, and a half-written export belongs to such a step.            *)
THEOREM EvidenceMatchesFailures == Spec => []FailuresAreEvidence
<1>1. FInv => FailuresAreEvidence
  BY DEF FInv, TInv, ExportsKept, CleanupEvidence, FailuresAreEvidence
<1> QED
  BY <1>1, FInvHolds, PTL

(* However many steps fail, each costs only itself: at the end the gate is  *)
(* closed, everything else is released, only a failed backend shutdown (or  *)
(* release) keeps the backend, and an evaluation none of whose exports      *)
(* failed is complete.                                                      *)
THEOREM FailuresStayLocal == Spec => []OneFailureIsOneFailure
<1>1. FInv => OneFailureIsOneFailure
  <2> SUFFICES ASSUME FInv, Done PROVE OneFailureIsOneFailure
    BY DEF OneFailureIsOneFailure
  <2>1. position = 22 /\ Len(Steps) = 21
    BY StepOrder DEF Done, FInv, TInv, TeardownTypeOK
  <2>2. stop_requested
    BY <2>1 DEF FInv
  <2>3. \A i \in DOMAIN Steps : Steps[i] \notin failed_steps /\ Steps[i] # "release_backend" =>
           held \cap Releases(Steps[i]) = {}
    <3>1. DOMAIN Steps = 1..21
      BY DEF Steps
    <3> QED
      BY <2>1, <3>1 DEF FInv, TInv, ReleasesDone
  <2>4. "backend" \in held <=> {"backend_shutdown", "release_backend"} \cap failed_steps # {}
    BY <2>1 DEF FInv, BackendReleased
  <2>5. evaluation # "off" /\ failed_steps \cap ExportSteps = {} =>
           artifacts["evaluation_complete"] = "complete"
    BY <2>1 DEF FInv, TInv, ExportsMade, ExportSteps
  <2> QED
    BY <2>2, <2>3, <2>4, <2>5 DEF OneFailureIsOneFailure
<1> QED
  BY <1>1, FInvHolds, PTL

-----------------------------------------------------------------------------
(* The process: its callbacks *)

Places == {"idle", "running", "notify", "cancel", "fail", "fallback", "report"}

Quiescent == at \in [Notifiers -> Places] /\ QuiescentTeardown

(* A notifier that does something was not idle; main does not move with it. *)
LEMMA NotifierMoves ==
  ASSUME NEW n \in Notifiers, NotifierStep(n)
  PROVE  /\ at[n] # "idle" /\ pc' = pc
         /\ \E place \in Places : at' = [at EXCEPT ![n] = place]
<1> USE DEF MoveTo, Unchanged, Places
<1>1. CASE run(n)
  <2>1. CASE n = "stop_timer" /\ stop_timer_runs
    BY <1>1, <2>1 DEF run, stop_timer_runs
  <2>2. CASE n = "viewer" /\ viewer_runs
    BY <1>1, <2>2 DEF run, viewer_runs
  <2>3. CASE n \in {"reception", "tracking"} /\ callback_runs(n)
    BY <1>1, <2>3 DEF run, callback_runs
  <2> QED
    BY <1>1, <2>1, <2>2, <2>3 DEF run
<1>2. CASE cancel(n)
  <2>1. After(n) \in Places
    BY DEF After
  <2> QED
    BY <1>2, <2>1 DEF cancel
<1>3. CASE fallback(n)
  BY <1>3 DEF fallback
<1>4. CASE report(n)
  BY <1>4 DEF report
<1> QED
  BY <1>1, <1>2, <1>3, <1>4 DEF NotifierStep

\* Joining the Viewer touches no callback group.
LEMMA JoinTouchesNoGroup ==
  ASSUME at \in [Notifiers -> Places], ViewerJoins \/ UNCHANGED at
  PROVE  at' \in [Notifiers -> Places] /\ \A g \in Groups : at'[g] = at[g]
BY DEF ViewerJoins, Notifiers, Groups, Places

LEMMA QuiescentStep ==
  ASSUME Quiescent, [ProcessNext]_all_vars
  PROVE  Quiescent'
<1> USE DEF Quiescent, QuiescentTeardown
<1>1. CASE UNCHANGED all_vars
  BY <1>1 DEF all_vars, life
<1>2. CASE rclcpp_init \/ register \/ registered \/ check \/ enter_spin \/ cancel_stop_timer
  BY <1>2 DEF rclcpp_init, register, registered, check, enter_spin, cancel_stop_timer, To, Caught
<1>3. CASE construct
  <2>1. \/ at' = at
        \/ at' = [at EXCEPT !["viewer"] = "running"]
    BY <1>3 DEF construct
  <2>2. at' \in [Notifiers -> Places] /\ \A g \in Groups : at'[g] = at[g]
    BY <2>1 DEF Notifiers, Groups, Places
  <2> QED
    BY <1>3, <2>2 DEF construct
<1>4. CASE wire
  <2>1. ViewerJoins \/ UNCHANGED at
    BY <1>4 DEF wire
  <2> QED
    BY <1>4, <2>1, JoinTouchesNoGroup DEF wire
<1>5. CASE spin_returns
  BY <1>5 DEF spin_returns, To
<1>6. CASE start_finalization \/ detach_context \/ release_executor \/ shutdown_context
             \/ finish_logging \/ write_evidence
  BY <1>6 DEF start_finalization, detach_context, release_executor, shutdown_context,
              finish_logging, write_evidence
<1>7. CASE finalize_node \/ release_node
  <2>1. ViewerJoins \/ UNCHANGED at
    BY <1>7 DEF finalize_node, release_node
  <2>2. pc \notin {"spin", "terminated", "crashed"}
    BY <1>7 DEF finalize_node, release_node
  <2> QED
    BY <2>1, <2>2, JoinTouchesNoGroup
<1>8. CASE spin_throws
  BY <1>8 DEF spin_throws, To
<1>9. ASSUME NEW n \in Notifiers, NotifierStep(n)
      PROVE  Quiescent'
  <2>1. PICK place \in Places : at' = [at EXCEPT ![n] = place]
    BY <1>9, NotifierMoves
  <2>2. at[n] # "idle" /\ pc' = pc
    BY <1>9, NotifierMoves
  <2> QED
    BY <2>1, <2>2 DEF Notifiers, Groups
<1>10. ASSUME NEW g \in Groups, dispatch(g)
       PROVE  Quiescent'
  BY <1>10 DEF dispatch, MoveTo, Unchanged, Notifiers, Groups, Places
<1>11. CASE notify \/ signal
  BY <1>11 DEF notify, signal, Unchanged
<1>12. CASE cancel_released
  BY <1>12 DEF cancel_released
<1> QED
  BY <1>1, <1>2, <1>3, <1>4, <1>5, <1>6, <1>7, <1>8, <1>9, <1>10, <1>11, <1>12
     DEF ProcessNext, MainStep

(* From the moment spin has returned no executor callback is running: every *)
(* cleanup of the process works on parts nobody else touches, whoever       *)
(* stopped it, and wherever startup failed.                                 *)
THEOREM TeardownIsQuiescent == ProcessSpec => []QuiescentTeardown
<1>1. ProcessInit => Quiescent
  <2>1. ProcessInit => at \in [Notifiers -> Places] /\ \A g \in Groups : at[g] = "idle"
    BY DEF ProcessInit, Notifiers, Groups, Places
  <2> QED
    BY <2>1 DEF Quiescent, QuiescentTeardown
<1>2. Quiescent => QuiescentTeardown
  BY DEF Quiescent
<1> QED
  BY <1>1, <1>2, QuiescentStep, PTL DEF ProcessSpec

-----------------------------------------------------------------------------
(* The process: one teardown, one shutdown of the backend *)

Starting == {"init", "register", "registered", "construct", "wire"}
Built == {"check", "enter", "spin", "joined"}
CleaningUp == {"detach", "executor", "node"}
Ending == {"context", "logging", "report", "exited"}

\* Where main is, the teardown is.
Lifecycle ==
    /\ pc \in Starting => ~node
    /\ pc \in Starting \cup Built \cup {"finalize"} => position = 0
    /\ pc \in Starting \cup Built \/ (node /\ position = 0) => shutdown_state = "NotStarted"
    /\ pc = "shutdown" => node
    /\ pc \in CleaningUp => position = IF node THEN 22 ELSE 0
    /\ pc \in Ending => position \in {0, 22}

\* Every upstream shutdown is recorded in the adapter's state.
ShutdownsCounted == upstream_shutdowns = IF shutdown_state = "NotStarted" THEN 0 ELSE 1

LifeInv == TInv /\ Lifecycle /\ ShutdownsCounted

LEMMA TeardownUnchanged ==
  ASSUME TInv, UNCHANGED <<shutdown_state, finalization>>
  PROVE  TInv'
BY DEF finalization, results, TInv, TeardownTypeOK, FailedEarlier, HeldUntilReleased,
       ReleasesDone, BackendReturned, ShutdownTracked, ExportsKept, ExportsMade

LEMMA DestroyMeans ==
  ASSUME Adapter!destroy
  PROVE  IF shutdown_state = "NotStarted"
         THEN /\ shutdown_state' \in {"Attempted", "Returned"}
              /\ upstream_shutdowns' = upstream_shutdowns + 1
         ELSE UNCHANGED adapter
BY DEF Adapter!destroy, Adapter!shutdown_returns, Adapter!shutdown_throws, Adapter!lifecycle,
       adapter

(* The steps of main and of the stop sources that leave the teardown alone. *)
LEMMA OthersKeepLife ==
  ASSUME LifeInv, UNCHANGED <<adapter, finalization>>, Lifecycle'
  PROVE  LifeInv'
BY TeardownUnchanged DEF LifeInv, adapter, finalization, ShutdownsCounted

LEMMA LifeStep ==
  ASSUME LifeInv, [ProcessNext]_all_vars
  PROVE  LifeInv'
<1> USE DEF Starting, Built, CleaningUp, Ending
<1>1. CASE UNCHANGED all_vars
  BY <1>1, OthersKeepLife
     DEF all_vars, vars, life, finalization, results, adapter, LifeInv, Lifecycle
<1>2. CASE rclcpp_init \/ register \/ registered \/ construct \/ check \/ enter_spin
             \/ spin_returns \/ spin_throws \/ cancel_stop_timer
  <2>1. UNCHANGED <<adapter, finalization, node>>
    BY <1>2 DEF rclcpp_init, register, registered, construct, check, enter_spin, spin_returns,
                spin_throws, cancel_stop_timer, vars, finalization
  <2>2. Lifecycle'
    BY <1>2, <2>1
       DEF LifeInv, Lifecycle, adapter, finalization, To, Caught, rclcpp_init, register, registered,
           construct, check, enter_spin, spin_returns, spin_throws, cancel_stop_timer
  <2> QED
    BY <2>1, <2>2, OthersKeepLife
<1>3. CASE wire
  <2>1. UNCHANGED finalization /\ position = 0 /\ shutdown_state = "NotStarted" /\ ~node
    BY <1>3 DEF wire, LifeInv, Lifecycle
  <2>2. CASE To("check") /\ node' = TRUE /\ UNCHANGED <<adapter, at>>
    <3>1. Lifecycle'
      BY <2>1, <2>2 DEF Lifecycle, To, adapter, finalization
    <3> QED
      BY <2>1, <2>2, <3>1, OthersKeepLife
  <2>3. CASE Caught /\ Adapter!destroy /\ ViewerJoins /\ UNCHANGED node
    <3>1. Lifecycle' /\ ShutdownsCounted'
      BY <2>1, <2>3, DestroyMeans DEF LifeInv, Lifecycle, ShutdownsCounted, Caught, finalization
    <3>2. TInv'
      BY <2>1 DEF finalization, results, LifeInv, TInv, TeardownTypeOK, FailedEarlier,
                  HeldUntilReleased, ReleasesDone, BackendReturned, ShutdownTracked,
                  ExportsKept, ExportsMade
    <3> QED
      BY <3>1, <3>2 DEF LifeInv
  <2> QED
    BY <1>3, <2>2, <2>3 DEF wire
<1>4. CASE start_finalization \/ detach_context \/ release_executor \/ shutdown_context
             \/ finish_logging \/ write_evidence
  <2>1. UNCHANGED <<adapter, finalization, node>>
    BY <1>4 DEF start_finalization, detach_context, release_executor, shutdown_context,
                finish_logging, write_evidence, vars, finalization
  <2>2. Lifecycle'
    BY <1>4, <2>1
       DEF LifeInv, Lifecycle, adapter, finalization, To, start_finalization, detach_context,
           release_executor, shutdown_context, finish_logging, write_evidence
  <2> QED
    BY <2>1, <2>2, OthersKeepLife
<1>5. CASE finalize_node
  <2>1. pc = "shutdown" /\ node /\ (position = 0 => shutdown_state = "NotStarted")
    BY <1>5 DEF finalize_node, LifeInv, Lifecycle
  <2>2. CASE Next /\ To("shutdown")
    <3>1. TInv'
      BY <2>1, <2>2, TInvStep DEF LifeInv
    <3>2. position' # 0 /\ node' = node /\ pc' = "shutdown"
      <4>1. CASE begin
        BY <1>5, <2>2, <4>1 DEF begin, finalize_node, To
      <4>2. CASE skip \/ succeed \/ fail
        <5>1. Running /\ position' = position + 1
          BY <4>2 DEF skip, succeed, fail, AfterFailure, Advance
        <5>2. position \in 1..21
          BY <5>1, StepNow DEF LifeInv
        <5> QED
          BY <1>5, <2>2, <5>1, <5>2 DEF finalize_node, To
      <4> QED
        BY <2>2, <4>1, <4>2 DEF Next
    <3>3. ShutdownsCounted'
      <4>1. CASE begin \/ skip
        BY <4>1 DEF begin, skip, adapter, LifeInv, ShutdownsCounted
      <4>2. CASE succeed
        <5>1. CASE Step = "backend_shutdown"
          <6>1. /\ shutdown_state = "NotStarted" /\ shutdown_state' = "Returned"
                /\ upstream_shutdowns' = upstream_shutdowns + 1
            BY <4>2, <5>1 DEF succeed, Adapter!shutdown_returns
          <6> QED
            BY <6>1 DEF LifeInv, ShutdownsCounted
        <5>2. CASE Step # "backend_shutdown"
          <6>1. UNCHANGED adapter
            BY <4>2, <5>2 DEF succeed
          <6> QED
            BY <6>1 DEF adapter, LifeInv, ShutdownsCounted
        <5> QED
          BY <5>1, <5>2
      <4>3. CASE fail
        BY <4>3 DEF fail, adapter, LifeInv, ShutdownsCounted, Adapter!shutdown_throws
      <4> QED
        BY <2>2, <4>1, <4>2, <4>3 DEF Next
    <3>4. Lifecycle'
      BY <2>1, <3>2 DEF Lifecycle
    <3> QED
      BY <3>1, <3>3, <3>4 DEF LifeInv
  <2>3. CASE Done /\ To("detach") /\ UNCHANGED <<vars, at>>
    <3>1. UNCHANGED <<adapter, finalization, node>> /\ pc' = "detach"
      BY <1>5, <2>3 DEF finalize_node, vars, finalization, To
    <3>2. position = 22
      BY <2>3, StepOrder DEF Done, LifeInv, TInv, TeardownTypeOK
    <3>3. Lifecycle'
      BY <2>1, <3>1, <3>2 DEF Lifecycle, finalization
    <3> QED
      BY <3>1, <3>3, OthersKeepLife
  <2> QED
    BY <1>5, <2>2, <2>3 DEF finalize_node
<1>6. CASE release_node
  <2>1. /\ pc = "node" /\ pc' = "context" /\ ~node'
        /\ position = IF node THEN 22 ELSE 0
        /\ UNCHANGED <<evaluation, position, artifacts, results, failed_steps>>
    BY <1>6 DEF release_node, To, LifeInv, Lifecycle
  <2>2. UNCHANGED adapter
    <3>1. node => shutdown_state # "NotStarted"
      BY <2>1 DEF LifeInv, TInv, ShutdownTracked
    <3> QED
      BY <1>6, <3>1, DestroyMeans DEF release_node
  <2>3. Lifecycle'
    BY <2>1 DEF Lifecycle
  <2>4. CASE ~node
    BY <1>6, <2>1, <2>2, <2>3, <2>4, OthersKeepLife DEF release_node, finalization
  <2>5. CASE node
    <3>1. held' = {} /\ position = 22
      BY <1>6, <2>1, <2>5 DEF release_node
    <3>2. TInv'
      BY <2>1, <2>2, <3>1
         DEF results, adapter, LifeInv, TInv, TeardownTypeOK, FailedEarlier, HeldUntilReleased,
             ReleasesDone, BackendReturned, ShutdownTracked, ExportsKept, ExportsMade
    <3>3. ShutdownsCounted'
      BY <2>2 DEF LifeInv, ShutdownsCounted, adapter
    <3> QED
      BY <2>3, <3>2, <3>3 DEF LifeInv
  <2> QED
    BY <2>4, <2>5
<1>7. ASSUME Unchanged
      PROVE  LifeInv'
  <2>1. UNCHANGED <<adapter, finalization, node>> /\ pc' = pc
    BY <1>7 DEF Unchanged
  <2>2. Lifecycle'
    BY <2>1 DEF LifeInv, Lifecycle, adapter, finalization
  <2> QED
    BY <2>1, <2>2, OthersKeepLife
<1>8. ASSUME NEW n \in Notifiers, NotifierStep(n)
      PROVE  LifeInv'
  BY <1>7, <1>8 DEF NotifierStep, run, cancel, fallback, report
<1>9. ASSUME NEW g \in Groups, dispatch(g)
      PROVE  LifeInv'
  BY <1>7, <1>9 DEF dispatch
<1>10. CASE notify \/ signal
  BY <1>7, <1>10 DEF notify, signal
<1>11. CASE cancel_released
  <2>1. UNCHANGED <<adapter, finalization, node>> /\ pc' = "crashed"
    BY <1>11 DEF cancel_released, vars, finalization
  <2>2. Lifecycle'
    BY <2>1 DEF LifeInv, Lifecycle, adapter, finalization
  <2> QED
    BY <2>1, <2>2, OthersKeepLife
<1> QED
  BY <1>1, <1>2, <1>3, <1>4, <1>5, <1>6, <1>8, <1>9, <1>10, <1>11
     DEF ProcessNext, MainStep

LEMMA LifeInit == ProcessInit => LifeInv
<1> SUFFICES ASSUME ProcessInit PROVE LifeInv
  OBVIOUS
<1>1. TInv
  BY TInvInit DEF ProcessInit
<1>2. pc = "init" /\ ~node /\ shutdown_state = "NotStarted" /\ upstream_shutdowns = 0
      /\ position = 0
  BY Zenon DEF ProcessInit, TeardownInit, Adapter!Init
<1> QED
  BY <1>1, <1>2 DEF LifeInv, Lifecycle, ShutdownsCounted, CleaningUp, Ending

LEMMA LifeHolds == ProcessSpec => []LifeInv
BY LifeInit, LifeStep, PTL DEF ProcessSpec

(* From the finalization step, the destructor and the unwinding of a failed *)
(* start together the backend is shut down at most once, and exactly once   *)
(* when a process that tore its node down exits or has let it go.           *)
THEOREM ShutDownOnce == ProcessSpec => []UpstreamShutDownOnce
<1>1. LifeInv => UpstreamShutDownOnce
  <2> SUFFICES ASSUME LifeInv PROVE UpstreamShutDownOnce
    OBVIOUS
  <2>1. upstream_shutdowns <= 1
    BY DEF LifeInv, ShutdownsCounted
  <2>2. position = 22 => upstream_shutdowns = 1
    BY DEF LifeInv, ShutdownsCounted, TInv, ShutdownTracked
  <2>3. pc = "exited" /\ position > 0 => position = 22
    BY DEF LifeInv, Lifecycle, Ending
  <2>4. held = {} => position = 22
    BY DEF LifeInv, TInv, TeardownTypeOK, HeldUntilReleased
  <2> QED
    BY <2>1, <2>2, <2>3, <2>4 DEF UpstreamShutDownOnce
<1> QED
  BY <1>1, LifeHolds, PTL

(* In the whole process, too, the teardown finds what its steps need.       *)
THEOREM TeardownFindsWhatItNeeds == ProcessSpec => [](pc = "shutdown" => StepPreconditions)
<1>1. LifeInv => (pc = "shutdown" => StepPreconditions)
  BY PreconditionsKept DEF LifeInv, Lifecycle
<1> QED
  BY <1>1, LifeHolds, PTL

-----------------------------------------------------------------------------
(* The process: its stop gate *)

GateStep ==
    \E reason \in Reasons :
        \/ Stop!request_stop(reason)
        \/ \E exception, cleanup \in BOOLEAN : Stop!record_failure(reason, exception, cleanup)

LEMMA TeardownGate ==
  ASSUME Next
  PROVE  GateStep \/ UNCHANGED gate
<1> USE ReasonsAreSome DEF GateStep
<1>1. CASE begin \/ skip
  BY <1>1 DEF begin, skip
<1>2. CASE succeed
  <2>1. "Finalization" \in Reasons
    BY DEF Reasons
  <2> QED
    BY <1>2, <2>1 DEF succeed
<1>3. CASE fail
  <2>1. Stop!record_failure(Reason(Step), TRUE, TRUE)
    BY <1>3 DEF fail, RecordStepFailure
  <2> QED
    BY <2>1
<1> QED
  BY <1>1, <1>2, <1>3 DEF Next

LEMMA NotifierGate ==
  ASSUME NEW n \in Notifiers, NotifierStep(n)
  PROVE  GateStep \/ UNCHANGED gate
<1>1. {"ViewerStop", "InputIdle", "CallbackError", "ViewerError", "CancelError",
       "ContextShutdown", "ShutdownError"} \subseteq Reasons
  BY DEF Reasons
<1>2. CASE run(n)
  <2>1. \/ Stop!request_stop("ViewerStop")
        \/ Stop!request_stop("InputIdle")
        \/ Stop!record_failure("CallbackError", TRUE, FALSE)
        \/ Stop!record_failure("ViewerError", TRUE, FALSE)
        \/ UNCHANGED gate
    BY <1>2 DEF run, stop_timer_runs, viewer_runs, callback_runs
  <2> QED
    BY <1>1, <2>1 DEF GateStep
<1>3. CASE cancel(n) \/ fallback(n) \/ report(n)
  <2>1. \/ Stop!request_stop("ContextShutdown")
        \/ Stop!record_failure("CancelError", TRUE, FALSE)
        \/ Stop!record_failure("ShutdownError", TRUE, FALSE)
        \/ Stop!record_failure("CallbackError", TRUE, FALSE)
        \/ UNCHANGED gate
    BY <1>3 DEF cancel, fallback, report
  <2> QED
    BY <1>1, <2>1 DEF GateStep
<1> QED
  BY <1>2, <1>3 DEF NotifierStep

(* Whoever moves, the gate changes only by its own operations.              *)
LEMMA GateMoves ==
  ASSUME [ProcessNext]_all_vars
  PROVE  GateStep \/ UNCHANGED gate
<1>1. {"CallbackError", "ContextShutdown", "ShutdownError"} \subseteq Reasons
  BY DEF Reasons
<1>2. CASE UNCHANGED all_vars
  BY <1>2 DEF all_vars, vars
<1>3. CASE rclcpp_init \/ register \/ construct \/ wire \/ check \/ enter_spin
             \/ spin_returns \/ spin_throws \/ cancel_stop_timer
  BY <1>3 DEF rclcpp_init, register, construct, wire, check, enter_spin, spin_returns,
              spin_throws, cancel_stop_timer, vars
<1>4. CASE registered
  BY <1>1, <1>4 DEF registered, GateStep
<1>5. CASE start_finalization \/ detach_context \/ shutdown_context \/ finish_logging
  <2>1. \/ Stop!record_failure("CallbackError", TRUE, FALSE)
        \/ Stop!record_failure("ShutdownError", TRUE, TRUE)
        \/ UNCHANGED gate
    BY <1>5 DEF start_finalization, detach_context, shutdown_context, finish_logging, Record,
                NoFailureHere
  <2> QED
    BY <1>1, <2>1 DEF GateStep
<1>6. CASE finalize_node
  BY <1>6, TeardownGate DEF finalize_node, vars
<1>7. CASE release_executor \/ release_node \/ write_evidence \/ cancel_released
  BY <1>7 DEF release_executor, release_node, write_evidence, cancel_released, vars
<1>8. ASSUME NEW n \in Notifiers, NotifierStep(n)
      PROVE  GateStep \/ UNCHANGED gate
  BY <1>8, NotifierGate
<1>9. ASSUME NEW g \in Groups, dispatch(g)
      PROVE  UNCHANGED gate
  BY <1>9 DEF dispatch
<1>10. CASE notify \/ signal
  BY <1>1, <1>10 DEF notify, signal, GateStep
<1> QED
  BY <1>2, <1>3, <1>4, <1>5, <1>6, <1>7, <1>8, <1>9, <1>10 DEF ProcessNext, MainStep

(* The whole process uses its stop gate only through the operations of      *)
(* StopControl, so that all it promises (the first cause stays, a failure   *)
(* is always a stop, nothing reopens the gate) holds of the process.        *)
THEOREM ProcessKeepsTheGate == ProcessSpec => Stop!Spec
<1>1. ProcessInit => Stop!Init
  BY DEF ProcessInit
<1>2. [ProcessNext]_all_vars => [Stop!Next]_(Stop!control)
  BY GateMoves DEF GateStep, Stop!Next, Stop!control, gate
<1> QED
  BY <1>1, <1>2, PTL DEF ProcessSpec, Stop!Spec

LEMMA CausesStay ==
  ASSUME [ProcessNext]_all_vars
  PROVE  /\ first_failure # None => first_failure' # None
         /\ cleanup_failed => cleanup_failed'
<1>1. CASE UNCHANGED gate
  BY <1>1 DEF gate
<1>2. CASE GateStep
  <2>1. ASSUME NEW reason \in Reasons, Stop!request_stop(reason)
        PROVE  UNCHANGED <<first_failure, cleanup_failed>>
    BY <2>1 DEF Stop!request_stop
  <2>2. ASSUME NEW reason \in Reasons, NEW exception \in BOOLEAN, NEW cleanup \in BOOLEAN,
               Stop!record_failure(reason, exception, cleanup)
        PROVE  /\ first_failure # None => first_failure' = first_failure
               /\ cleanup_failed => cleanup_failed'
    <3>1. cleanup_failed' = (cleanup_failed \/ cleanup)
      BY <2>2 DEF Stop!record_failure
    <3>2. cleanup_failed => cleanup_failed'
      BY <3>1, Zenon
    <3>3. first_failure # None => first_failure' = first_failure
      BY <2>2 DEF Stop!record_failure, Stop!KeepFirst
    <3> QED
      BY <3>2, <3>3
  <2> QED
    BY <1>2, <2>1, <2>2 DEF GateStep
<1> QED
  BY <1>1, <1>2, GateMoves

LEMMA RecordedFailureStays ==
  ASSUME NEW reason \in Reasons, NEW exception, NEW cleanup,
         Stop!record_failure(reason, exception, cleanup)
  PROVE  /\ first_failure' # None
         /\ cleanup = TRUE => cleanup_failed'
BY ReasonsAreSome DEF Stop!record_failure, Stop!KeepFirst

-----------------------------------------------------------------------------
(* The process: its exit code *)

\* A failure that anything survived has left its trace, where the exit code
\* is computed from.
EvidenceInv ==
    /\ failed_steps # {} => cleanup_failed /\ first_failure # None
    /\ failed /\ has_control => first_failure # None
    /\ pc \in {"shutdown"} \cup CleaningUp \cup Ending /\ startup_failure => failed
    /\ pc = "init" => ~failed
    /\ pc = "exited" /\ exit_code = 0 => ~failed /\ first_failure = None /\ ~cleanup_failed

LEMMA RecordMeans ==
  ASSUME NEW reason \in Reasons, NEW cleaning \in BOOLEAN, Record(reason, cleaning)
  PROVE  failed' /\ (has_control => first_failure' # None)
BY RecordedFailureStays DEF Record

(* Steps that do not touch what the evidence is about, except to the better.*)
LEMMA OthersKeepEvidence ==
  ASSUME EvidenceInv, [ProcessNext]_all_vars,
         UNCHANGED <<failed, failed_steps, has_control, startup_failure>>,
         (pc' = pc /\ pc # "exited") \/ pc' \in {"crashed", "terminated"}
  PROVE  EvidenceInv'
BY CausesStay DEF EvidenceInv, CleaningUp, Ending

LEMMA EvidenceStep ==
  ASSUME EvidenceInv, [ProcessNext]_all_vars
  PROVE  EvidenceInv'
<1>1. CASE UNCHANGED all_vars
  BY <1>1 DEF all_vars, vars, gate, life, EvidenceInv, CleaningUp, Ending
<1>2. CASE rclcpp_init
  BY <1>2, CausesStay DEF rclcpp_init, vars, To, Caught, EvidenceInv, CleaningUp, Ending
<1>3. CASE register \/ registered \/ construct \/ wire \/ check \/ enter_spin
             \/ spin_returns \/ cancel_stop_timer
  <2>1. UNCHANGED <<failed, failed_steps, has_control>>
    BY <1>3 DEF register, registered, construct, wire, check, enter_spin, spin_returns,
                cancel_stop_timer, vars, finalization
  <2>2. pc' \notin {"init", "exited", "shutdown"} \cup CleaningUp \cup Ending
    BY <1>3 DEF register, registered, construct, wire, check, enter_spin, spin_returns,
                cancel_stop_timer, To, Caught, CleaningUp, Ending
  <2> QED
    BY <2>1, <2>2, CausesStay DEF EvidenceInv, CleaningUp, Ending
<1>4. CASE spin_throws
  BY <1>4, OthersKeepEvidence DEF spin_throws, To, vars
<1>5. CASE start_finalization
  <2>1. /\ UNCHANGED <<failed_steps, has_control, startup_failure>>
        /\ pc' \in {"shutdown", "detach"}
    BY <1>5 DEF start_finalization, To, finalization
  <2>2. CASE ~startup_failure /\ NoFailureHere
    BY <2>1, <2>2, CausesStay DEF NoFailureHere, EvidenceInv, CleaningUp, Ending
  <2>3. CASE startup_failure /\ Record("CallbackError", FALSE)
    <3>1. failed' /\ (has_control => first_failure' # None)
      BY <2>3, RecordMeans DEF Reasons
    <3> QED
      BY <2>1, <3>1, CausesStay DEF EvidenceInv, CleaningUp, Ending
  <2> QED
    BY <1>5, <2>2, <2>3 DEF start_finalization
<1>6. CASE finalize_node
  <2>1. /\ UNCHANGED <<failed, has_control, startup_failure>>
        /\ pc = "shutdown" /\ pc' \in {"shutdown", "detach"}
    BY <1>6 DEF finalize_node, To
  <2>2. \/ failed_steps' = failed_steps
        \/ first_failure' # None /\ cleanup_failed'
    <3>1. CASE fail
      <4>1. Stop!record_failure(Reason(Step), TRUE, TRUE) /\ Reason(Step) \in Reasons
        BY <3>1, ReasonsAreSome DEF fail, RecordStepFailure
      <4> QED
        BY <4>1, RecordedFailureStays
    <3>2. CASE begin \/ skip
      BY <3>2 DEF begin, skip
    <3>3. CASE succeed
      BY <3>3 DEF succeed
    <3>4. CASE UNCHANGED vars
      BY <3>4 DEF vars
    <3> QED
      BY <1>6, <3>1, <3>2, <3>3, <3>4 DEF finalize_node, Next
  <2> QED
    BY <2>1, <2>2, CausesStay DEF EvidenceInv, CleaningUp, Ending
<1>7. CASE detach_context \/ shutdown_context \/ finish_logging
  <2>1. /\ UNCHANGED <<failed_steps, has_control, startup_failure>>
        /\ pc \in {"detach", "context", "logging"} /\ pc' \in {"executor", "logging", "report"}
    BY <1>7 DEF detach_context, shutdown_context, finish_logging, To, finalization
  <2>2. CASE NoFailureHere
    BY <2>1, <2>2, CausesStay DEF NoFailureHere, EvidenceInv, CleaningUp, Ending
  <2>3. CASE Record("ShutdownError", TRUE)
    <3>1. failed' /\ (has_control => first_failure' # None)
      BY <2>3, RecordMeans DEF Reasons
    <3> QED
      BY <2>1, <3>1, CausesStay DEF EvidenceInv, CleaningUp, Ending
  <2> QED
    BY <1>7, <2>2, <2>3 DEF detach_context, shutdown_context, finish_logging
<1>8. CASE release_executor \/ release_node
  <2>1. /\ UNCHANGED <<failed, failed_steps, has_control, startup_failure>>
        /\ pc \in CleaningUp /\ pc' \in {"node", "context"}
    BY <1>8 DEF release_executor, release_node, To, vars, CleaningUp
  <2> QED
    BY <2>1, CausesStay DEF EvidenceInv, CleaningUp, Ending
<1>9. CASE write_evidence
  <2>1. /\ UNCHANGED <<failed, failed_steps, has_control, startup_failure, gate>>
        /\ pc = "report" /\ pc' = "exited"
    BY <1>9 DEF write_evidence, To, vars
  <2>2. exit_code' = 0 => Result = 0
    BY <1>9 DEF write_evidence, Result
  <2>3. exit_code' = 0 => ~failed /\ first_failure = None /\ ~cleanup_failed
    BY <2>2 DEF Result
  <2> QED
    BY <2>1, <2>3 DEF gate, EvidenceInv, CleaningUp, Ending
<1>10. ASSUME ProcessRuns, Unchanged
       PROVE  EvidenceInv'
  BY <1>10, OthersKeepEvidence DEF ProcessRuns, Unchanged, finalization
<1>11. ASSUME ProcessRuns, NEW n \in Notifiers, NotifierStep(n)
       PROVE  EvidenceInv'
  BY <1>10, <1>11 DEF NotifierStep, run, cancel, fallback, report
<1>12. ASSUME ProcessRuns, NEW g \in Groups, dispatch(g)
       PROVE  EvidenceInv'
  BY <1>10, <1>12 DEF dispatch
<1>13. ASSUME ProcessRuns, notify \/ signal
       PROVE  EvidenceInv'
  BY <1>10, <1>13 DEF notify, signal
<1>14. CASE cancel_released
  BY <1>14, OthersKeepEvidence DEF cancel_released, vars
<1> QED
  BY <1>1, <1>2, <1>3, <1>4, <1>5, <1>6, <1>7, <1>8, <1>9, <1>11, <1>12, <1>13, <1>14
     DEF ProcessNext, MainStep

(* Exit code zero means that no startup, callback, Viewer, teardown or      *)
(* cleanup step failed and that an enabled evaluation is complete; and what *)
(* did fail has its cause in the stop gate that the process reports.        *)
THEOREM ExitCodeIsTruthful == ProcessSpec => []ExitCodeTruthful
<1>1. ProcessInit => EvidenceInv
  <2> SUFFICES ASSUME ProcessInit PROVE EvidenceInv
    OBVIOUS
  <2>1. failed_steps = {} /\ ~failed /\ pc = "init"
    BY Zenon DEF ProcessInit, TeardownInit
  <2> QED
    BY <2>1 DEF EvidenceInv, CleaningUp, Ending
<1>2. LifeInv /\ EvidenceInv => ExitCodeTruthful
  <2> SUFFICES ASSUME LifeInv, EvidenceInv, pc = "exited" PROVE ExitCodeTruthful
    BY DEF ExitCodeTruthful
  <2>1. startup_failure => failed
    BY DEF EvidenceInv, Ending
  <2>2. ASSUME exit_code = 0
        PROVE  /\ ~startup_failure /\ ~failed /\ failed_steps = {}
               /\ first_failure = None /\ ~cleanup_failed
    BY <2>1, <2>2 DEF EvidenceInv
  <2>3. ASSUME exit_code = 0, Done, evaluation # "off"
        PROVE  artifacts["evaluation_complete"] = "complete"
    <3>1. position > 13
      BY <2>3, StepOrder DEF Done, LifeInv, TInv, TeardownTypeOK
    <3> QED
      BY <2>2, <2>3, <3>1 DEF LifeInv, TInv, TeardownTypeOK, ExportsMade
  <2>4. has_control /\ (startup_failure \/ failed \/ failed_steps # {}) => first_failure # None
    BY <2>1 DEF EvidenceInv
  <2> QED
    BY <2>2, <2>3, <2>4 DEF ExitCodeTruthful
<1> QED
  BY <1>1, <1>2, EvidenceStep, LifeHolds, PTL DEF ProcessSpec
=============================================================================
