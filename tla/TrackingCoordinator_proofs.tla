--------------------- MODULE TrackingCoordinator_proofs ---------------------
(***************************************************************************)
(* The tracking coordinator for every capacity, every stream of images and *)
(* IMU messages and every interleaving of its threads: it implements the   *)
(* frame queue and the IMU frontend, no internal error is reachable, the   *)
(* permits match the calls, and no IMU sample is lost or sent twice.       *)
(***************************************************************************)
EXTENDS TrackingCoordinator, SequenceTheorems, TLAPS

QueueFacts == INSTANCE FrameQueue_proofs
ImuFacts   == INSTANCE ImuFrontend_proofs

-----------------------------------------------------------------------------
(* The parts under the names of their proofs.                               *)

LEMMA PartsAssumptions ==
    QueueFacts!FrameQueueAssumption /\ ImuFacts!ImuFrontendAssumption
BY CoordinatorAssumption
DEF Queue!FrameQueueAssumption, QueueFacts!FrameQueueAssumption,
    Queue!TrackingWork, QueueFacts!TrackingWork, Queue!PendingFrame, QueueFacts!PendingFrame,
    Queue!Stages, QueueFacts!Stages,
    Imu!ImuFrontendAssumption, ImuFacts!ImuFrontendAssumption

LEMMA SameQueueTypes ==
    (QueueFacts!TypeOK <=> Queue!TypeOK) /\ (QueueFacts!TypeOK <=> Queue!TypeOK)'
BY Zenon
DEF Queue!TypeOK, QueueFacts!TypeOK, Queue!Optional, QueueFacts!Optional,
    Queue!TrackingWork, QueueFacts!TrackingWork, Queue!PendingFrame, QueueFacts!PendingFrame,
    Queue!Stages, QueueFacts!Stages

LEMMA SameQueueInit == Queue!Init <=> QueueFacts!Init
BY Zenon DEF Queue!Init, QueueFacts!Init

LEMMA SameQueueStep ==
    [Queue!Next]_(Queue!vars) <=> [QueueFacts!Next]_(QueueFacts!vars)
<1> USE DEF Queue!in_flight, QueueFacts!in_flight, Queue!outstanding, QueueFacts!outstanding,
            Queue!startup, QueueFacts!startup, Queue!Stale, QueueFacts!Stale,
            Queue!Full, QueueFacts!Full, Queue!Reserve, QueueFacts!Reserve,
            Queue!counters, QueueFacts!counters, Queue!timestamps, QueueFacts!timestamps,
            Queue!Unsampled, QueueFacts!Unsampled
<1>1. \A t : Queue!discard_incoming(t) <=> QueueFacts!discard_incoming(t)
  BY Zenon DEF Queue!discard_incoming, QueueFacts!discard_incoming
<1>2. \A t : Queue!admit(t) <=> QueueFacts!admit(t)
  BY Zenon DEF Queue!admit, QueueFacts!admit, Queue!NextSequence, QueueFacts!NextSequence,
               Queue!Evicted, QueueFacts!Evicted
<1>3. Queue!reserve_tracking_work <=> QueueFacts!reserve_tracking_work
  BY Zenon DEF Queue!reserve_tracking_work, QueueFacts!reserve_tracking_work
<1>4. Queue!reserve_startup_pair <=> QueueFacts!reserve_startup_pair
  BY Zenon DEF Queue!reserve_startup_pair, QueueFacts!reserve_startup_pair
<1>5. Queue!discard_startup_first <=> QueueFacts!discard_startup_first
  BY Zenon DEF Queue!discard_startup_first, QueueFacts!discard_startup_first
<1>6. \A batch : Queue!make_ready(batch) <=> QueueFacts!make_ready(batch)
  BY Zenon DEF Queue!make_ready, QueueFacts!make_ready
<1>7. Queue!begin_primary <=> QueueFacts!begin_primary
  BY Zenon DEF Queue!begin_primary, QueueFacts!begin_primary
<1>8. Queue!begin_startup_next <=> QueueFacts!begin_startup_next
  BY Zenon DEF Queue!begin_startup_next, QueueFacts!begin_startup_next
<1>9. \A work : Queue!Complete(work) <=> QueueFacts!Complete(work)
  BY Zenon DEF Queue!Complete, QueueFacts!Complete
<1>10. Queue!complete_primary <=> QueueFacts!complete_primary
  BY <1>9, Zenon DEF Queue!complete_primary, QueueFacts!complete_primary
<1>11. Queue!complete_startup_next <=> QueueFacts!complete_startup_next
  BY <1>9, Zenon DEF Queue!complete_startup_next, QueueFacts!complete_startup_next
<1>12. Queue!Unsampled <=> QueueFacts!Unsampled
  BY Zenon
<1>13. Queue!vars = QueueFacts!vars /\ Queue!vars' = QueueFacts!vars'
  BY Zenon DEF Queue!vars, QueueFacts!vars
<1>14. Queue!Next <=> QueueFacts!Next
  <2> DEFINE Sampled == Queue!Unsampled /\ \E batch \in Queue!Optional(Batches) :
                                              Queue!make_ready(batch)
             SampledFacts == QueueFacts!Unsampled /\
                \E batch \in QueueFacts!Optional(Batches) : QueueFacts!make_ready(batch)
  <2>1. Sampled <=> SampledFacts
    BY <1>6, <1>12, Zenon DEF Queue!Optional, QueueFacts!Optional
  <2> QED
    BY <1>1, <1>2, <1>3, <1>4, <1>5, <1>7, <1>8, <1>10, <1>11, <2>1, Zenon
    DEF Queue!Next, QueueFacts!Next
<1> QED
  BY <1>13, <1>14, Zenon

LEMMA SameImuTypes ==
    (ImuFacts!TypeOK <=> Imu!TypeOK) /\ (ImuFacts!TypeOK <=> Imu!TypeOK)'
BY Zenon DEF Imu!TypeOK, ImuFacts!TypeOK, Imu!Counters, ImuFacts!Counters,
             Imu!Rejections, ImuFacts!Rejections

LEMMA SameImuInit == Imu!Init <=> ImuFacts!Init
BY Zenon DEF Imu!Init, ImuFacts!Init, Imu!Counters, ImuFacts!Counters,
             Imu!Rejections, ImuFacts!Rejections

(* The answers of the IMU frontend, and what it hands out.                  *)
LEMMA SameImuAnswers ==
    \A left, right :
       /\ Imu!QueryStatus(left, right) = ImuFacts!QueryStatus(left, right)
       /\ Imu!TakeStatus(left, right) = ImuFacts!TakeStatus(left, right)
       /\ Imu!Batch(left, right) = ImuFacts!Batch(left, right)
       /\ Imu!Unconsumed(right) = ImuFacts!Unconsumed(right)
<1>1. \A s, t : Imu!UpperBound(s, t) = ImuFacts!UpperBound(s, t)
  BY Zenon DEF Imu!UpperBound, ImuFacts!UpperBound
<1>2. \A s, left, right : Imu!Coverage(s, left, right) = ImuFacts!Coverage(s, left, right)
  BY <1>1, Zenon DEF Imu!Coverage, ImuFacts!Coverage
<1>3. \A left, right : Imu!QueryStatus(left, right) = ImuFacts!QueryStatus(left, right)
  BY <1>1, <1>2, Zenon DEF Imu!QueryStatus, ImuFacts!QueryStatus, Imu!Newest, ImuFacts!Newest
<1> QED
  BY <1>1, <1>3, Zenon DEF Imu!TakeStatus, ImuFacts!TakeStatus, Imu!Batch, ImuFacts!Batch,
                           Imu!Unconsumed, ImuFacts!Unconsumed

LEMMA SameImuStep == [Imu!Next]_(Imu!vars) <=> [ImuFacts!Next]_(ImuFacts!vars)
<1>1. \A m : Imu!Verdict(m) = ImuFacts!Verdict(m)
  BY Zenon DEF Imu!Verdict, ImuFacts!Verdict, Imu!Newest, ImuFacts!Newest
<1>2. \A m : Imu!reject_sample(m) <=> ImuFacts!reject_sample(m)
  BY <1>1, Zenon DEF Imu!reject_sample, ImuFacts!reject_sample, Imu!Rejections,
                     ImuFacts!Rejections, Imu!buffering, ImuFacts!buffering
<1>3. \A m : Imu!accept_sample(m) <=> ImuFacts!accept_sample(m)
  BY <1>1, Zenon DEF Imu!accept_sample, ImuFacts!accept_sample, Imu!Overflowed, ImuFacts!Overflowed
<1>4. \A m : Imu!imu_callback(m) <=> ImuFacts!imu_callback(m)
  BY <1>2, <1>3, Zenon DEF Imu!imu_callback, ImuFacts!imu_callback
<1>5. \A left, right :
         Imu!takeMeasurements(left, right) <=> ImuFacts!takeMeasurements(left, right)
  BY SameImuAnswers, Zenon DEF Imu!takeMeasurements, ImuFacts!takeMeasurements,
                               Imu!NextBoundary, ImuFacts!NextBoundary
<1>6. Imu!stop <=> ImuFacts!stop
  BY Zenon DEF Imu!stop, ImuFacts!stop, Imu!imu_vars, ImuFacts!imu_vars,
               Imu!buffering, ImuFacts!buffering
<1>7. Imu!vars = ImuFacts!vars /\ Imu!vars' = ImuFacts!vars'
  BY Zenon DEF Imu!vars, ImuFacts!vars, Imu!imu_vars, ImuFacts!imu_vars,
               Imu!buffering, ImuFacts!buffering
<1>8. Imu!Next <=> ImuFacts!Next
  BY <1>4, <1>5, <1>6, Zenon DEF Imu!Next, ImuFacts!Next, Imu!Messages, ImuFacts!Messages
<1> QED
  BY <1>7, <1>8, Zenon

-----------------------------------------------------------------------------
(* The inductive invariant of the coordinator                               *)

ControlTypes ==
    /\ Stop!TypeOK
    /\ pc \in {"idle", "timeline", "acquire", "sample", "discard", "ready", "permit",
              "backend", "commit", "notify", "next", "failing"}
    /\ source \in {"primary", "startup_next"}
    /\ imu_wait \in (0..ImuWaitTimeout) \cup {None}
    /\ tracking_failed \in BOOLEAN
    /\ failure.reason \in Reasons \cup {None}
    /\ reception \in {"idle", "admitting", "failing"}
    /\ incoming \in (IF reception = "admitting" THEN FrameTimes ELSE {None})

\* No work is further than its reservation: what a new callback finds.
Fresh ==
    /\ tracking_work # None => tracking_work.stage = "Reserved"
    /\ startup_next_work # None => startup_next_work.stage = "Reserved"

\* Where the tracking thread is decides how far its work is.
Places ==
    /\ pc \in {"timeline", "acquire", "sample", "discard"} => Fresh
    /\ pc = "idle" /\ ~stop_requested => Fresh
    /\ pc \in {"sample", "discard"} => Reserved
    /\ pc = "ready" => tracking_work # None /\ tracking_work.stage = "Ready"
    /\ pc \in {"permit", "backend", "commit"} =>
          /\ Work # None /\ Work.stage = IF pc = "permit" THEN "Ready" ELSE "Executing"
          /\ source = "startup_next" => tracking_work = None
    /\ pc \in {"notify", "next"} => tracking_work = None
    /\ pc = "notify" =>
          IF source = "primary" /\ Queue!startup
          THEN startup_next_work # None /\ startup_next_work.stage = "Ready"
          ELSE startup_next_work = None
    /\ pc = "next" => startup_next_work # None /\ startup_next_work.stage = "Ready"

Waits ==
    /\ imu_wait # None => tracking_work # None /\ Mode = "StereoImu"
    /\ pc \in {"ready", "permit", "backend", "commit", "notify", "next"} => imu_wait = None

Failures ==
    /\ pc = "failing" => tracking_failed /\ failure.reason \in Reasons
    /\ FailuresStopTheProcess
    /\ NoInternalError

ControlInv == ControlTypes /\ Places /\ Waits /\ Failures /\ PermitsMatchCalls

\* A batch is what the frontend hands out for the interval of its frame.
BatchInOrder(work) ==
    work # None /\ work.imu_batch # None =>
        LET batch == work.imu_batch
        IN  /\ batch \in Seq(Nat) /\ batch # <<>>
            /\ \A i, j \in 1..Len(batch) : i < j => batch[i] < batch[j]
            /\ \A i \in 1..Len(batch) : batch[i] <= work.pending.timestamp

\* After startup the primary work carries its batch, during startup F1 does.
BatchPlaces ==
    tracking_work # None =>
        (tracking_work.imu_batch # None <=> startup_complete /\ tracking_work.stage # "Reserved")

\* The boundary of the frontend is not before its first sample, nor before
\* what upstream was given.
BoundaryBounds ==
    /\ last_taken_timestamp # None =>
          first_timestamp # None /\ first_timestamp <= last_taken_timestamp
    /\ last_imu_timestamp # None =>
          /\ last_imu_timestamp \in Nat
          /\ last_taken_timestamp # None /\ last_imu_timestamp <= last_taken_timestamp

\* Until its call returns, the samples of a work are newer than upstream's.
Unsent(work, call) ==
    (~tracking_failed /\ work # None /\ work.imu_batch # None /\ last_imu_timestamp # None
     /\ ~(pc = "commit" /\ source = call))
       => \A i \in 1..Len(work.imu_batch) : last_imu_timestamp < work.imu_batch[i]

SampleInv ==
    /\ BatchPlaces
    /\ BatchInOrder(tracking_work) /\ BatchInOrder(startup_next_work)
    /\ BoundaryIsLastSampledFrame
    /\ BoundaryBounds
    /\ Unsent(tracking_work, "primary") /\ Unsent(startup_next_work, "startup_next")
    /\ fed \in Seq(Nat)
    /\ SamplesConserved

\* Until its call returns, a frame is newer than upstream's newest.
Untracked(work, call) ==
    work # None /\ ~(pc = "commit" /\ source = call)
       => last_frame_timestamp < work.pending.timestamp

FrameInv ==
    last_frame_timestamp # None =>
        /\ last_frame_timestamp \in Nat
        /\ ~tracking_failed =>
              /\ log # <<>> \/ pc = "commit"
              /\ last_received_frame_timestamp # None
              /\ last_frame_timestamp <= last_received_frame_timestamp
              /\ \A i \in 1..Len(pending_frames) :
                    last_frame_timestamp < pending_frames[i].timestamp
              /\ Untracked(tracking_work, "primary")
              /\ Untracked(startup_next_work, "startup_next")

-----------------------------------------------------------------------------
(* The queue and the IMU frontend keep their invariants.                    *)

QueueInv == QueueFacts!TypeOK /\ QueueFacts!PairInv /\ QueueFacts!OrderInv

LEMMA QueueInvInit == Queue!Init => QueueInv
BY SameQueueInit, PartsAssumptions, QueueFacts!TypesInit, QueueFacts!OrderInit DEF QueueInv

LEMMA QueueInvStep ==
    ASSUME QueueInv, [Queue!Next]_(Queue!vars) PROVE QueueInv'
<1>1. [QueueFacts!Next]_(QueueFacts!vars)
  BY SameQueueStep
<1>2. QueueFacts!TypeOK'
  BY <1>1, PartsAssumptions, QueueFacts!TypesStep DEF QueueInv
<1>3. QueueFacts!PairInv'
  BY <1>1, PartsAssumptions, QueueFacts!PairStep DEF QueueInv
<1>4. QueueFacts!OrderInv'
  BY <1>1, <1>2, PartsAssumptions, QueueFacts!OrderStep DEF QueueInv
<1> QED
  BY <1>2, <1>3, <1>4 DEF QueueInv

LEMMA ImuInvInit == Imu!Init => ImuFacts!IInv
BY SameImuInit, PartsAssumptions, ImuFacts!InvInit

LEMMA ImuInvStep ==
    ASSUME ImuFacts!IInv, [Imu!Next]_(Imu!vars) PROVE ImuFacts!IInv'
BY SameImuStep, PartsAssumptions, ImuFacts!InvStep

(* What the coordinator relies on in the queue.                             *)
QueueTypes ==
    /\ tracking_work # None => tracking_work \in Queue!TrackingWork
    /\ startup_next_work # None => startup_next_work \in Queue!TrackingWork
    /\ pending_frames \in Seq(Queue!PendingFrame)
    /\ last_received_frame_timestamp \in Times \cup {None}
    /\ last_tracked_frame_timestamp \in Times \cup {None}
    /\ startup_complete \in BOOLEAN /\ processed_frames \in Nat /\ log \in Seq(Nat \ {0})

PairShape ==
    /\ startup_next_work # None =>
          /\ Queue!startup
          /\ startup_next_work.imu_batch # None <=> startup_next_work.stage # "Reserved"
          /\ tracking_work = None => startup_next_work.stage # "Reserved"
    /\ Queue!startup /\ tracking_work # None =>
          /\ log = <<>> /\ tracking_work.imu_batch = None
          /\ tracking_work.stage # "Reserved" =>
                startup_next_work # None /\ startup_next_work.stage = "Ready"
    /\ startup_complete => Mode = "StereoImu" /\ last_tracked_frame_timestamp # None

\* A reserved frame lies between the last tracked and the waiting frames.
FramePlace(work) ==
    work # None =>
        /\ last_tracked_frame_timestamp # None =>
              last_tracked_frame_timestamp < work.pending.timestamp
        /\ last_received_frame_timestamp # None
        /\ work.pending.timestamp <= last_received_frame_timestamp
        /\ \A i \in 1..Len(pending_frames) :
              work.pending.timestamp < pending_frames[i].timestamp

FrameOrder ==
    /\ FramePlace(tracking_work) /\ FramePlace(startup_next_work)
    /\ tracking_work # None /\ startup_next_work # None =>
          tracking_work.pending.timestamp < startup_next_work.pending.timestamp
    /\ last_tracked_frame_timestamp # None =>
          /\ last_received_frame_timestamp # None
          /\ last_tracked_frame_timestamp <= last_received_frame_timestamp
    /\ \A i \in 1..Len(pending_frames) :
          /\ last_received_frame_timestamp # None
          /\ pending_frames[i].timestamp <= last_received_frame_timestamp

LEMMA QueueMeans ==
    /\ QueueInv => QueueTypes /\ PairShape /\ FrameOrder
    /\ QueueInv' => (QueueTypes /\ PairShape /\ FrameOrder)'
<1>1. /\ QueueInv => QueueTypes
      /\ QueueInv' => QueueTypes'
  BY SameQueueTypes, Zenon DEF QueueInv, QueueTypes, Queue!TypeOK, Queue!Optional
<1>2. /\ QueueInv => PairShape
      /\ QueueInv' => PairShape'
  BY Zenon DEF QueueInv, QueueFacts!PairInv, QueueFacts!StartupPairShape, PairShape,
     Queue!startup, QueueFacts!startup
<1>3. /\ QueueInv => FrameOrder
      /\ QueueInv' => FrameOrder'
  BY Zenon DEF QueueInv, QueueFacts!OrderInv, QueueFacts!PairInOrder, QueueFacts!WorkInOrder,
     QueueFacts!TrackedBeforeReceived, QueueFacts!Precedes, QueueFacts!Owed, QueueFacts!Before,
     QueueFacts!QueueInOrder, FrameOrder, FramePlace
<1> QED
  BY <1>1, <1>2, <1>3, Zenon

LEMMA Constants ==
    /\ None \notin Reasons /\ None \notin Nat /\ Times \subseteq Nat /\ FrameTimes \subseteq Times
    /\ Mode \in {"Stereo", "StereoImu"} /\ None \notin InternalErrors
    /\ ImuWaitTimeout \in Nat /\ None \notin Batches /\ None \notin Queue!TrackingWork
    /\ ImuInputs \subseteq Imu!Messages /\ BufferCapacity \in Nat \ {0}
BY CoordinatorAssumption
DEF Queue!FrameQueueAssumption, Stop!StopControlAssumption, Imu!ImuFrontendAssumption

-----------------------------------------------------------------------------
(* Control: the gate, and the ways of going on                              *)

LEMMA RecordMeans ==
    ASSUME Stop!TypeOK, NEW reason \in Reasons, Stop!record_failure(reason, TRUE, FALSE)
    PROVE  /\ Stop!TypeOK' /\ stop_requested' /\ first_failure' # None
           /\ backend_starts' = backend_starts
<1>1. /\ stop_requested' = TRUE /\ backend_starts' = backend_starts
      /\ cleanup_failed' = (cleanup_failed \/ FALSE)
      /\ first_stop' = (IF first_stop = None THEN reason ELSE first_stop)
      /\ first_failure' = (IF first_failure = None THEN reason ELSE first_failure)
      /\ first_exception' = (IF first_exception = None THEN reason ELSE first_exception)
  BY Zenon DEF Stop!record_failure, Stop!KeepFirst
<1>2. first_failure' # None
  BY <1>1, Constants, Zenon
<1>3. Stop!TypeOK'
  BY <1>1, Zenon DEF Stop!TypeOK
<1> QED
  BY <1>1, <1>2, <1>3, Zenon

LEMMA RequestMeans ==
    ASSUME Stop!TypeOK, NEW reason \in Reasons, Stop!request_stop(reason)
    PROVE  /\ Stop!TypeOK' /\ stop_requested' /\ first_failure' = first_failure
           /\ backend_starts' = backend_starts
<1>1. /\ stop_requested' = TRUE /\ backend_starts' = backend_starts
      /\ cleanup_failed' = cleanup_failed
      /\ first_stop' = (IF first_stop = None THEN reason ELSE first_stop)
      /\ first_failure' = first_failure /\ first_exception' = first_exception
  BY Zenon DEF Stop!request_stop, Stop!KeepFirst
<1>2. Stop!TypeOK'
  BY <1>1, Zenon DEF Stop!TypeOK
<1> QED
  BY <1>1, <1>2, Zenon

LEMMA SameGate ==
    ASSUME UNCHANGED gate
    PROVE  /\ (Stop!TypeOK => Stop!TypeOK') /\ (stop_requested' <=> stop_requested)
           /\ first_failure' = first_failure /\ backend_starts' = backend_starts
BY Zenon DEF gate, Stop!TypeOK

Labels == {"idle", "timeline", "acquire", "sample", "discard", "ready", "permit",
           "backend", "commit", "notify", "next"}

\* A callback that works has not failed before.
LEMMA WorkingMeans ==
    ASSUME ControlInv
    PROVE  /\ pc \notin {"idle", "failing"} => ~tracking_failed
           /\ pc = "idle" /\ ~stop_requested => ~tracking_failed
           /\ tracking_failed => ~Calling
BY Zenon DEF ControlInv, Failures, FailuresStopTheProcess, Calling

(* Going on to another label keeps what is known of failures.               *)
LEMMA GoOn ==
    ASSUME ControlInv, ~tracking_failed, UNCHANGED <<tracking_failed, failure, receiving>>,
           Stop!TypeOK', pc' \in Labels, source' \in {"primary", "startup_next"},
           imu_wait' \in (0..ImuWaitTimeout) \cup {None}
    PROVE  ControlTypes' /\ Failures'
<1>1. ControlTypes'
  BY Zenon DEF ControlInv, ControlTypes, Labels, receiving
<1>2. pc' # "failing"
  BY DEF Labels
<1>3. Failures'
  BY <1>2, Zenon DEF ControlInv, Failures, FailuresStopTheProcess, NoInternalError
<1> QED
  BY <1>1, <1>3

(* The permits still match if no call begins, ends or fails.                *)
LEMMA PermitsKept ==
    ASSUME ControlInv, UNCHANGED <<backend_starts, processed_frames>>,
           (Calling \/ BackendFailed)' <=> (Calling \/ BackendFailed)
    PROVE  PermitsMatchCalls'
BY Zenon DEF ControlInv, PermitsMatchCalls

(* An exception outside of a call keeps the invariant: it ends the work of  *)
(* the consumer, and is none of the internal errors.                        *)
LEMMA RaiseKeeps ==
    ASSUME ControlInv, ~tracking_failed, ~Calling,
           NEW reason \in Reasons, reason # "BackendError", NEW cause, cause \notin InternalErrors,
           Raise(reason, cause), UNCHANGED <<gate, receiving, processed_frames>>,
           tracking_work # None => tracking_work' # None
    PROVE  ControlInv'
<1>1. /\ pc' = "failing" /\ tracking_failed' = TRUE /\ source' = source /\ imu_wait' = imu_wait
      /\ failure' = [reason |-> reason, cause |-> cause]
  BY Zenon DEF Raise
<1>2. failure'.reason = reason /\ failure'.cause = cause
  BY <1>1
<1>3. ControlTypes'
  BY <1>1, <1>2, SameGate, Zenon DEF ControlInv, ControlTypes, receiving
<1>4. Places'
  BY <1>1 DEF Places
<1>5. Waits'
  <2>1. pc' \notin {"ready", "permit", "backend", "commit", "notify", "next"}
    BY <1>1
  <2> QED
    BY <2>1, <1>1, Zenon DEF ControlInv, Waits
<1>6. Failures'
  BY <1>1, <1>2, Zenon DEF Failures, FailuresStopTheProcess, NoInternalError
<1>7. PermitsMatchCalls'
  <2>1. ~(Calling \/ BackendFailed)
    BY Zenon DEF BackendFailed
  <2>2. ~(Calling \/ BackendFailed)'
    BY <1>1, <1>2 DEF Calling, BackendFailed
  <2> QED
    BY <2>1, <2>2, PermitsKept, SameGate
<1> QED
  BY <1>3, <1>4, <1>5, <1>6, <1>7 DEF ControlInv

(* Steps of other threads leave the tracking thread where it is.            *)
LEMMA OthersKeepControl ==
    ASSUME ControlInv, Stop!TypeOK', stop_requested => stop_requested',
           first_failure # None => first_failure' # None,
           UNCHANGED <<backend_starts, processed_frames, tracking_work, startup_next_work,
                       startup_complete, tracking>>,
           reception' \in {"idle", "admitting", "failing"},
           incoming' \in (IF reception' = "admitting" THEN FrameTimes ELSE {None})
    PROVE  ControlInv'
<1>0. UNCHANGED <<pc, source, imu_wait, tracking_failed, failure>>
  BY Zenon DEF tracking
<1>1. ControlTypes'
  BY <1>0, Zenon DEF ControlInv, ControlTypes
<1>2. Places'
  BY <1>0, Zenon DEF ControlInv, Places, Fresh, Reserved, Work, Queue!startup
<1>3. Waits'
  BY <1>0, Zenon DEF ControlInv, Waits
<1>4. Failures'
  BY <1>0, Zenon DEF ControlInv, Failures, FailuresStopTheProcess, NoInternalError
<1>5. PermitsMatchCalls'
  BY <1>0, PermitsKept, Zenon DEF Calling, BackendFailed
<1> QED
  BY <1>1, <1>2, <1>3, <1>4, <1>5 DEF ControlInv

(* Going on outside of a call.                                              *)
LEMMA GotoKeeps ==
    ASSUME ControlInv, ~tracking_failed, ~Calling, NEW label \in Labels \ {"backend", "commit"},
           pc' = label, source' \in {"primary", "startup_next"},
           imu_wait' \in (0..ImuWaitTimeout) \cup {None},
           UNCHANGED <<tracking_failed, failure, gate, receiving, processed_frames>>
    PROVE  ControlTypes' /\ Failures' /\ PermitsMatchCalls'
<1>1. label \in Labels /\ label \notin {"backend", "commit"}
  OBVIOUS
<1>2. Stop!TypeOK'
  BY SameGate, Zenon DEF ControlInv, ControlTypes
<1>3. ControlTypes' /\ Failures'
  BY <1>1, <1>2, GoOn, Zenon
<1>4. ~Calling' /\ ~BackendFailed' /\ ~BackendFailed
  BY <1>1, Zenon DEF Calling, BackendFailed
<1>5. PermitsMatchCalls'
  BY <1>4, PermitsKept, SameGate, Zenon
<1> QED
  BY <1>3, <1>5

LEMMA GotoMeans ==
    ASSUME ControlInv, NEW label, Goto(label)
    PROVE  /\ pc' = label /\ UNCHANGED <<source, imu_wait, tracking_failed, failure>>
           /\ source' \in {"primary", "startup_next"}
           /\ imu_wait' \in (0..ImuWaitTimeout) \cup {None}
BY Zenon DEF Goto, bookkeeping, ControlInv, ControlTypes

LEMMA PollControl ==
    ASSUME ControlInv, poll PROVE ControlInv'
<1>1. pc = "idle" /\ ~stop_requested /\ UNCHANGED <<queue, gate, imu, adapter, receiving>>
  BY Zenon DEF poll, others
<1>2. ~tracking_failed /\ ~Calling
  BY <1>1, WorkingMeans DEF Calling
<1>3. PICK label \in {"timeline", "acquire"} : Goto(label)
  BY <1>2, Zenon DEF poll
<1>4. /\ pc' = label /\ UNCHANGED <<source, imu_wait, tracking_failed, failure>>
      /\ source' \in {"primary", "startup_next"}
      /\ imu_wait' \in (0..ImuWaitTimeout) \cup {None}
  BY <1>3, GotoMeans
<1>5. UNCHANGED <<tracking_work, startup_next_work, startup_complete, processed_frames>>
  BY <1>1, Zenon DEF queue
<1>6. ControlTypes' /\ Failures' /\ PermitsMatchCalls'
  <2>1. label \in Labels \ {"backend", "commit"}
    BY DEF Labels
  <2> QED
    BY <1>1, <1>2, <1>4, <1>5, <2>1, GotoKeeps, Zenon
<1>7. Places'
  <2>1. Fresh'
    BY <1>1, <1>5, Zenon DEF ControlInv, Places, Fresh
  <2>2. /\ pc' \notin {"sample", "discard", "ready", "permit", "backend", "commit", "notify", "next"}
        /\ pc' # "ready" /\ pc' # "notify" /\ pc' # "next"
    BY <1>4
  <2> QED
    BY <2>1, <2>2, Zenon DEF Places
<1>8. Waits'
  BY <1>4, <1>5 DEF ControlInv, Waits
<1> QED
  BY <1>6, <1>7, <1>8 DEF ControlInv

\* A step of the tracking thread before its work is ready goes on to label.
Onward(label) ==
    /\ ~tracking_failed /\ ~Calling /\ label \in {"idle", "acquire", "sample", "discard"}
    /\ pc' = label /\ UNCHANGED <<source, tracking_failed, failure, gate, receiving, processed_frames>>
    /\ imu_wait' \in (0..ImuWaitTimeout) \cup {None}
    /\ source' \in {"primary", "startup_next"}
    /\ imu_wait' # None => tracking_work' # None /\ Mode = "StereoImu"
    /\ Fresh'
    /\ label \in {"sample", "discard"} => Reserved'

LEMMA OnwardKeeps ==
    ASSUME ControlInv, NEW label, Onward(label) PROVE ControlInv'
<1>1. label \in Labels \ {"backend", "commit"}
  BY DEF Labels, Onward
<1>2. ControlTypes' /\ Failures' /\ PermitsMatchCalls'
  BY <1>1, GotoKeeps, Zenon DEF Onward
<1>3. pc' \in {"idle", "acquire", "sample", "discard"}
  BY Zenon DEF Onward
<1>4. /\ pc' \notin {"ready", "permit", "backend", "commit", "notify", "next"}
      /\ pc' # "ready" /\ pc' # "notify" /\ pc' # "next"
  BY <1>3
<1>5. Places'
  BY <1>4, Zenon DEF Places, Onward
<1>6. Waits'
  BY <1>4, Zenon DEF Waits, Onward
<1> QED
  BY <1>2, <1>5, <1>6 DEF ControlInv

LEMMA TimelineControl ==
    ASSUME ControlInv, check_imu_timeline PROVE ControlInv'
<1>1. pc = "timeline" /\ UNCHANGED <<queue, gate, imu, adapter, receiving>>
  BY Zenon DEF check_imu_timeline, others
<1>2. ~tracking_failed /\ ~Calling
  BY <1>1, WorkingMeans DEF Calling
<1>3. UNCHANGED <<tracking_work, startup_next_work, startup_complete, processed_frames>>
  BY <1>1, Zenon DEF queue
<1>4. ASSUME Goto("acquire") PROVE ControlInv'
  <2>1. Fresh'
    BY <1>1, <1>3 DEF ControlInv, Places, Fresh
  <2>2. imu_wait # None => tracking_work # None /\ Mode = "StereoImu"
    BY Zenon DEF ControlInv, Waits
  <2>3. Onward("acquire")
    BY <1>1, <1>2, <1>3, <1>4, <2>1, <2>2, GotoMeans DEF Onward
  <2> QED
    BY <2>3, OnwardKeeps
<1>5. ASSUME Raise("SamplingError", "backwards") PROVE ControlInv'
  <2>1. "SamplingError" \in Reasons /\ "backwards" \notin InternalErrors
    BY DEF Reasons, InternalErrors
  <2> QED
    BY <1>1, <1>2, <1>3, <1>5, <2>1, RaiseKeeps
<1> QED
  BY <1>4, <1>5, Zenon DEF check_imu_timeline

LEMMA AcquireControl ==
    ASSUME ControlInv, QueueTypes, QueueTypes', PairShape, acquire PROVE ControlInv'
<1>1. pc = "acquire" /\ UNCHANGED <<gate, imu, adapter, receiving>>
  BY Zenon DEF acquire, others
<1>2. ~tracking_failed /\ ~Calling
  BY <1>1, WorkingMeans DEF Calling
<1>3. Fresh
  BY <1>1 DEF ControlInv, Places
<1>4. ~(Queue!startup /\ tracking_work = None /\ startup_next_work # None)
  BY <1>3, Zenon DEF Fresh, PairShape
<1>5. imu_wait # None => tracking_work # None /\ Mode = "StereoImu"
  BY Zenon DEF ControlInv, Waits
<1>6. ASSUME Reserved, Goto("sample"), UNCHANGED queue PROVE ControlInv'
  <2>1. UNCHANGED <<tracking_work, startup_next_work, startup_complete, processed_frames>>
    BY <1>6, Zenon DEF queue
  <2>2. Fresh' /\ Reserved'
    BY <1>3, <1>6, <2>1, Zenon DEF Fresh, Reserved, Queue!startup
  <2>3. Onward("sample")
    BY <1>1, <1>2, <1>5, <1>6, <2>1, <2>2, GotoMeans DEF Onward
  <2> QED
    BY <2>3, OnwardKeeps
<1>7. ASSUME Goto("idle"), UNCHANGED queue PROVE ControlInv'
  <2>1. UNCHANGED <<tracking_work, startup_next_work, startup_complete, processed_frames>>
    BY <1>7, Zenon DEF queue
  <2>2. Fresh'
    BY <1>3, <2>1, Zenon DEF Fresh
  <2>3. Onward("idle")
    BY <1>1, <1>2, <1>5, <1>7, <2>1, <2>2, GotoMeans DEF Onward
  <2> QED
    BY <2>3, OnwardKeeps
<1>8. ASSUME Queue!reserve_tracking_work, Goto("sample") PROVE ControlInv'
  <2>1. /\ ~Queue!startup /\ tracking_work = None /\ pending_frames # <<>>
        /\ tracking_work' = Queue!Reserve(Head(pending_frames))
        /\ UNCHANGED <<startup_next_work, startup_complete, processed_frames>>
    BY <1>8, Zenon DEF Queue!reserve_tracking_work, Queue!counters
  <2>2. tracking_work' # None /\ tracking_work'.stage = "Reserved"
    <3>1. Head(pending_frames) \in Queue!PendingFrame
      BY <2>1 DEF QueueTypes
    <3>2. Queue!Reserve(Head(pending_frames)) \in Queue!TrackingWork
      BY <3>1 DEF Queue!Reserve, Queue!TrackingWork, Queue!Stages
    <3>3. tracking_work'.stage = "Reserved"
      BY <2>1 DEF Queue!Reserve
    <3> QED
      BY <2>1, <3>2, <3>3, Constants, Zenon
  <2>3. Fresh' /\ Reserved'
    BY <1>3, <2>1, <2>2, Zenon DEF Fresh, Reserved, Queue!startup
  <2>4. Onward("sample")
    BY <1>1, <1>2, <1>5, <1>8, <2>1, <2>2, <2>3, GotoMeans DEF Onward
  <2> QED
    BY <2>4, OnwardKeeps
<1>9. ASSUME Queue!reserve_startup_pair, Goto("sample") PROVE ControlInv'
  <2>1. Queue!startup /\ UNCHANGED <<startup_complete, processed_frames>>
    BY <1>9, Zenon DEF Queue!reserve_startup_pair, Queue!counters
  <2>2. /\ \A entry \in Queue!PendingFrame :
              Queue!Reserve(entry) # None /\ Queue!Reserve(entry).stage = "Reserved"
    <3>1. ASSUME NEW entry \in Queue!PendingFrame
          PROVE  /\ Queue!Reserve(entry) \in Queue!TrackingWork
                 /\ Queue!Reserve(entry).stage = "Reserved"
      BY DEF Queue!Reserve, Queue!TrackingWork, Queue!Stages
    <3> QED
      BY <3>1, Constants, Zenon
  <2>3. Fresh' /\ tracking_work' # None /\ startup_next_work' # None
    <3>1. ASSUME Len(pending_frames) >= 2,
                 tracking_work' = Queue!Reserve(pending_frames[1]),
                 startup_next_work' = Queue!Reserve(pending_frames[2])
          PROVE  Fresh' /\ tracking_work' # None /\ startup_next_work' # None
      <4>1. pending_frames[1] \in Queue!PendingFrame /\ pending_frames[2] \in Queue!PendingFrame
        BY <3>1, ElementOfSeq, LenProperties DEF QueueTypes
      <4> QED
        BY <3>1, <4>1, <2>2, Zenon DEF Fresh
    <3>2. ASSUME tracking_work # None, pending_frames # <<>>, UNCHANGED tracking_work,
                 startup_next_work' = Queue!Reserve(Head(pending_frames))
          PROVE  Fresh' /\ tracking_work' # None /\ startup_next_work' # None
      <4>1. Head(pending_frames) \in Queue!PendingFrame
        BY <3>2 DEF QueueTypes
      <4> QED
        BY <3>2, <4>1, <2>2, <1>3, Zenon DEF Fresh
    <3> QED
      BY <1>9, <3>1, <3>2, Zenon DEF Queue!reserve_startup_pair
  <2>4. Reserved'
    BY <2>3, Zenon DEF Reserved
  <2>5. Onward("sample")
    BY <1>1, <1>2, <1>5, <1>9, <2>1, <2>3, <2>4, GotoMeans DEF Onward
  <2> QED
    BY <2>5, OnwardKeeps
<1> QED
  BY <1>4, <1>6, <1>7, <1>8, <1>9, Zenon DEF acquire

-----------------------------------------------------------------------------
(* Sampling: the interval the coordinator asks for                          *)

SamplingInv == QueueTypes /\ PairShape /\ FrameOrder /\ SampleInv /\ ImuFacts!IInv

(* The work is unsampled where the tracking thread samples it.              *)
LEMMA ReservedIsUnsampled ==
    ASSUME Fresh, Reserved PROVE Queue!Unsampled
BY Zenon DEF Fresh, Reserved, Queue!Unsampled

LEMMA WorkFields ==
    ASSUME NEW work \in Queue!TrackingWork
    PROVE  /\ work.pending \in Queue!PendingFrame
           /\ work.pending.timestamp \in Times /\ work.pending.timestamp \in Nat
           /\ work.stage \in {"Reserved", "Ready", "Executing"}
           /\ work.imu_batch \in Batches \cup {None}
BY Constants DEF Queue!TrackingWork, Queue!PendingFrame, Queue!Stages, Queue!Optional

(* It asks for the interval that continues the previous one, which is never *)
(* empty; and once startup is complete the interval begins no earlier than  *)
(* the first sample.                                                        *)
LEMMA IntervalContinues ==
    ASSUME SamplingInv, Mode = "StereoImu", Queue!Unsampled
    PROVE  /\ Left \in Times /\ Right \in Times /\ Left < Right
           /\ last_taken_timestamp \in {None, Left}
           /\ Imu!QueryStatus(Left, Right) # "InvalidRequest"
           /\ ~Queue!startup => Imu!QueryStatus(Left, Right) # "MissingHistory"
<1>0. /\ tracking_work # None /\ tracking_work.stage = "Reserved"
      /\ Queue!startup => startup_next_work # None /\ startup_next_work.stage = "Reserved"
  BY Zenon DEF Queue!Unsampled
<1>1. /\ tracking_work \in Queue!TrackingWork
      /\ startup_next_work # None => startup_next_work \in Queue!TrackingWork
  BY <1>0, Zenon DEF SamplingInv, QueueTypes
<1>2. /\ tracking_work.pending.timestamp \in Times
      /\ startup_next_work # None => startup_next_work.pending.timestamp \in Times
  BY <1>1, WorkFields
<1>3. tracking_work.imu_batch = None
  BY <1>0, Zenon DEF SamplingInv, SampleInv, BatchPlaces
<1>4. startup_next_work # None => startup_next_work.imu_batch = None
  BY <1>0, Zenon DEF SamplingInv, PairShape
<1>5. last_taken_timestamp = IF startup_complete THEN last_tracked_frame_timestamp ELSE None
  BY <1>3, <1>4, Zenon DEF SamplingInv, SampleInv, BoundaryIsLastSampledFrame
<1>6. /\ Times \subseteq Nat /\ None \notin Nat
      /\ first_timestamp \in Times \cup {None}
  BY Constants, SameImuTypes, Zenon DEF SamplingInv, ImuFacts!IInv, Imu!TypeOK
<1>7. CASE Queue!startup
  <2>1. /\ Left = tracking_work.pending.timestamp
        /\ Right = startup_next_work.pending.timestamp
    BY <1>7, Zenon DEF Left, Right
  <2>2. Left \in Times /\ Right \in Times /\ Left < Right
    BY <1>0, <1>2, <1>7, <2>1, Zenon DEF SamplingInv, FrameOrder
  <2>3. last_taken_timestamp = None
    BY <1>5, <1>7, Zenon DEF Queue!startup
  <2>4. ~(Right <= Left)
    BY <2>2, <1>6
  <2>5. Imu!QueryStatus(Left, Right) # "InvalidRequest"
    BY <2>3, <2>4 DEF Imu!QueryStatus
  <2> QED
    BY <1>7, <2>2, <2>3, <2>5, Zenon
<1>8. CASE ~Queue!startup
  <2>1. startup_complete /\ last_tracked_frame_timestamp # None
    BY <1>8, Zenon DEF Queue!startup, SamplingInv, PairShape
  <2>2. /\ Left = last_tracked_frame_timestamp /\ Right = tracking_work.pending.timestamp
        /\ last_taken_timestamp = Left
    BY <1>5, <1>8, <2>1, Zenon DEF Left, Right
  <2>3. Left \in Times /\ Right \in Times /\ Left < Right
    BY <1>0, <1>2, <2>1, <2>2, Zenon DEF SamplingInv, FrameOrder, FramePlace, QueueTypes
  <2>4. first_timestamp # None /\ first_timestamp <= Left
    BY <2>1, <2>2, Zenon DEF SamplingInv, SampleInv, BoundaryBounds
  <2>5. ~(Right <= Left) /\ ~(Left < first_timestamp)
    BY <2>3, <2>4, <1>6
  <2>6. Imu!QueryStatus(Left, Right) \notin {"InvalidRequest", "MissingHistory"}
    BY <2>2, <2>5 DEF Imu!QueryStatus
  <2> QED
    BY <1>8, <2>2, <2>3, <2>6, Zenon
<1> QED
  BY <1>7, <1>8

LEMMA MakeReadyMeans ==
    ASSUME QueueTypes, NEW batch \in Batches \cup {None}, Queue!make_ready(batch)
    PROVE  /\ tracking_work # None /\ tracking_work' # None
           /\ tracking_work'.stage = "Ready"
           /\ tracking_work'.pending = tracking_work.pending
           /\ Queue!startup =>
                 /\ startup_next_work # None /\ startup_next_work' # None
                 /\ startup_next_work'.stage = "Ready" /\ startup_next_work'.imu_batch = batch
                 /\ startup_next_work'.pending = startup_next_work.pending
                 /\ tracking_work'.imu_batch = tracking_work.imu_batch
           /\ ~Queue!startup =>
                 tracking_work'.imu_batch = batch /\ startup_next_work' = startup_next_work
           /\ batch = None <=> Mode = "Stereo"
           /\ UNCHANGED <<pending_frames, last_received_frame_timestamp, startup_complete,
                          last_tracked_frame_timestamp, processed_frames, log>>
<1>1. /\ Queue!Unsampled /\ (batch = None <=> Mode = "Stereo")
      /\ UNCHANGED <<pending_frames, last_received_frame_timestamp, startup_complete,
                     last_tracked_frame_timestamp, processed_frames, log>>
  BY Zenon DEF Queue!make_ready, Queue!timestamps, Queue!counters
<1>2. /\ tracking_work # None /\ tracking_work \in Queue!TrackingWork
      /\ Queue!startup => startup_next_work # None /\ startup_next_work \in Queue!TrackingWork
  BY <1>1, Zenon DEF Queue!Unsampled, QueueTypes
<1>3. CASE Queue!startup
  <2>1. /\ startup_next_work' = [startup_next_work EXCEPT !.stage = "Ready", !.imu_batch = batch]
        /\ tracking_work' = [tracking_work EXCEPT !.stage = "Ready"]
    BY <1>3, Zenon DEF Queue!make_ready
  <2>2. /\ tracking_work'.stage = "Ready" /\ tracking_work'.pending = tracking_work.pending
        /\ tracking_work'.imu_batch = tracking_work.imu_batch
        /\ tracking_work' \in Queue!TrackingWork
    BY <1>2, <2>1 DEF Queue!TrackingWork, Queue!Stages
  <2>3. /\ startup_next_work'.stage = "Ready" /\ startup_next_work'.imu_batch = batch
        /\ startup_next_work'.pending = startup_next_work.pending
    BY <1>2, <1>3, <2>1 DEF Queue!TrackingWork
  <2>4. startup_next_work' \in Queue!TrackingWork
    BY <1>2, <1>3, <2>1 DEF Queue!TrackingWork, Queue!Stages, Queue!Optional
  <2> QED
    BY <1>1, <1>2, <1>3, <2>2, <2>3, <2>4, Constants, Zenon
<1>4. CASE ~Queue!startup
  <2>1. /\ tracking_work' = [tracking_work EXCEPT !.stage = "Ready", !.imu_batch = batch]
        /\ startup_next_work' = startup_next_work
    BY <1>4, Zenon DEF Queue!make_ready
  <2>2. /\ tracking_work'.stage = "Ready" /\ tracking_work'.pending = tracking_work.pending
        /\ tracking_work'.imu_batch = batch
        /\ tracking_work' \in Queue!TrackingWork
    BY <1>2, <2>1 DEF Queue!TrackingWork, Queue!Stages, Queue!Optional
  <2> QED
    BY <1>1, <1>2, <1>4, <2>1, <2>2, Constants, Zenon
<1> QED
  BY <1>3, <1>4

(* A granted interval is handed out as a batch of the samples behind its    *)
(* left end, in order and up to its right end.                              *)
LEMMA GrantedBatch ==
    ASSUME ImuFacts!IInv, NEW left \in Times, NEW right \in Times,
           Imu!QueryStatus(left, right) = "Ready"
    PROVE  LET batch == Imu!Batch(left, right)
           IN  /\ batch \in Batches /\ batch \in Seq(Nat) /\ batch # <<>>
               /\ \A i, j \in 1..Len(batch) : i < j => batch[i] < batch[j]
               /\ \A i \in 1..Len(batch) : left < batch[i] /\ batch[i] <= right
               /\ first_timestamp # None /\ first_timestamp <= left
<1> DEFINE first == ImuFacts!UpperBound(imu_buffer, left)
           end   == ImuFacts!UpperBound(imu_buffer, right)
           batch == Imu!Batch(left, right)
           n     == end - first
<1>1. ImuFacts!QueryStatus(left, right) = "Ready" /\ batch = ImuFacts!Batch(left, right)
  BY SameImuAnswers, Zenon
<1>2. batch = SubSeq(imu_buffer, first, end - 1)
  BY <1>1, Zenon DEF ImuFacts!Batch
<1>3. /\ imu_buffer # <<>> /\ imu_buffer[1] <= left
      /\ ImuFacts!Splits(imu_buffer, left, first) /\ ImuFacts!Splits(imu_buffer, right, end)
      /\ first \in Nat /\ end \in Nat
      /\ 1 < first /\ first < end /\ end <= Len(imu_buffer) + 1
  BY <1>1, PartsAssumptions, ImuFacts!ReadyMeans
<1>4. /\ \A j \in 1..Len(imu_buffer) : j < first <=> imu_buffer[j] <= left
      /\ \A j \in 1..Len(imu_buffer) : j < end <=> imu_buffer[j] <= right
  BY <1>3 DEF ImuFacts!Splits
<1>5. /\ imu_buffer \in Seq(Times) /\ Len(imu_buffer) <= BufferCapacity
      /\ Len(imu_buffer) \in Nat /\ BufferCapacity \in Nat /\ left \in Nat /\ right \in Nat
      /\ \A i \in 1..Len(imu_buffer) : imu_buffer[i] \in Times /\ imu_buffer[i] \in Nat
  <2>1. ImuFacts!TypeOK
    BY Zenon DEF ImuFacts!IInv
  <2>2. imu_buffer \in Seq(Times) /\ Len(imu_buffer) <= BufferCapacity
    BY <2>1, Zenon DEF ImuFacts!TypeOK
  <2> QED
    BY <2>2, Constants, LenProperties
<1>6. \A i, j \in 1..Len(imu_buffer) : i < j => imu_buffer[i] < imu_buffer[j]
  BY PartsAssumptions, ImuFacts!IncreasingBuffer DEF ImuFacts!Increasing
<1> HIDE DEF first, end, batch
<1>7. n \in 1..BufferCapacity
  BY <1>3, <1>5
<1>8. batch = [i \in 1..n |-> imu_buffer[first + i - 1]]
  BY <1>2, <1>3, <1>5
<1>9. \A i \in 1..n : first + i - 1 \in 1..Len(imu_buffer) /\ first + i - 1 < end
                      /\ ~(first + i - 1 < first)
  BY <1>3, <1>5
<1>10. \A i \in 1..n : /\ batch[i] \in Times /\ batch[i] \in Nat
                       /\ left < batch[i] /\ batch[i] <= right
  <2> SUFFICES ASSUME NEW i \in 1..n
               PROVE  /\ batch[i] \in Times /\ batch[i] \in Nat
                      /\ left < batch[i] /\ batch[i] <= right
    OBVIOUS
  <2>1. PICK k \in 1..Len(imu_buffer) : k = first + i - 1
    BY <1>9
  <2>2. batch[i] = imu_buffer[k]
    BY <1>8, <2>1
  <2>3. k < end /\ ~(k < first)
    BY <1>9, <2>1
  <2> QED
    BY <1>4, <1>5, <2>2, <2>3
<1>11. \A i, j \in 1..n : i < j => batch[i] < batch[j]
  <2> SUFFICES ASSUME NEW i \in 1..n, NEW j \in 1..n, i < j PROVE batch[i] < batch[j]
    OBVIOUS
  <2>1. PICK k \in 1..Len(imu_buffer) : k = first + i - 1
    BY <1>9
  <2>2. PICK l \in 1..Len(imu_buffer) : l = first + j - 1
    BY <1>9
  <2>3. k < l /\ batch[i] = imu_buffer[k] /\ batch[j] = imu_buffer[l]
    BY <1>3, <1>8, <2>1, <2>2
  <2> QED
    BY <1>6, <2>3
<1>12. batch \in [1..n -> Times] /\ batch \in [1..n -> Nat]
  BY <1>8, <1>10
<1>13. batch \in Seq(Nat) /\ Len(batch) = n /\ batch # <<>>
  <2>1. n \in Nat /\ n # 0
    BY <1>5, <1>7
  <2> HIDE DEF n
  <2>2. batch \in Seq(Nat)
    BY <2>1, <1>12
  <2>3. DOMAIN batch = 1..n
    BY <1>12
  <2>4. Len(batch) = n
    BY <2>1, <2>2, <2>3, LenProperties
  <2> QED
    BY <2>1, <2>2, <2>4, EmptySeq
<1>14. batch \in Batches
  BY <1>7, <1>11, <1>12, CoordinatorAssumption
<1>15. first_timestamp # None /\ first_timestamp <= left
  <2>1. ImuFacts!Remembered /\ ImuFacts!Retained /\ ImuFacts!Increasing(arrived)
    BY Zenon DEF ImuFacts!IInv
  <2>2. arrived \in Seq(Nat) /\ Len(arrived) \in Nat
        /\ \A i \in 1..Len(arrived) : arrived[i] \in Nat
    <3>1. arrived \in Seq(Times)
      BY Zenon DEF ImuFacts!IInv, ImuFacts!TypeOK
    <3> QED
      BY <3>1, Constants, SeqMonotonic, LenProperties
  <2>3. Len(imu_buffer) \in Nat \ {0} /\ 1 \in 1..Len(imu_buffer)
    BY <1>3, <1>5
  <2>4. /\ Len(imu_buffer) <= Len(arrived)
        /\ imu_buffer[1] = arrived[ImuFacts!Dropped + 1]
    BY <2>1, <2>3 DEF ImuFacts!Retained
  <2>5. first_timestamp = arrived[1]
    <3>1. arrived # <<>>
      BY <2>2, <2>3, <2>4
    <3> QED
      BY <2>1, <3>1, Zenon DEF ImuFacts!Remembered
  <2>6. PICK d \in 1..Len(arrived) : d = ImuFacts!Dropped + 1
    BY <2>2, <2>3, <2>4 DEF ImuFacts!Dropped
  <2>7. 1 \in 1..Len(arrived)
    BY <2>2, <2>3, <2>4
  <2>8. arrived[1] <= arrived[d]
    <3>1. CASE d = 1
      BY <3>1, <2>2, <2>7
    <3>2. CASE d # 1
      BY <3>2, <2>1, <2>2, <2>7 DEF ImuFacts!Increasing
    <3> QED
      BY <3>1, <3>2
  <2>9. PICK x, y : x = arrived[1] /\ y = arrived[d]
    OBVIOUS
  <2>10. x \in Nat /\ y \in Nat /\ x <= y
    BY <2>2, <2>7, <2>8, <2>9
  <2>11. y <= left
    BY <1>3, <2>4, <2>6, <2>9
  <2>12. x <= left
    BY <1>5, <2>10, <2>11
  <2> QED
    BY <2>5, <2>9, <2>10, <2>12, Constants
<1> QED
  BY <1>7, <1>10, <1>11, <1>13, <1>14, <1>15 DEF batch

-----------------------------------------------------------------------------
(* Control, action by action: sampling                                      *)

\* Work that goes on as ready, with no wait left.
ReadyKeeps ==
    /\ ~tracking_failed /\ ~Calling /\ pc' = "ready" /\ imu_wait' = None
    /\ source' = source /\ UNCHANGED <<tracking_failed, failure, gate, receiving, processed_frames>>
    /\ tracking_work' # None /\ tracking_work'.stage = "Ready"

LEMMA ReadyControl == ASSUME ControlInv, ReadyKeeps PROVE ControlInv'
<1>1. ControlTypes' /\ Failures' /\ PermitsMatchCalls'
  <2>1. "ready" \in Labels \ {"backend", "commit"}
    BY DEF Labels
  <2>2. source' \in {"primary", "startup_next"} /\ imu_wait' \in (0..ImuWaitTimeout) \cup {None}
    BY Zenon DEF ReadyKeeps, ControlInv, ControlTypes
  <2> QED
    BY <2>1, <2>2, GotoKeeps, Zenon DEF ReadyKeeps
<1>2. Places'
  BY DEF ReadyKeeps, Places
<1>3. Waits'
  BY DEF ReadyKeeps, Waits
<1> QED
  BY <1>1, <1>2, <1>3 DEF ControlInv

LEMMA PrepareControl ==
    ASSUME ControlInv, SamplingInv, prepare_work PROVE ControlInv'
<1>1. pc = "sample" /\ UNCHANGED <<gate, adapter, receiving>>
  BY Zenon DEF prepare_work
<1>2. ~tracking_failed /\ ~Calling
  BY <1>1, WorkingMeans DEF Calling
<1>3. Fresh /\ Reserved /\ tracking_work # None
  BY <1>1, Zenon DEF ControlInv, Places, Reserved
<1>4. Queue!Unsampled
  BY <1>3, ReservedIsUnsampled
<1>5. QueueTypes
  BY Zenon DEF SamplingInv
<1>6. ASSUME Mode = "Stereo", Queue!make_ready(None), Goto("ready") PROVE ControlInv'
  <2>1. UNCHANGED processed_frames /\ tracking_work' # None /\ tracking_work'.stage = "Ready"
    BY <1>5, <1>6, MakeReadyMeans
  <2>2. imu_wait = None
    BY <1>6 DEF ControlInv, Waits
  <2>3. ReadyKeeps
    BY <1>1, <1>2, <1>6, <2>1, <2>2, GotoMeans, Zenon DEF ReadyKeeps
  <2> QED
    BY <2>3, ReadyControl
<1>7. ASSUME Mode = "StereoImu", sample_imu PROVE ControlInv'
  <2> DEFINE status == Imu!TakeStatus(Left, Right)
  <2>0. /\ Left \in Times /\ Right \in Times
        /\ Imu!QueryStatus(Left, Right) # "InvalidRequest"
        /\ ~Queue!startup => Imu!QueryStatus(Left, Right) # "MissingHistory"
    BY <1>4, <1>7, IntervalContinues
  <2>1. status = IF stop_requested THEN "Stopped" ELSE Imu!QueryStatus(Left, Right)
    BY Zenon DEF Imu!TakeStatus
  <2> HIDE DEF status
  <2>2. Waited \in 0..ImuWaitTimeout
    BY Constants DEF Waited, ControlInv, ControlTypes
  <2>3. ASSUME status = "Ready", Queue!make_ready(Imu!Batch(Left, Right)),
               imu_wait' = WaitAfterReady, pc' = "ready",
               UNCHANGED <<source, tracking_failed, failure>>
        PROVE  ControlInv'
    <3>1. Imu!QueryStatus(Left, Right) = "Ready"
      BY <2>1, <2>3
    <3>2. Imu!Batch(Left, Right) \in Batches \cup {None}
      BY <2>0, <3>1, GrantedBatch DEF SamplingInv
    <3>3. UNCHANGED processed_frames /\ tracking_work' # None /\ tracking_work'.stage = "Ready"
      BY <1>5, <2>3, <3>2, MakeReadyMeans
    <3>4. ReadyKeeps
      BY <1>1, <1>2, <2>3, <3>3, Zenon DEF ReadyKeeps, WaitAfterReady
    <3> QED
      BY <3>4, ReadyControl
  <2>4. ASSUME Goto("idle") \/ Goto("discard"), UNCHANGED queue PROVE ControlInv'
    <3>1. UNCHANGED <<tracking_work, startup_next_work, startup_complete, processed_frames>>
      BY <2>4, Zenon DEF queue
    <3>2. Fresh' /\ Reserved'
      BY <1>3, <3>1, Zenon DEF Fresh, Reserved, Queue!startup
    <3>3. PICK label \in {"idle", "discard"} : Goto(label)
      BY <2>4, Zenon
    <3>4. Onward(label)
      BY <1>1, <1>2, <1>3, <1>7, <3>1, <3>2, <3>3, GotoMeans DEF Onward
    <3> QED
      BY <3>4, OnwardKeeps
  <2>5. ASSUME pc' = "idle", imu_wait' = Waited,
               UNCHANGED <<source, tracking_failed, failure, queue>>
        PROVE  ControlInv'
    <3>1. UNCHANGED <<tracking_work, startup_next_work, startup_complete, processed_frames>>
      BY <2>5, Zenon DEF queue
    <3>2. Fresh'
      BY <1>3, <3>1, Zenon DEF Fresh
    <3>3. Onward("idle")
      BY <1>1, <1>2, <1>3, <1>7, <2>2, <2>5, <3>1, <3>2 DEF Onward, ControlInv, ControlTypes
    <3> QED
      BY <3>3, OnwardKeeps
  <2>6. ASSUME NEW reason \in {"Timeout", "SamplingError"}, Raise(reason, status), UNCHANGED queue,
               status \in {"WaitingForData", "BufferOverflow", "DataGap"}
        PROVE  ControlInv'
    <3>1. UNCHANGED <<tracking_work, processed_frames>>
      BY <2>6, Zenon DEF queue
    <3>2. reason \in Reasons /\ reason # "BackendError" /\ status \notin InternalErrors
      BY <2>6 DEF Reasons, InternalErrors
    <3> QED
      BY <1>1, <1>2, <2>6, <3>1, <3>2, RaiseKeeps
  <2>7. status # "InvalidRequest" /\ (status = "MissingHistory" => Queue!startup)
    BY <2>0, <2>1
  <2>8. \/ /\ status = "Ready"
           /\ Queue!make_ready(Imu!Batch(Left, Right))
           /\ imu_wait' = WaitAfterReady /\ pc' = "ready"
           /\ UNCHANGED <<source, tracking_failed, failure>>
        \/ Goto("idle") /\ UNCHANGED queue
        \/ /\ pc' = "idle" /\ imu_wait' = Waited
           /\ UNCHANGED <<source, tracking_failed, failure, queue>>
        \/ /\ status = "WaitingForData" /\ Raise("Timeout", status) /\ UNCHANGED queue
        \/ Goto("discard") /\ UNCHANGED queue
        \/ /\ status \in {"MissingHistory", "BufferOverflow", "DataGap", "InvalidRequest"}
           /\ ~(status = "MissingHistory" /\ Queue!startup)
           /\ Raise("SamplingError", status) /\ UNCHANGED queue
    BY <1>7, Zenon DEF sample_imu, status
  <2>9. ASSUME status \in {"MissingHistory", "BufferOverflow", "DataGap", "InvalidRequest"},
               ~(status = "MissingHistory" /\ Queue!startup)
        PROVE  status \in {"WaitingForData", "BufferOverflow", "DataGap"}
    BY <2>7, <2>9, Zenon
  <2>10. ASSUME status = "WaitingForData"
         PROVE  status \in {"WaitingForData", "BufferOverflow", "DataGap"}
    BY <2>10
  <2> QED
    BY <2>3, <2>4, <2>5, <2>6, <2>8, <2>9, <2>10, Zenon
<1> QED
  BY <1>4, <1>6, <1>7, Zenon DEF prepare_work

LEMMA DiscardControl ==
    ASSUME ControlInv, discard_startup_first PROVE ControlInv'
<1>1. pc = "discard" /\ UNCHANGED <<gate, imu, adapter, receiving>>
  BY Zenon DEF discard_startup_first, others
<1>2. ~tracking_failed /\ ~Calling
  BY <1>1, WorkingMeans DEF Calling
<1>3. Fresh
  BY <1>1 DEF ControlInv, Places
<1>4. /\ startup_next_work # None /\ tracking_work' = startup_next_work
      /\ startup_next_work' = None /\ UNCHANGED processed_frames
      /\ tracking_work # None
  BY Zenon DEF discard_startup_first, Queue!discard_startup_first
<1>5. ASSUME Goto("idle") PROVE ControlInv'
  <2>1. Fresh'
    BY <1>3, <1>4, Zenon DEF Fresh
  <2>2. imu_wait # None => Mode = "StereoImu"
    BY Zenon DEF ControlInv, Waits
  <2>3. Onward("idle")
    BY <1>1, <1>2, <1>4, <1>5, <2>1, <2>2, GotoMeans DEF Onward
  <2> QED
    BY <2>3, OnwardKeeps
<1>6. ASSUME Raise("CallbackError", "discard warning") PROVE ControlInv'
  <2>1. "CallbackError" \in Reasons /\ "discard warning" \notin InternalErrors
    BY DEF Reasons, InternalErrors
  <2> QED
    BY <1>1, <1>2, <1>4, <1>6, <2>1, RaiseKeeps
<1> QED
  BY <1>5, <1>6, Zenon DEF discard_startup_first

-----------------------------------------------------------------------------
(* Control, action by action: execution                                     *)

(* A callback may return at any place once the gate is closed.              *)
LEMMA RestKeeps ==
    ASSUME ControlInv, ~tracking_failed, ~Calling, Goto("idle"), stop_requested',
           UNCHANGED <<gate, receiving, processed_frames>>,
           imu_wait # None => tracking_work' # None
    PROVE  ControlInv'
<1>1. ControlTypes' /\ Failures' /\ PermitsMatchCalls'
  <2>1. "idle" \in Labels \ {"backend", "commit"}
    BY DEF Labels
  <2>2. /\ pc' = "idle" /\ UNCHANGED <<source, imu_wait, tracking_failed, failure>>
        /\ source' \in {"primary", "startup_next"}
        /\ imu_wait' \in (0..ImuWaitTimeout) \cup {None}
    BY GotoMeans
  <2> QED
    BY <2>1, <2>2, GotoKeeps, Zenon
<1>2. pc' = "idle" /\ imu_wait' = imu_wait
  BY GotoMeans
<1>3. Places'
  BY <1>2 DEF Places
<1>4. Waits'
  BY <1>2 DEF ControlInv, Waits
<1> QED
  BY <1>1, <1>3, <1>4 DEF ControlInv

LEMMA ExecuteControl ==
    ASSUME ControlInv, execute PROVE ControlInv'
<1>1. pc = "ready" /\ UNCHANGED <<queue, gate, imu, adapter, receiving>>
  BY Zenon DEF execute, others
<1>2. ~tracking_failed /\ ~Calling
  BY <1>1, WorkingMeans DEF Calling
<1>3. UNCHANGED <<tracking_work, startup_next_work, startup_complete, processed_frames>>
  BY <1>1, Zenon DEF queue
<1>4. imu_wait = None /\ tracking_work # None /\ tracking_work.stage = "Ready"
  BY <1>1 DEF ControlInv, Waits, Places
<1>5. CASE stop_requested
  <2>1. stop_requested' /\ Goto("idle")
    BY <1>1, <1>5, SameGate, Zenon DEF execute
  <2> QED
    BY <1>1, <1>2, <1>3, <1>4, <2>1, RestKeeps
<1>6. CASE ~stop_requested
  <2>1. /\ pc' = "permit" /\ source' = "primary" /\ imu_wait' = None
        /\ UNCHANGED <<tracking_failed, failure>>
    BY <1>4, <1>6, Zenon DEF execute
  <2>2. ControlTypes' /\ Failures' /\ PermitsMatchCalls'
    <3>1. "permit" \in Labels \ {"backend", "commit"}
      BY DEF Labels
    <3>2. source' \in {"primary", "startup_next"} /\ imu_wait' \in (0..ImuWaitTimeout) \cup {None}
      BY <2>1
    <3> QED
      BY <1>1, <1>2, <1>3, <2>1, <3>1, <3>2, GotoKeeps, Zenon
  <2>3. Places'
    BY <1>3, <1>4, <2>1 DEF Places, Work
  <2>4. Waits'
    BY <2>1 DEF Waits
  <2> QED
    BY <2>2, <2>3, <2>4 DEF ControlInv
<1> QED
  BY <1>5, <1>6

LEMMA NextControl ==
    ASSUME ControlInv, execute_startup_next PROVE ControlInv'
<1>1. pc = "next" /\ UNCHANGED <<queue, gate, imu, adapter, receiving>>
  BY Zenon DEF execute_startup_next, others
<1>2. ~tracking_failed /\ ~Calling
  BY <1>1, WorkingMeans DEF Calling
<1>3. UNCHANGED <<tracking_work, startup_next_work, startup_complete, processed_frames>>
  BY <1>1, Zenon DEF queue
<1>4. /\ imu_wait = None /\ tracking_work = None
      /\ startup_next_work # None /\ startup_next_work.stage = "Ready"
  BY <1>1 DEF ControlInv, Waits, Places
<1>5. CASE stop_requested
  <2>1. stop_requested' /\ Goto("idle")
    BY <1>1, <1>5, SameGate, Zenon DEF execute_startup_next
  <2> QED
    BY <1>1, <1>2, <1>3, <1>4, <2>1, RestKeeps
<1>6. CASE ~stop_requested
  <2>1. /\ pc' = "permit" /\ source' = "startup_next" /\ imu_wait' = None
        /\ UNCHANGED <<tracking_failed, failure>>
    BY <1>4, <1>6, Zenon DEF execute_startup_next
  <2>2. ControlTypes' /\ Failures' /\ PermitsMatchCalls'
    <3>1. "permit" \in Labels \ {"backend", "commit"}
      BY DEF Labels
    <3>2. source' \in {"primary", "startup_next"} /\ imu_wait' \in (0..ImuWaitTimeout) \cup {None}
      BY <2>1
    <3> QED
      BY <1>1, <1>2, <1>3, <2>1, <3>1, <3>2, GotoKeeps, Zenon
  <2>3. Places'
    BY <1>3, <1>4, <2>1 DEF Places, Work
  <2>4. Waits'
    BY <2>1 DEF Waits
  <2> QED
    BY <2>2, <2>3, <2>4 DEF ControlInv
<1> QED
  BY <1>5, <1>6

(* A call begins: the permit is counted, and the work is executing.         *)
LEMMA BeginMeans ==
    ASSUME QueueTypes,
           IF source = "primary" THEN Queue!begin_primary ELSE Queue!begin_startup_next
    PROVE  /\ Work # None /\ Work.stage = "Ready"
           /\ source = "startup_next" => tracking_work = None
           /\ source = "primary" =>
                 /\ tracking_work' # None /\ tracking_work'.stage = "Executing"
                 /\ tracking_work'.pending = tracking_work.pending
                 /\ tracking_work'.imu_batch = tracking_work.imu_batch
                 /\ startup_next_work' = startup_next_work
           /\ source # "primary" =>
                 /\ startup_next_work' # None /\ startup_next_work'.stage = "Executing"
                 /\ startup_next_work'.pending = startup_next_work.pending
                 /\ startup_next_work'.imu_batch = startup_next_work.imu_batch
                 /\ tracking_work' = None /\ tracking_work = None
           /\ UNCHANGED <<pending_frames, last_received_frame_timestamp, startup_complete,
                          last_tracked_frame_timestamp, processed_frames, log>>
<1>1. ASSUME NEW work \in Queue!TrackingWork, NEW next, next = [work EXCEPT !.stage = "Executing"]
      PROVE  /\ next # None /\ next.stage = "Executing"
             /\ next.pending = work.pending /\ next.imu_batch = work.imu_batch
  <2>1. /\ next \in Queue!TrackingWork /\ next.stage = "Executing"
        /\ next.pending = work.pending /\ next.imu_batch = work.imu_batch
    BY <1>1 DEF Queue!TrackingWork, Queue!Stages
  <2> QED
    BY <2>1, Constants, Zenon
<1>2. CASE source = "primary"
  <2>1. Queue!begin_primary
    BY <1>2
  <2>2. /\ tracking_work # None /\ tracking_work.stage = "Ready"
        /\ tracking_work' = [tracking_work EXCEPT !.stage = "Executing"]
        /\ startup_next_work' = startup_next_work
        /\ UNCHANGED <<pending_frames, last_received_frame_timestamp, startup_complete,
                       last_tracked_frame_timestamp, processed_frames, log>>
    BY <2>1, Zenon DEF Queue!begin_primary, Queue!timestamps, Queue!counters
  <2>3. tracking_work \in Queue!TrackingWork
    BY <2>2 DEF QueueTypes
  <2> QED
    BY <1>1, <1>2, <2>2, <2>3 DEF Work
<1>3. CASE source # "primary"
  <2>1. Queue!begin_startup_next
    BY <1>3
  <2>2. /\ tracking_work = None /\ tracking_work' = tracking_work
        /\ startup_next_work # None /\ startup_next_work.stage = "Ready"
        /\ startup_next_work' = [startup_next_work EXCEPT !.stage = "Executing"]
        /\ UNCHANGED <<pending_frames, last_received_frame_timestamp, startup_complete,
                       last_tracked_frame_timestamp, processed_frames, log>>
    BY <2>1, Zenon DEF Queue!begin_startup_next, Queue!timestamps, Queue!counters
  <2>3. startup_next_work \in Queue!TrackingWork
    BY <2>2 DEF QueueTypes
  <2> QED
    BY <1>1, <1>3, <2>2, <2>3 DEF Work
<1> QED
  BY <1>2, <1>3

LEMMA PermitControl ==
    ASSUME ControlInv, QueueTypes, permit PROVE ControlInv'
<1>1. pc = "permit" /\ UNCHANGED <<imu, adapter, receiving>>
  BY Zenon DEF permit
<1>2. ~tracking_failed /\ ~Calling
  BY <1>1, WorkingMeans DEF Calling
<1>3. Work.stage = "Ready" /\ imu_wait = None
  BY <1>1 DEF ControlInv, Places, Waits
<1>4. ASSUME permit_refused PROVE ControlInv'
  <2>1. stop_requested /\ UNCHANGED Stop!control /\ Goto("idle") /\ UNCHANGED queue
    BY <1>4, Zenon DEF permit_refused, Stop!refuse_backend
  <2>2. UNCHANGED <<gate, processed_frames>> /\ stop_requested'
    BY <2>1, Zenon DEF gate, queue, Stop!control
  <2> QED
    BY <1>1, <1>2, <1>3, <2>1, <2>2, RestKeeps
<1>5. ASSUME Stop!begin_backend, Goto("backend"),
             IF source = "primary" THEN Queue!begin_primary ELSE Queue!begin_startup_next
      PROVE  ControlInv'
  <2>1. /\ backend_starts' = backend_starts + 1 /\ (stop_requested' <=> stop_requested)
        /\ UNCHANGED <<first_stop, first_failure, first_exception, cleanup_failed>>
    BY <1>5, Zenon DEF Stop!begin_backend
  <2>2. Stop!TypeOK'
    <3>1. backend_starts' \in Nat
      BY <2>1 DEF ControlInv, ControlTypes, Stop!TypeOK
    <3>2. stop_requested' \in BOOLEAN
      BY <1>5, Zenon DEF Stop!begin_backend, ControlInv, ControlTypes, Stop!TypeOK
    <3> QED
      BY <2>1, <3>1, <3>2, Zenon DEF ControlInv, ControlTypes, Stop!TypeOK
  <2>3. /\ pc' = "backend" /\ UNCHANGED <<source, imu_wait, tracking_failed, failure>>
        /\ source' \in {"primary", "startup_next"}
        /\ imu_wait' \in (0..ImuWaitTimeout) \cup {None}
    BY <1>5, GotoMeans
  <2>4. ControlTypes' /\ Failures'
    <3>1. pc' \in Labels
      BY <2>3 DEF Labels
    <3> QED
      BY <1>1, <1>2, <2>2, <2>3, <3>1, GoOn, Zenon
  <2>5. Places'
    <3>1. /\ Work' # None /\ Work'.stage = "Executing"
          /\ source' = "startup_next" => tracking_work' = None
      BY <1>5, <2>3, BeginMeans DEF Work
    <3> QED
      BY <2>3, <3>1 DEF Places
  <2>6. Waits'
    BY <1>3, <2>3 DEF Waits
  <2>7. PermitsMatchCalls'
    <3>1. processed_frames' = processed_frames
      BY <1>5, BeginMeans
    <3>2. Calling' /\ ~Calling /\ ~BackendFailed
      BY <1>2, <2>3 DEF Calling, BackendFailed
    <3>3. backend_starts = processed_frames + 0
      BY <3>2, Zenon DEF ControlInv, PermitsMatchCalls
    <3>4. processed_frames \in Nat
      BY DEF QueueTypes
    <3>5. backend_starts' = processed_frames' + 1
      BY <2>1, <3>1, <3>3, <3>4
    <3> QED
      BY <3>2, <3>5, Zenon DEF PermitsMatchCalls
  <2> QED
    BY <2>4, <2>5, <2>6, <2>7 DEF ControlInv
<1> QED
  BY <1>3, <1>4, <1>5, Zenon DEF permit

-----------------------------------------------------------------------------
(* Control, action by action: the call and its completion                   *)

(* Whatever the coordinator sends upstream, the adapter accepts.            *)
LEMMA AdapterAccepts ==
    ASSUME ControlInv, SamplingInv, FrameInv, pc = "backend"
    PROVE  Adapter!Accepts(Work.pending.timestamp, WorkBatch)
<1> DEFINE timestamp == Work.pending.timestamp
<1>1. /\ Work # None /\ Work.stage = "Executing" /\ ~tracking_failed
      /\ source = "startup_next" => tracking_work = None
  BY WorkingMeans DEF ControlInv, Places
<1>2. source \in {"primary", "startup_next"} /\ (tracking_work # None \/ startup_next_work # None)
  BY <1>1, Zenon DEF ControlInv, ControlTypes, Work
<1>3. Work \in Queue!TrackingWork
  BY <1>1, Zenon DEF SamplingInv, QueueTypes, Work
<1>4. timestamp \in Nat
  BY <1>3, WorkFields
<1>5. last_frame_timestamp # None => last_frame_timestamp < timestamp /\ log # <<>>
  <2>1. pc # "commit"
    OBVIOUS
  <2> QED
    BY <1>1, <2>1, Zenon DEF FrameInv, Untracked, Work
<1>6. ASSUME Mode = "StereoImu" PROVE Adapter!ImuAccepted(timestamp, WorkBatch)
  <2>1. CASE Work.imu_batch = None
    <3>1. WorkBatch = <<>>
      BY <2>1, Zenon DEF WorkBatch
    <3>2. Len(WorkBatch) = 0
      BY <3>1, EmptySeq
    <3>3. last_frame_timestamp = None
      <4>1. CASE source = "primary"
        <5>1. tracking_work # None /\ tracking_work.imu_batch = None
              /\ tracking_work.stage # "Reserved"
          BY <1>1, <2>1, <4>1 DEF Work
        <5>2. Queue!startup
          BY <1>6, <5>1, Zenon DEF SamplingInv, SampleInv, BatchPlaces, Queue!startup
        <5>3. log = <<>>
          BY <5>1, <5>2, Zenon DEF SamplingInv, PairShape
        <5> QED
          BY <1>5, <5>3
      <4>2. CASE source # "primary"
        <5>1. startup_next_work # None /\ startup_next_work.imu_batch = None
              /\ startup_next_work.stage # "Reserved"
          BY <1>1, <2>1, <4>2 DEF Work
        <5> QED
          BY <5>1, Zenon DEF SamplingInv, PairShape
      <4> QED
        BY <4>1, <4>2
    <3> QED
      BY <3>2, <3>3 DEF Adapter!ImuAccepted
  <2>2. CASE Work.imu_batch # None
    <3>1. WorkBatch = Work.imu_batch
      BY <2>2, Zenon DEF WorkBatch
    <3>2. BatchInOrder(Work)
      BY Zenon DEF SamplingInv, SampleInv, Work
    <3>3. /\ WorkBatch \in Seq(Nat) /\ WorkBatch # <<>>
          /\ \A i, j \in 1..Len(WorkBatch) : i < j => WorkBatch[i] < WorkBatch[j]
          /\ \A i \in 1..Len(WorkBatch) : WorkBatch[i] <= timestamp
      BY <1>1, <2>2, <3>1, <3>2, Zenon DEF BatchInOrder
    <3>4. last_imu_timestamp # None =>
             \A i \in 1..Len(WorkBatch) : last_imu_timestamp < WorkBatch[i]
      <4>1. pc # "commit"
        OBVIOUS
      <4>2. Unsent(Work, source)
        BY <1>2, Zenon DEF SamplingInv, SampleInv, Work
      <4> QED
        BY <1>1, <2>2, <3>1, <4>1, <4>2, Zenon DEF Unsent
    <3> HIDE DEF timestamp
    <3>5. ASSUME NEW i \in 1..Len(WorkBatch)
          PROVE  /\ WorkBatch[i] <= timestamp
                 /\ IF i = 1 THEN last_imu_timestamp # None => last_imu_timestamp < WorkBatch[1]
                             ELSE WorkBatch[i - 1] < WorkBatch[i]
      <4>1. CASE i = 1
        BY <3>3, <3>4, <4>1
      <4>2. CASE i # 1
        <5>1. Len(WorkBatch) \in Nat
          BY <3>3, LenProperties
        <5>2. i - 1 \in 1..Len(WorkBatch) /\ i - 1 < i
          BY <4>2, <5>1
        <5> QED
          BY <3>3, <4>2, <5>2
      <4> QED
        BY <4>1, <4>2
    <3> QED
      BY <3>3, <3>5 DEF Adapter!ImuAccepted
  <2> QED
    BY <2>1, <2>2
<1> QED
  BY <1>5, <1>6 DEF Adapter!Accepts

LEMMA BackendControl ==
    ASSUME ControlInv, SamplingInv, FrameInv, backend PROVE ControlInv'
<1>1. pc = "backend" /\ UNCHANGED <<queue, gate, imu, receiving>>
  BY Zenon DEF backend
<1>2. ~tracking_failed /\ Calling /\ imu_wait = None
  BY <1>1, WorkingMeans DEF Calling, ControlInv, Waits
<1>3. UNCHANGED <<tracking_work, startup_next_work, startup_complete, processed_frames>>
  BY <1>1, Zenon DEF queue
<1>4. Stop!TypeOK' /\ backend_starts' = backend_starts
  BY <1>1, SameGate, Zenon DEF ControlInv, ControlTypes
<1>5. ASSUME Goto("commit") PROVE ControlInv'
  <2>1. /\ pc' = "commit" /\ UNCHANGED <<source, imu_wait, tracking_failed, failure>>
        /\ source' \in {"primary", "startup_next"}
        /\ imu_wait' \in (0..ImuWaitTimeout) \cup {None}
    BY <1>5, GotoMeans
  <2>2. ControlTypes' /\ Failures'
    <3>1. pc' \in Labels
      BY <2>1 DEF Labels
    <3> QED
      BY <1>1, <1>2, <1>4, <2>1, <3>1, GoOn, Zenon
  <2>3. Places'
    <3>1. Work # None /\ Work.stage = "Executing" /\ (source = "startup_next" => tracking_work = None)
      BY <1>1 DEF ControlInv, Places
    <3>2. Work' = Work
      BY <1>3, <2>1, Zenon DEF Work
    <3> QED
      BY <1>3, <2>1, <3>1, <3>2 DEF Places
  <2>4. Waits'
    BY <1>2, <2>1 DEF Waits
  <2>5. PermitsMatchCalls'
    <3>1. Calling'
      BY <2>1 DEF Calling
    <3> QED
      BY <1>2, <1>3, <1>4, <3>1, PermitsKept, Zenon
  <2> QED
    BY <2>2, <2>3, <2>4, <2>5 DEF ControlInv
<1>6. ASSUME Raise("BackendError", "upstream") PROVE ControlInv'
  <2>1. /\ pc' = "failing" /\ tracking_failed' = TRUE /\ source' = source /\ imu_wait' = imu_wait
        /\ failure' = [reason |-> "BackendError", cause |-> "upstream"]
    BY <1>6, Zenon DEF Raise
  <2>2. failure'.reason = "BackendError" /\ failure'.cause = "upstream"
    BY <2>1
  <2>3. "BackendError" \in Reasons /\ "upstream" \notin InternalErrors
    BY DEF Reasons, InternalErrors
  <2>4. ControlTypes'
    BY <1>1, <1>4, <2>1, <2>2, <2>3, Zenon DEF ControlInv, ControlTypes, receiving
  <2>5. Places' /\ Waits'
    BY <1>2, <2>1 DEF Places, Waits
  <2>6. Failures'
    BY <2>1, <2>2, <2>3, Zenon DEF Failures, FailuresStopTheProcess, NoInternalError
  <2>7. PermitsMatchCalls'
    <3>1. BackendFailed'
      BY <2>1, <2>2 DEF BackendFailed
    <3> QED
      BY <1>2, <1>3, <1>4, <3>1, PermitsKept, Zenon
  <2> QED
    BY <2>4, <2>5, <2>6, <2>7 DEF ControlInv
<1> QED
  BY <1>1, <1>5, <1>6, AdapterAccepts, Zenon DEF backend

(* A completion removes the work that executed.                             *)
LEMMA CompleteMeans ==
    ASSUME QueueTypes,
           IF source = "primary" THEN Queue!complete_primary ELSE Queue!complete_startup_next
    PROVE  /\ Work # None /\ Work.stage = "Executing"
           /\ processed_frames' = processed_frames + 1
           /\ log' = Append(log, Work.pending.enqueue_sequence)
           /\ last_tracked_frame_timestamp' = IF Mode = "StereoImu" THEN Work.pending.timestamp
                                              ELSE last_tracked_frame_timestamp
           /\ UNCHANGED <<pending_frames, last_received_frame_timestamp>>
           /\ source = "primary" =>
                 /\ tracking_work' = None /\ UNCHANGED <<startup_next_work, startup_complete>>
           /\ source # "primary" =>
                 /\ startup_next_work' = None /\ startup_complete' = TRUE /\ UNCHANGED tracking_work
BY Zenon DEF Queue!complete_primary, Queue!complete_startup_next, Queue!Complete, Work

LEMMA CommitControl ==
    ASSUME ControlInv, QueueTypes, PairShape, commit PROVE ControlInv'
<1>1. pc = "commit" /\ UNCHANGED <<gate, imu, adapter, receiving>>
  BY Zenon DEF commit, others
<1>2. ~tracking_failed /\ Calling /\ imu_wait = None
  BY <1>1, WorkingMeans DEF Calling, ControlInv, Waits
<1>3. /\ pc' = "notify" /\ UNCHANGED <<source, imu_wait, tracking_failed, failure>>
      /\ source' \in {"primary", "startup_next"}
      /\ imu_wait' \in (0..ImuWaitTimeout) \cup {None}
  <2>1. Goto("notify")
    BY Zenon DEF commit
  <2> QED
    BY <2>1, GotoMeans
<1>4. Stop!TypeOK' /\ backend_starts' = backend_starts
  BY <1>1, SameGate, Zenon DEF ControlInv, ControlTypes
<1>5. IF source = "primary" THEN Queue!complete_primary ELSE Queue!complete_startup_next
  BY Zenon DEF commit
<1>6. ControlTypes' /\ Failures'
  <2>1. pc' \in Labels
    BY <1>3 DEF Labels
  <2> QED
    BY <1>1, <1>2, <1>3, <1>4, <2>1, GoOn, Zenon
<1>7. Work # None /\ Work.stage = "Executing" /\ (source = "startup_next" => tracking_work = None)
  BY <1>1 DEF ControlInv, Places
<1>8. Places'
  <2>1. CASE source = "primary"
    <3>1. tracking_work' = None /\ UNCHANGED <<startup_next_work, startup_complete>>
      BY <1>5, <2>1, CompleteMeans
    <3>2. tracking_work # None /\ tracking_work.stage # "Reserved"
      BY <1>7, <2>1 DEF Work
    <3>3. Queue!startup => startup_next_work # None /\ startup_next_work.stage = "Ready"
      BY <3>2, Zenon DEF PairShape
    <3>4. ~Queue!startup => startup_next_work = None
      BY Zenon DEF PairShape
    <3>5. Queue!startup' <=> Queue!startup
      BY <3>1, Zenon DEF Queue!startup
    <3> QED
      BY <1>3, <2>1, <3>1, <3>3, <3>4, <3>5 DEF Places
  <2>2. CASE source # "primary"
    <3>1. /\ tracking_work' = None /\ startup_next_work' = None
          /\ source' # "primary"
      BY <1>3, <1>5, <1>7, <2>2, CompleteMeans DEF ControlInv, ControlTypes
    <3> QED
      BY <1>3, <3>1 DEF Places
  <2> QED
    BY <2>1, <2>2
<1>9. Waits'
  BY <1>2, <1>3 DEF Waits
<1>10. PermitsMatchCalls'
  <2>1. processed_frames' = processed_frames + 1 /\ processed_frames \in Nat
    BY <1>5, CompleteMeans DEF QueueTypes
  <2>2. backend_starts = processed_frames + 1
    BY <1>2, Zenon DEF ControlInv, PermitsMatchCalls
  <2>3. ~Calling' /\ ~BackendFailed'
    BY <1>2, <1>3 DEF Calling, BackendFailed
  <2>4. backend_starts' = processed_frames' + 0
    BY <1>4, <2>1, <2>2
  <2> QED
    BY <2>3, <2>4, Zenon DEF PermitsMatchCalls
<1> QED
  BY <1>6, <1>8, <1>9, <1>10 DEF ControlInv

LEMMA NotifyControl ==
    ASSUME ControlInv, notify PROVE ControlInv'
<1>1. pc = "notify" /\ UNCHANGED <<queue, gate, imu, adapter, receiving>>
  BY Zenon DEF notify, others
<1>2. ~tracking_failed /\ ~Calling
  BY <1>1, WorkingMeans DEF Calling
<1>3. UNCHANGED <<tracking_work, startup_next_work, startup_complete, processed_frames>>
  BY <1>1, Zenon DEF queue
<1>4. /\ imu_wait = None /\ tracking_work = None
      /\ IF source = "primary" /\ Queue!startup
         THEN startup_next_work # None /\ startup_next_work.stage = "Ready"
         ELSE startup_next_work = None
  BY <1>1 DEF ControlInv, Waits, Places
<1>5. ASSUME Raise("CallbackError", "notification") PROVE ControlInv'
  <2>1. "CallbackError" \in Reasons /\ "notification" \notin InternalErrors
    BY DEF Reasons, InternalErrors
  <2> QED
    BY <1>1, <1>2, <1>3, <1>5, <2>1, RaiseKeeps
<1>6. ASSUME Goto(IF source = "primary" /\ Queue!startup THEN "next" ELSE "idle")
      PROVE  ControlInv'
  <2>1. PICK label \in {"next", "idle"} :
           /\ Goto(label)
           /\ label = "next" <=> source = "primary" /\ Queue!startup
    BY <1>6
  <2>2. /\ pc' = label /\ UNCHANGED <<source, imu_wait, tracking_failed, failure>>
        /\ source' \in {"primary", "startup_next"}
        /\ imu_wait' \in (0..ImuWaitTimeout) \cup {None}
    BY <2>1, GotoMeans
  <2>3. ControlTypes' /\ Failures' /\ PermitsMatchCalls'
    <3>1. label \in Labels \ {"backend", "commit"}
      BY DEF Labels
    <3> QED
      BY <1>1, <1>2, <1>3, <2>2, <3>1, GotoKeeps, Zenon
  <2>4. Places'
    <3>1. CASE label = "next"
      BY <1>3, <1>4, <2>1, <2>2, <3>1 DEF Places
    <3>2. CASE label = "idle"
      <4>1. tracking_work' = None /\ startup_next_work' = None
        BY <1>3, <1>4, <2>1, <3>2
      <4> QED
        BY <2>2, <3>2, <4>1 DEF Places, Fresh
    <3> QED
      BY <3>1, <3>2
  <2>5. Waits'
    BY <1>4, <2>2 DEF Waits
  <2> QED
    BY <2>3, <2>4, <2>5 DEF ControlInv
<1> QED
  BY <1>5, <1>6, Zenon DEF notify

LEMMA FailureControl ==
    ASSUME ControlInv, tracking_failure PROVE ControlInv'
<1>1. pc = "failing" /\ UNCHANGED <<queue, imu, adapter, receiving>>
  BY Zenon DEF tracking_failure
<1>2. tracking_failed /\ failure.reason \in Reasons /\ Stop!TypeOK
  BY <1>1 DEF ControlInv, Failures, ControlTypes
<1>3. /\ Stop!TypeOK' /\ stop_requested' /\ first_failure' # None
      /\ backend_starts' = backend_starts
  <2>1. Stop!record_failure(failure.reason, TRUE, FALSE)
    BY Zenon DEF tracking_failure
  <2> QED
    BY <1>2, <2>1, RecordMeans
<1>4. UNCHANGED <<tracking_work, startup_next_work, startup_complete, processed_frames>>
  BY <1>1, Zenon DEF queue
<1>5. /\ pc' = "idle" /\ UNCHANGED <<source, imu_wait, tracking_failed, failure>>
      /\ source' \in {"primary", "startup_next"}
      /\ imu_wait' \in (0..ImuWaitTimeout) \cup {None}
  <2>1. Goto("idle")
    BY Zenon DEF tracking_failure
  <2> QED
    BY <2>1, GotoMeans
<1>6. ControlTypes'
  BY <1>1, <1>3, <1>5, Zenon DEF ControlInv, ControlTypes, receiving
<1>7. Places'
  BY <1>3, <1>5 DEF Places
<1>8. Waits'
  BY <1>4, <1>5 DEF ControlInv, Waits
<1>9. Failures'
  BY <1>3, <1>5 DEF ControlInv, Failures, FailuresStopTheProcess, NoInternalError
<1>10. PermitsMatchCalls'
  <2>1. ~Calling /\ ~Calling'
    BY <1>1, <1>5 DEF Calling
  <2>2. BackendFailed' <=> BackendFailed
    BY <1>5, Zenon DEF BackendFailed
  <2> QED
    BY <1>3, <1>4, <2>1, <2>2, PermitsKept, Zenon
<1> QED
  BY <1>6, <1>7, <1>8, <1>9, <1>10 DEF ControlInv

-----------------------------------------------------------------------------
(* Control: the other threads, and every step                               *)

\* The steps of the reception thread and of the stop sources.
Reception ==
    \/ \E timestamp \in FrameTimes \cup {Invalid} : begin_enqueue(timestamp)
    \/ finish_enqueue
    \/ reception_failure
    \/ \E m \in ImuInputs : imu_callback(m)
    \/ external_stop

(* They change the queue only by an admission, the gate only by closing it, *)
(* and the adapter and the tracking thread not at all.                      *)
LEMMA AdmissionMeans ==
    ASSUME NEW timestamp,
           Queue!admit(timestamp) \/ Queue!discard_incoming(timestamp)
    PROVE  /\ UNCHANGED <<tracking_work, startup_next_work, startup_complete,
                          last_tracked_frame_timestamp, processed_frames, log>>
           /\ ~Queue!Stale(timestamp)
           /\ last_received_frame_timestamp' = timestamp
BY Zenon DEF Queue!admit, Queue!discard_incoming

LEMMA ReceptionMeans ==
    ASSUME ControlInv, Reception
    PROVE  /\ Stop!TypeOK' /\ (stop_requested => stop_requested')
           /\ first_failure # None => first_failure' # None
           /\ UNCHANGED <<backend_starts, processed_frames, tracking_work, startup_next_work,
                          startup_complete, last_tracked_frame_timestamp, log, tracking, adapter>>
           /\ reception' \in {"idle", "admitting", "failing"}
           /\ incoming' \in (IF reception' = "admitting" THEN FrameTimes ELSE {None})
           /\ \/ UNCHANGED <<pending_frames, last_received_frame_timestamp>>
              \/ \E t \in FrameTimes : Queue!admit(t) \/ Queue!discard_incoming(t)
<1>1. /\ Stop!TypeOK /\ reception \in {"idle", "admitting", "failing"}
      /\ incoming \in (IF reception = "admitting" THEN FrameTimes ELSE {None})
  BY Zenon DEF ControlInv, ControlTypes
<1>2. ASSUME UNCHANGED queue
      PROVE  UNCHANGED <<processed_frames, tracking_work, startup_next_work, startup_complete,
                         last_tracked_frame_timestamp, log, pending_frames,
                         last_received_frame_timestamp>>
  BY <1>2, Zenon DEF queue
<1>3. ASSUME UNCHANGED gate
      PROVE  /\ Stop!TypeOK' /\ (stop_requested => stop_requested')
             /\ first_failure # None => first_failure' # None
             /\ backend_starts' = backend_starts
  BY <1>1, <1>3, SameGate
<1>4. ASSUME NEW timestamp \in FrameTimes \cup {Invalid}, begin_enqueue(timestamp)
      PROVE  /\ UNCHANGED <<queue, gate, adapter, tracking>>
             /\ reception' \in {"idle", "admitting", "failing"}
             /\ incoming' \in (IF reception' = "admitting" THEN FrameTimes ELSE {None})
  <2>1. /\ UNCHANGED <<queue, gate, adapter, tracking>>
        /\ reception' = IF Admissible(timestamp) THEN "admitting" ELSE "failing"
        /\ incoming' = IF Admissible(timestamp) THEN timestamp ELSE None
    BY <1>4, Zenon DEF begin_enqueue
  <2>2. Admissible(timestamp) => timestamp \in FrameTimes
    BY DEF Admissible
  <2> QED
    BY <2>1, <2>2
<1>5. ASSUME finish_enqueue
      PROVE  /\ UNCHANGED <<gate, adapter, tracking>>
             /\ reception' \in {"idle", "failing"} /\ incoming' = None
             /\ incoming \in FrameTimes
             /\ UNCHANGED queue \/ Queue!admit(incoming) \/ Queue!discard_incoming(incoming)
  <2>1. reception = "admitting"
    BY <1>5, Zenon DEF finish_enqueue
  <2> QED
    BY <1>1, <1>5, <2>1, Zenon DEF finish_enqueue
<1>6. ASSUME reception_failure
      PROVE  /\ UNCHANGED <<queue, adapter, tracking, incoming>>
             /\ reception = "failing" /\ reception' = "idle"
             /\ Stop!record_failure("CallbackError", TRUE, FALSE)
  BY <1>6, Zenon DEF reception_failure
<1>7. ASSUME NEW m \in ImuInputs, imu_callback(m)
      PROVE  UNCHANGED <<queue, gate, adapter, tracking, receiving>>
  BY <1>7, Zenon DEF imu_callback
<1>8. ASSUME external_stop
      PROVE  /\ UNCHANGED <<queue, adapter, tracking, receiving>>
             /\ ~stop_requested
             /\ Stop!request_stop("Signal") \/ Stop!record_failure("CallbackError", TRUE, FALSE)
  BY <1>8, Zenon DEF external_stop
<1>9. "Signal" \in Reasons /\ "CallbackError" \in Reasons
  BY DEF Reasons
<1>10. ASSUME Stop!record_failure("CallbackError", TRUE, FALSE) \/ Stop!request_stop("Signal")
       PROVE  /\ Stop!TypeOK' /\ (stop_requested => stop_requested')
              /\ first_failure # None => first_failure' # None
              /\ backend_starts' = backend_starts
  BY <1>1, <1>9, <1>10, RecordMeans, RequestMeans
<1>11. CASE \E timestamp \in FrameTimes \cup {Invalid} : begin_enqueue(timestamp)
  BY <1>2, <1>3, <1>4, <1>11, Zenon
<1>12. CASE finish_enqueue
  <2>1. CASE UNCHANGED queue
    BY <1>2, <1>3, <1>5, <1>12, <2>1
  <2>2. CASE Queue!admit(incoming) \/ Queue!discard_incoming(incoming)
    BY <1>3, <1>5, <1>12, <2>2, AdmissionMeans
  <2> QED
    BY <1>5, <1>12, <2>1, <2>2
<1>13. CASE reception_failure
  <2>1. incoming' \in (IF reception' = "admitting" THEN FrameTimes ELSE {None})
    BY <1>1, <1>6, <1>13
  <2> QED
    BY <1>2, <1>6, <1>10, <1>13, <2>1
<1>14. CASE \E m \in ImuInputs : imu_callback(m)
  <2>1. UNCHANGED <<queue, gate, adapter, tracking, receiving>>
    BY <1>7, <1>14
  <2> QED
    BY <1>1, <1>2, <1>3, <2>1, Zenon DEF receiving
<1>15. CASE external_stop
  <2>1. UNCHANGED <<reception, incoming>>
    BY <1>8, <1>15, Zenon DEF receiving
  <2> QED
    BY <1>1, <1>2, <1>8, <1>10, <1>15, <2>1, Zenon
<1> QED
  BY <1>11, <1>12, <1>13, <1>14, <1>15 DEF Reception

LEMMA TickControl ==
    ASSUME ControlInv, tick PROVE ControlInv'
<1>1. /\ imu_wait # None /\ imu_wait < ImuWaitTimeout /\ imu_wait' = imu_wait + 1
      /\ UNCHANGED <<queue, gate, imu, adapter, receiving, pc, source, tracking_failed, failure>>
  BY Zenon DEF tick, others
<1>2. imu_wait' \in 0..ImuWaitTimeout
  BY <1>1, Constants DEF ControlInv, ControlTypes
<1>3. UNCHANGED <<tracking_work, startup_next_work, startup_complete, processed_frames,
                  reception, incoming>>
  BY <1>1, Zenon DEF queue, receiving
<1>4. Stop!TypeOK' /\ (stop_requested' <=> stop_requested) /\ first_failure' = first_failure
      /\ backend_starts' = backend_starts
  BY <1>1, SameGate, Zenon DEF ControlInv, ControlTypes
<1>5. ControlTypes'
  BY <1>1, <1>2, <1>3, <1>4, Zenon DEF ControlInv, ControlTypes
<1>6. Places'
  BY <1>1, <1>3, <1>4, Zenon DEF ControlInv, Places, Fresh, Reserved, Work, Queue!startup
<1>7. Waits'
  BY <1>1, <1>3, Zenon DEF ControlInv, Waits
<1>8. Failures'
  BY <1>1, <1>4, Zenon DEF ControlInv, Failures, FailuresStopTheProcess, NoInternalError
<1>9. PermitsMatchCalls'
  BY <1>1, <1>3, <1>4, PermitsKept, Zenon DEF Calling, BackendFailed
<1> QED
  BY <1>5, <1>6, <1>7, <1>8, <1>9 DEF ControlInv

LEMMA NextSplits == Next <=> Reception \/ Tracking \/ tick
BY Zenon DEF Next, Reception

LEMMA ControlStep ==
    ASSUME ControlInv, SamplingInv, FrameInv, QueueTypes', Next PROVE ControlInv'
<1>1. CASE Reception
  BY <1>1, ReceptionMeans, OthersKeepControl, Zenon
<1>2. CASE tick
  BY <1>2, TickControl
<1>3. CASE Tracking
  <2>1. QueueTypes /\ PairShape
    BY Zenon DEF SamplingInv
  <2> QED
    BY <1>3, <2>1, PollControl, TimelineControl, AcquireControl, PrepareControl, DiscardControl,
       ExecuteControl, PermitControl, BackendControl, CommitControl, NotifyControl, NextControl,
       FailureControl, Zenon DEF Tracking
<1> QED
  BY <1>1, <1>2, <1>3, NextSplits

LEMMA ControlStutter ==
    ASSUME ControlInv, UNCHANGED vars PROVE ControlInv'
<1>1. UNCHANGED <<queue, gate, tracking, receiving>>
  BY Zenon DEF vars
<1>2. UNCHANGED <<processed_frames, tracking_work, startup_next_work, startup_complete,
                  reception, incoming>>
  BY <1>1, Zenon DEF queue, receiving
<1>3. Stop!TypeOK' /\ (stop_requested' <=> stop_requested) /\ first_failure' = first_failure
      /\ backend_starts' = backend_starts
  BY <1>1, SameGate, Zenon DEF ControlInv, ControlTypes
<1>4. /\ reception' \in {"idle", "admitting", "failing"}
      /\ incoming' \in (IF reception' = "admitting" THEN FrameTimes ELSE {None})
  BY <1>2, Zenon DEF ControlInv, ControlTypes
<1> QED
  BY <1>1, <1>2, <1>3, <1>4, OthersKeepControl, Zenon

-----------------------------------------------------------------------------
(* Every step is a step of the queue and a step of the IMU frontend.        *)

LEMMA SamplingMeans ==
    ASSUME SamplingInv, sample_imu, Queue!Unsampled
    PROVE  /\ Mode = "StereoImu" =>
                 /\ Left \in Times /\ Right \in Times
                 /\ Imu!takeMeasurements(Left, Right)
           /\ Mode = "StereoImu" /\ Imu!TakeStatus(Left, Right) = "Ready" =>
                 /\ Imu!QueryStatus(Left, Right) = "Ready"
                 /\ Imu!Batch(Left, Right) \in Batches
           /\ \/ UNCHANGED queue
              \/ /\ Imu!TakeStatus(Left, Right) = "Ready"
                 /\ Queue!make_ready(Imu!Batch(Left, Right))
<1>1. Imu!takeMeasurements(Left, Right)
  BY Zenon DEF sample_imu
<1>2. \/ UNCHANGED queue
      \/ /\ Imu!TakeStatus(Left, Right) = "Ready"
         /\ Queue!make_ready(Imu!Batch(Left, Right))
  BY Zenon DEF sample_imu
<1>3. ASSUME Mode = "StereoImu"
      PROVE  /\ Left \in Times /\ Right \in Times
             /\ Imu!TakeStatus(Left, Right) = "Ready" =>
                   /\ Imu!QueryStatus(Left, Right) = "Ready"
                   /\ Imu!Batch(Left, Right) \in Batches
  <2>1. Left \in Times /\ Right \in Times
    BY <1>3, IntervalContinues
  <2>2. Imu!TakeStatus(Left, Right) = "Ready" => Imu!QueryStatus(Left, Right) = "Ready"
    BY DEF Imu!TakeStatus
  <2>3. Imu!QueryStatus(Left, Right) = "Ready" => Imu!Batch(Left, Right) \in Batches
    BY <2>1, GrantedBatch DEF SamplingInv
  <2> QED
    BY <2>1, <2>2, <2>3
<1> QED
  BY <1>1, <1>2, <1>3

LEMMA SameQueue == ASSUME UNCHANGED queue PROVE UNCHANGED Queue!vars
BY Zenon DEF queue, Queue!vars, Queue!timestamps, Queue!counters

(* A step of a callback is one critical section of the queue, or none.      *)
LEMMA QueueStep ==
    ASSUME ControlInv, SamplingInv, [Next]_vars
    PROVE  [Queue!Next]_(Queue!vars)
<1>1. ASSUME NEW t \in FrameTimes, Queue!admit(t) \/ Queue!discard_incoming(t)
      PROVE  Queue!Next
  BY <1>1, Constants, Zenon DEF Queue!Next
<1>2. CASE UNCHANGED vars
  <2>1. UNCHANGED queue
    BY <1>2, Zenon DEF vars
  <2> QED
    BY <2>1, SameQueue
<1>3. CASE \E timestamp \in FrameTimes \cup {Invalid} : begin_enqueue(timestamp)
  <2>1. UNCHANGED queue
    BY <1>3, Zenon DEF begin_enqueue
  <2> QED
    BY <2>1, SameQueue
<1>4. CASE finish_enqueue
  <2>1. incoming \in FrameTimes
    BY <1>4, Zenon DEF finish_enqueue, ControlInv, ControlTypes
  <2>2. UNCHANGED queue \/ Queue!admit(incoming) \/ Queue!discard_incoming(incoming)
    BY <1>4, Zenon DEF finish_enqueue
  <2> QED
    BY <1>1, <2>1, <2>2, SameQueue
<1>5. CASE reception_failure \/ external_stop \/ tick \/ \E m \in ImuInputs : imu_callback(m)
  <2>1. UNCHANGED queue
    BY <1>5, Zenon DEF reception_failure, external_stop, tick, imu_callback
  <2> QED
    BY <2>1, SameQueue
<1>6. CASE poll \/ check_imu_timeline \/ execute \/ backend \/ notify
           \/ execute_startup_next \/ tracking_failure
  <2>1. UNCHANGED queue
    BY <1>6, Zenon DEF poll, check_imu_timeline, execute, backend, notify,
                       execute_startup_next, tracking_failure
  <2> QED
    BY <2>1, SameQueue
<1>7. CASE acquire
  <2>1. UNCHANGED queue \/ Queue!reserve_tracking_work \/ Queue!reserve_startup_pair
    BY <1>7, Zenon DEF acquire
  <2> QED
    BY <2>1, SameQueue, Zenon DEF Queue!Next
<1>8. CASE prepare_work
  <2>1. CASE UNCHANGED queue
    BY <2>1, SameQueue
  <2>2. ASSUME NEW batch \in Batches \cup {None}, Queue!make_ready(batch) PROVE Queue!Next
    <3>1. Queue!Unsampled
      BY <2>2, Zenon DEF Queue!make_ready
    <3>2. batch \in Queue!Optional(Batches)
      BY Zenon DEF Queue!Optional
    <3> QED
      BY <2>2, <3>1, <3>2, Zenon DEF Queue!Next
  <2>3. ASSUME Mode = "StereoImu", sample_imu, Queue!Unsampled
        PROVE  UNCHANGED queue \/ Queue!Next
    <3>1. ASSUME Imu!TakeStatus(Left, Right) = "Ready", Queue!make_ready(Imu!Batch(Left, Right))
          PROVE  Queue!Next
      <4>1. Imu!Batch(Left, Right) \in Batches
        BY <2>3, <3>1, SamplingMeans
      <4> QED
        BY <2>2, <3>1, <4>1
    <3> QED
      BY <2>3, <3>1, SamplingMeans, Zenon
  <2>4. ASSUME Queue!make_ready(None) PROVE Queue!Next
    BY <2>2, <2>4, Zenon
  <2> QED
    BY <1>8, <2>1, <2>3, <2>4, Zenon DEF prepare_work
<1>9. CASE discard_startup_first
  BY <1>9, Zenon DEF discard_startup_first, Queue!Next
<1>10. CASE permit
  <2>1. UNCHANGED queue \/ Queue!begin_primary \/ Queue!begin_startup_next
    BY <1>10, Zenon DEF permit, permit_refused
  <2> QED
    BY <2>1, SameQueue, Zenon DEF Queue!Next
<1>11. CASE commit
  BY <1>11, Zenon DEF commit, Queue!Next
<1> QED
  BY <1>2, <1>3, <1>4, <1>5, <1>6, <1>7, <1>8, <1>9, <1>10, <1>11, Zenon DEF Next, Tracking

LEMMA SameImu ==
    ASSUME UNCHANGED imu, stop_requested' = stop_requested \/ stop_requested' = TRUE
    PROVE  [Imu!Next]_(Imu!vars)
<1>1. UNCHANGED Imu!imu_vars
  BY Zenon DEF imu, Imu!imu_vars, Imu!buffering
<1>2. CASE stop_requested' = stop_requested
  BY <1>1, <1>2, Zenon DEF Imu!vars
<1>3. CASE stop_requested' = TRUE
  BY <1>1, <1>3, Zenon DEF Imu!Next, Imu!stop
<1> QED
  BY <1>2, <1>3

(* The gate of the coordinator is the gate the frontend reads, and every    *)
(* interval asked for is one the frontend may be asked for.                 *)
LEMMA ImuStep ==
    ASSUME ControlInv, SamplingInv, [Next]_vars
    PROVE  [Imu!Next]_(Imu!vars)
<1>1. ASSUME UNCHANGED <<imu, gate>> PROVE [Imu!Next]_(Imu!vars)
  <2>1. stop_requested' = stop_requested
    BY <1>1, Zenon DEF gate
  <2> QED
    BY <1>1, <2>1, SameImu
<1>2. CASE UNCHANGED vars
  <2>1. UNCHANGED <<imu, gate>>
    BY <1>2, Zenon DEF vars
  <2> QED
    BY <1>1, <2>1
<1>3. CASE \E timestamp \in FrameTimes \cup {Invalid} : begin_enqueue(timestamp)
  BY <1>1, <1>3, Zenon DEF begin_enqueue
<1>4. CASE finish_enqueue \/ tick \/ poll \/ check_imu_timeline \/ execute \/ backend \/ notify
           \/ execute_startup_next \/ acquire \/ discard_startup_first \/ commit
  <2>1. UNCHANGED <<imu, gate>>
    BY <1>4, Zenon DEF finish_enqueue, tick, poll, check_imu_timeline, execute, backend, notify,
                       execute_startup_next, acquire, discard_startup_first, commit, others
  <2> QED
    BY <1>1, <2>1
<1>5. CASE reception_failure \/ external_stop \/ tracking_failure
  <2>1. UNCHANGED imu
    BY <1>5, Zenon DEF reception_failure, external_stop, tracking_failure
  <2>2. stop_requested' = TRUE
    BY <1>5, Zenon DEF reception_failure, external_stop, tracking_failure,
                       Stop!record_failure, Stop!request_stop
  <2> QED
    BY <2>1, <2>2, SameImu
<1>6. CASE \E m \in ImuInputs : imu_callback(m)
  BY <1>6, Constants, Zenon DEF imu_callback, Imu!Next
<1>7. CASE prepare_work
  <2>1. CASE UNCHANGED <<imu, gate>>
    BY <1>1, <2>1
  <2>2. CASE Mode = "StereoImu" /\ sample_imu /\ Queue!Unsampled
    BY <2>2, SamplingMeans, Zenon DEF Imu!Next
  <2> QED
    BY <1>7, <2>1, <2>2, Zenon DEF prepare_work
<1>8. CASE permit
  <2>1. UNCHANGED imu /\ stop_requested' = stop_requested
    BY <1>8, Zenon DEF permit, permit_refused, Stop!begin_backend, Stop!refuse_backend,
                       Stop!control, gate
  <2> QED
    BY <2>1, SameImu
<1> QED
  BY <1>2, <1>3, <1>4, <1>5, <1>6, <1>7, <1>8, Zenon DEF Next, Tracking

-----------------------------------------------------------------------------
(* Samples: steps that neither take samples nor send them                   *)

\* The batch of a work, and the end of the interval it was taken for.
SameSamples(work, later) ==
    /\ (work # None /\ work.imu_batch # None) <=> (later # None /\ later.imu_batch # None)
    /\ work # None /\ work.imu_batch # None =>
          later.imu_batch = work.imu_batch /\ later.pending = work.pending

SamplesUntouched ==
    /\ UNCHANGED <<last_taken_timestamp, delivered, last_imu_timestamp, fed,
                   startup_complete, last_tracked_frame_timestamp>>
    /\ first_timestamp # None => first_timestamp' = first_timestamp
    /\ ~tracking_failed' => ~tracking_failed
    /\ pc = "commit" <=> pc' = "commit"
    /\ pc = "commit" => UNCHANGED <<source, tracking_work, startup_next_work>>

LEMMA HeldKept ==
    ASSUME SameSamples(tracking_work, tracking_work'),
           SameSamples(startup_next_work, startup_next_work')
    PROVE  HeldBatch' = HeldBatch
BY Zenon DEF HeldBatch, SameSamples

LEMMA SamplesKept ==
    ASSUME SampleInv, SamplesUntouched, BatchPlaces',
           SameSamples(tracking_work, tracking_work'),
           SameSamples(startup_next_work, startup_next_work')
    PROVE  SampleInv'
<1>1. ASSUME NEW work, NEW later, SameSamples(work, later), BatchInOrder(work)
      PROVE  BatchInOrder(later)
  <2> SUFFICES ASSUME later # None, later.imu_batch # None
               PROVE  /\ later.imu_batch \in Seq(Nat) /\ later.imu_batch # <<>>
                      /\ \A i, j \in 1..Len(later.imu_batch) :
                            i < j => later.imu_batch[i] < later.imu_batch[j]
                      /\ \A i \in 1..Len(later.imu_batch) :
                            later.imu_batch[i] <= later.pending.timestamp
    BY Zenon DEF BatchInOrder
  <2>1. /\ work # None /\ work.imu_batch # None
        /\ later.imu_batch = work.imu_batch /\ later.pending = work.pending
    BY <1>1, Zenon DEF SameSamples
  <2> QED
    BY <1>1, <2>1, Zenon DEF BatchInOrder
<1>2. BatchInOrder(tracking_work)' /\ BatchInOrder(startup_next_work)'
  <2>1. BatchInOrder(tracking_work') /\ BatchInOrder(startup_next_work')
    BY <1>1, Zenon DEF SampleInv
  <2> QED
    BY <2>1, Zenon DEF BatchInOrder
<1>3. BoundaryIsLastSampledFrame'
  BY Zenon DEF SampleInv, BoundaryIsLastSampledFrame, SamplesUntouched, SameSamples
<1>4. BoundaryBounds'
  BY Zenon DEF SampleInv, BoundaryBounds, SamplesUntouched
<1>5. Unsent(tracking_work, "primary")'
  BY Zenon DEF SampleInv, Unsent, SamplesUntouched, SameSamples
<1>6. Unsent(startup_next_work, "startup_next")'
  BY Zenon DEF SampleInv, Unsent, SamplesUntouched, SameSamples
<1>7. fed' \in Seq(Nat)
  BY Zenon DEF SampleInv, SamplesUntouched
<1>8. SamplesConserved'
  <2>1. ASSUME pc = "commit" PROVE WorkBatch' = WorkBatch
    <3>1. Work' = Work
      BY <2>1, Zenon DEF SamplesUntouched, Work
    <3> QED
      BY <3>1, Zenon DEF WorkBatch
  <2> QED
    BY <2>1, HeldKept, Zenon DEF SampleInv, SamplesConserved, SamplesUntouched
<1> QED
  BY <1>2, <1>3, <1>4, <1>5, <1>6, <1>7, <1>8 DEF SampleInv

(* The frontend's side of such a step.                                      *)
LEMMA SameImuSamples ==
    ASSUME UNCHANGED imu
    PROVE  UNCHANGED <<last_taken_timestamp, delivered, first_timestamp>>
BY Zenon DEF imu

LEMMA SameAdapter ==
    ASSUME UNCHANGED adapter
    PROVE  UNCHANGED <<last_frame_timestamp, last_imu_timestamp, fed>>
BY Zenon DEF adapter

LEMMA SameWorks ==
    ASSUME UNCHANGED <<tracking_work, startup_next_work, startup_complete>>, BatchPlaces
    PROVE  /\ BatchPlaces' /\ SameSamples(tracking_work, tracking_work')
           /\ SameSamples(startup_next_work, startup_next_work')
BY Zenon DEF BatchPlaces, SameSamples

LEMMA ReceptionSamples ==
    ASSUME ControlInv, SampleInv, Reception PROVE SampleInv'
<1>1. /\ UNCHANGED <<tracking_work, startup_next_work, startup_complete,
                     last_tracked_frame_timestamp, tracking, adapter>>
  BY ReceptionMeans
<1>2. /\ UNCHANGED <<last_taken_timestamp, delivered>>
      /\ first_timestamp # None => first_timestamp' = first_timestamp
  <2>1. CASE UNCHANGED imu
    BY <2>1, SameImuSamples
  <2>2. CASE \E m \in ImuInputs : imu_callback(m)
    <3>1. PICK m \in ImuInputs : Imu!imu_callback(m)
      BY <2>2, Zenon DEF imu_callback
    <3>2. CASE Imu!reject_sample(m)
      BY <3>2, Zenon DEF Imu!reject_sample, Imu!buffering
    <3>3. CASE Imu!accept_sample(m)
      BY <3>3, Zenon DEF Imu!accept_sample
    <3> QED
      BY <3>1, <3>2, <3>3 DEF Imu!imu_callback
  <2> QED
    BY <2>1, <2>2, Zenon DEF Reception, begin_enqueue, finish_enqueue, reception_failure,
                             external_stop
<1>3. SamplesUntouched
  BY <1>1, <1>2, SameAdapter, Zenon DEF SamplesUntouched, tracking
<1> QED
  BY <1>1, <1>3, SameWorks, SamplesKept, Zenon DEF SampleInv

(* Steps of the tracking thread that leave the queue as it is, and neither  *)
(* take samples nor call upstream.                                          *)
LEMMA QuietSamples ==
    ASSUME SampleInv, UNCHANGED <<queue, imu, adapter>>, ~tracking_failed' => ~tracking_failed,
           pc # "commit", pc' # "commit"
    PROVE  SampleInv'
<1>1. UNCHANGED <<tracking_work, startup_next_work, startup_complete,
                  last_tracked_frame_timestamp>>
  BY Zenon DEF queue
<1>2. SamplesUntouched
  BY <1>1, SameImuSamples, SameAdapter, Zenon DEF SamplesUntouched
<1> QED
  BY <1>1, <1>2, SameWorks, SamplesKept, Zenon DEF SampleInv

LEMMA TickSamples ==
    ASSUME SampleInv, tick PROVE SampleInv'
<1>1. UNCHANGED <<queue, gate, imu, adapter, pc, source, tracking_failed>>
  BY Zenon DEF tick, others
<1>2. UNCHANGED <<tracking_work, startup_next_work, startup_complete,
                  last_tracked_frame_timestamp>>
  BY <1>1, Zenon DEF queue
<1>3. SamplesUntouched
  BY <1>1, <1>2, SameImuSamples, SameAdapter, Zenon DEF SamplesUntouched
<1> QED
  BY <1>2, <1>3, SameWorks, SamplesKept, Zenon DEF SampleInv

LEMMA StutterSamples ==
    ASSUME SampleInv, UNCHANGED vars PROVE SampleInv'
<1>1. UNCHANGED <<queue, imu, adapter, tracking>>
  BY Zenon DEF vars
<1>2. UNCHANGED <<tracking_work, startup_next_work, startup_complete, pc, source,
                  tracking_failed, last_tracked_frame_timestamp>>
  BY <1>1, Zenon DEF queue, tracking
<1>3. SamplesUntouched
  BY <1>1, <1>2, SameImuSamples, SameAdapter, Zenon DEF SamplesUntouched
<1> QED
  BY <1>2, <1>3, SameWorks, SamplesKept, Zenon DEF SampleInv

(* Reserving: a new reservation holds no batch.                             *)
LEMMA AcquireSamples ==
    ASSUME ControlInv, QueueTypes, PairShape, SampleInv, acquire PROVE SampleInv'
<1>1. /\ pc = "acquire" /\ pc' \in {"failing", "sample", "idle"}
      /\ ~tracking_failed' => ~tracking_failed
      /\ UNCHANGED <<gate, imu, adapter, receiving>>
  BY Zenon DEF acquire, others, Goto, Raise, bookkeeping
<1>2. pc # "commit" /\ pc' # "commit"
  BY <1>1
<1>3. \A entry : Queue!Reserve(entry).imu_batch = None /\ Queue!Reserve(entry).stage = "Reserved"
  BY DEF Queue!Reserve
<1>4. CASE UNCHANGED queue
  BY <1>1, <1>2, <1>4, QuietSamples
<1>5. ASSUME UNCHANGED <<startup_complete, last_tracked_frame_timestamp>>, BatchPlaces',
             SameSamples(tracking_work, tracking_work'),
             SameSamples(startup_next_work, startup_next_work')
      PROVE  SampleInv'
  <2>1. SamplesUntouched
    BY <1>1, <1>2, <1>5, SameImuSamples, SameAdapter, Zenon DEF SamplesUntouched
  <2> QED
    BY <1>5, <2>1, SamplesKept
<1>6. CASE Queue!reserve_tracking_work
  <2>1. /\ tracking_work = None /\ UNCHANGED <<startup_next_work, startup_complete,
                                               last_tracked_frame_timestamp>>
        /\ tracking_work' = Queue!Reserve(Head(pending_frames))
    BY <1>6, Zenon DEF Queue!reserve_tracking_work, Queue!timestamps
  <2>2. BatchPlaces'
    BY <1>3, <2>1, Zenon DEF BatchPlaces
  <2>3. /\ SameSamples(tracking_work, tracking_work')
        /\ SameSamples(startup_next_work, startup_next_work')
    BY <1>3, <2>1, Zenon DEF SameSamples
  <2> QED
    BY <1>5, <2>1, <2>2, <2>3
<1>7. CASE Queue!reserve_startup_pair
  <2>1. /\ Queue!startup /\ startup_next_work = None
        /\ UNCHANGED <<startup_complete, last_tracked_frame_timestamp>>
        /\ \E entry : startup_next_work' = Queue!Reserve(entry)
        /\ \/ tracking_work # None /\ tracking_work' = tracking_work
           \/ tracking_work = None /\ \E entry : tracking_work' = Queue!Reserve(entry)
    BY <1>7, Zenon DEF Queue!reserve_startup_pair, Queue!timestamps
  <2>2. BatchPlaces'
    BY <1>3, <2>1, Zenon DEF BatchPlaces, SampleInv
  <2>3. /\ SameSamples(tracking_work, tracking_work')
        /\ SameSamples(startup_next_work, startup_next_work')
    BY <1>3, <2>1, Zenon DEF SameSamples
  <2> QED
    BY <1>5, <2>1, <2>2, <2>3
<1> QED
  BY <1>4, <1>6, <1>7, Zenon DEF acquire

(* The startup discard happens while neither frame holds a batch.           *)
LEMMA DiscardSamples ==
    ASSUME ControlInv, PairShape, SampleInv, discard_startup_first PROVE SampleInv'
<1>1. /\ pc = "discard" /\ pc' \in {"failing", "idle"}
      /\ ~tracking_failed' => ~tracking_failed
      /\ UNCHANGED <<gate, imu, adapter, receiving>>
  <2>1. pc = "discard" /\ UNCHANGED <<gate, imu, adapter, receiving>>
    BY Zenon DEF discard_startup_first, others
  <2>2. Goto("idle") \/ Raise("CallbackError", "discard warning")
    BY Zenon DEF discard_startup_first
  <2>3. CASE Goto("idle")
    BY <2>1, <2>3 DEF Goto, bookkeeping
  <2>4. CASE Raise("CallbackError", "discard warning")
    BY <2>1, <2>4 DEF Raise
  <2> QED
    BY <2>2, <2>3, <2>4
<1>2. pc # "commit" /\ pc' # "commit"
  BY <1>1
<1>3. /\ tracking_work # None /\ startup_next_work # None
      /\ tracking_work.imu_batch = None /\ startup_next_work.imu_batch = None
      /\ tracking_work' = startup_next_work /\ startup_next_work' = None
      /\ UNCHANGED <<startup_complete, last_tracked_frame_timestamp>>
  BY Zenon DEF discard_startup_first, Queue!discard_startup_first, Queue!timestamps
<1>4. ~startup_complete
  BY <1>3, Zenon DEF PairShape, Queue!startup
<1>5. BatchPlaces'
  BY <1>3, <1>4, Zenon DEF BatchPlaces
<1>6. /\ SameSamples(tracking_work, tracking_work')
      /\ SameSamples(startup_next_work, startup_next_work')
  BY <1>3, Zenon DEF SameSamples
<1>7. SamplesUntouched
  BY <1>1, <1>2, <1>3, SameImuSamples, SameAdapter, Zenon DEF SamplesUntouched
<1> QED
  BY <1>5, <1>6, <1>7, SamplesKept

(* A call begins with the samples its work holds.                           *)
LEMMA PermitSamples ==
    ASSUME ControlInv, QueueTypes, SampleInv, permit PROVE SampleInv'
<1>1. /\ pc = "permit" /\ pc' \in {"failing", "backend", "idle"}
      /\ ~tracking_failed' => ~tracking_failed
      /\ UNCHANGED <<imu, adapter, receiving>>
  BY Zenon DEF permit, permit_refused, Goto, Raise, bookkeeping
<1>2. pc # "commit" /\ pc' # "commit"
  BY <1>1
<1>3. CASE UNCHANGED queue
  BY <1>1, <1>2, <1>3, QuietSamples
<1>4. CASE IF source = "primary" THEN Queue!begin_primary ELSE Queue!begin_startup_next
  <2>1. UNCHANGED <<startup_complete, last_tracked_frame_timestamp>>
    BY <1>4, BeginMeans
  <2>2. /\ SameSamples(tracking_work, tracking_work')
        /\ SameSamples(startup_next_work, startup_next_work')
    <3>1. source = "primary" => tracking_work # None /\ tracking_work.stage = "Ready"
      BY <1>4, BeginMeans DEF Work
    <3>2. source # "primary" => startup_next_work # None /\ startup_next_work.stage = "Ready"
      BY <1>4, BeginMeans DEF Work
    <3> QED
      BY <1>4, <3>1, <3>2, BeginMeans, Zenon DEF SameSamples
  <2>3. BatchPlaces'
    <3>1. source = "primary" =>
             /\ tracking_work # None /\ tracking_work.stage # "Reserved"
             /\ tracking_work'.stage # "Reserved"
             /\ tracking_work'.imu_batch = tracking_work.imu_batch
      BY <1>4, BeginMeans DEF Work
    <3>2. source # "primary" => tracking_work' = None
      BY <1>4, BeginMeans
    <3> QED
      BY <2>1, <3>1, <3>2, Zenon DEF BatchPlaces, SampleInv
  <2>4. SamplesUntouched
    BY <1>1, <1>2, <2>1, SameImuSamples, SameAdapter, Zenon DEF SamplesUntouched
  <2> QED
    BY <2>2, <2>3, <2>4, SamplesKept
<1> QED
  BY <1>3, <1>4, Zenon DEF permit, permit_refused

-----------------------------------------------------------------------------
(* Samples: a granted interval                                              *)

(* Work that is about to be sampled holds no samples, and nothing consumed  *)
(* waits anywhere else.                                                     *)
LEMMA UnsampledHoldsNothing ==
    ASSUME SampleInv, PairShape, Queue!Unsampled
    PROVE  /\ tracking_work # None /\ tracking_work.imu_batch = None
           /\ ~(startup_next_work # None /\ startup_next_work.imu_batch # None)
           /\ HeldBatch = <<>>
<1>1. /\ tracking_work # None /\ tracking_work.stage = "Reserved"
      /\ Queue!startup => startup_next_work # None /\ startup_next_work.stage = "Reserved"
  BY Zenon DEF Queue!Unsampled
<1>2. tracking_work.imu_batch = None
  BY <1>1, Zenon DEF SampleInv, BatchPlaces
<1>3. ~(startup_next_work # None /\ startup_next_work.imu_batch # None)
  BY <1>1, Zenon DEF PairShape
<1> QED
  BY <1>1, <1>2, <1>3, Zenon DEF HeldBatch

LEMMA GrantSamples ==
    ASSUME ControlInv, SamplingInv, Mode = "StereoImu", Queue!Unsampled,
           Imu!QueryStatus(Left, Right) = "Ready",
           Imu!TakeStatus(Left, Right) = "Ready", Imu!takeMeasurements(Left, Right),
           Queue!make_ready(Imu!Batch(Left, Right)),
           pc = "sample", pc' = "ready", UNCHANGED <<tracking_failed, adapter>>
    PROVE  SampleInv'
<1> DEFINE batch == Imu!Batch(Left, Right)
<1>1. /\ Left \in Times /\ Right \in Times /\ Left < Right
      /\ last_taken_timestamp \in {None, Left}
      /\ Left \in Nat /\ Right \in Nat
  BY IntervalContinues, Constants
<1>2. /\ batch \in Batches /\ batch \in Seq(Nat) /\ batch # <<>>
      /\ \A i, j \in 1..Len(batch) : i < j => batch[i] < batch[j]
      /\ \A i \in 1..Len(batch) : Left < batch[i] /\ batch[i] <= Right
      /\ first_timestamp # None /\ first_timestamp <= Left
  BY <1>1, GrantedBatch DEF SamplingInv
<1>3. /\ last_taken_timestamp' = Right /\ delivered' = delivered \o batch
      /\ first_timestamp' = first_timestamp
  BY Zenon DEF Imu!takeMeasurements, Imu!NextBoundary
<1>4. last_imu_timestamp' = last_imu_timestamp /\ fed' = fed
  BY SameAdapter
<1>5. /\ tracking_work # None /\ tracking_work.imu_batch = None
      /\ ~(startup_next_work # None /\ startup_next_work.imu_batch # None)
      /\ HeldBatch = <<>>
  BY UnsampledHoldsNothing DEF SamplingInv
<1>6. batch # None
  BY <1>2, Constants
<1> HIDE DEF batch
<1>7. /\ tracking_work' # None /\ tracking_work'.stage = "Ready"
      /\ tracking_work'.pending = tracking_work.pending
      /\ Queue!startup =>
            /\ startup_next_work # None /\ startup_next_work' # None
            /\ startup_next_work'.stage = "Ready" /\ startup_next_work'.imu_batch = batch
            /\ startup_next_work'.pending = startup_next_work.pending
            /\ tracking_work'.imu_batch = None
      /\ ~Queue!startup =>
            tracking_work'.imu_batch = batch /\ startup_next_work' = startup_next_work
      /\ UNCHANGED <<startup_complete, last_tracked_frame_timestamp>>
  <2>1. batch \in Batches \cup {None} /\ Queue!make_ready(batch) /\ QueueTypes
    BY <1>2 DEF batch, SamplingInv
  <2> QED
    BY <1>5, <2>1, MakeReadyMeans
<1>8. ~Queue!startup => startup_next_work = None /\ startup_complete
  BY Zenon DEF SamplingInv, PairShape, Queue!startup
<1>9. Queue!startup => ~startup_complete
  BY Zenon DEF Queue!startup
<1>10. BatchPlaces'
  <2>1. tracking_work'.stage # "Reserved"
    BY <1>7
  <2> QED
    BY <1>6, <1>7, <1>8, <1>9, <2>1, Zenon DEF BatchPlaces
\* The frame the batch belongs to, and whose time the interval ends at.
<1>11. /\ Queue!startup => startup_next_work'.pending.timestamp = Right
       /\ ~Queue!startup => tracking_work'.pending.timestamp = Right
  BY <1>7, Zenon DEF Right
<1>12. BatchInOrder(tracking_work)' /\ BatchInOrder(startup_next_work)'
  <2>1. ASSUME NEW later, later.imu_batch = batch, later.pending.timestamp = Right
        PROVE  BatchInOrder(later)
    BY <1>2, <2>1 DEF BatchInOrder
  <2>2. ASSUME NEW later, later = None \/ later.imu_batch = None PROVE BatchInOrder(later)
    BY <2>2, Zenon DEF BatchInOrder
  <2>3. BatchInOrder(tracking_work') /\ BatchInOrder(startup_next_work')
    <3>1. CASE Queue!startup
      BY <1>7, <1>11, <2>1, <2>2, <3>1, Zenon
    <3>2. CASE ~Queue!startup
      BY <1>7, <1>8, <1>11, <2>1, <2>2, <3>2, Zenon
    <3> QED
      BY <3>1, <3>2
  <2> QED
    BY <2>3, Zenon DEF BatchInOrder
<1>13. BoundaryIsLastSampledFrame'
  <2>1. CASE Queue!startup
    BY <1>3, <1>6, <1>7, <1>11, <2>1, Zenon DEF BoundaryIsLastSampledFrame
  <2>2. CASE ~Queue!startup
    BY <1>3, <1>6, <1>7, <1>8, <1>11, <2>2, Zenon DEF BoundaryIsLastSampledFrame
  <2> QED
    BY <2>1, <2>2
<1>14. last_imu_timestamp # None => last_imu_timestamp \in Nat /\ last_imu_timestamp <= Left
  <2>1. last_imu_timestamp # None =>
           /\ last_imu_timestamp \in Nat
           /\ last_taken_timestamp # None /\ last_imu_timestamp <= last_taken_timestamp
    BY Zenon DEF SamplingInv, SampleInv, BoundaryBounds
  <2> QED
    BY <1>1, <2>1
<1>15. BoundaryBounds'
  <2>1. first_timestamp \in Nat /\ Right # None
    <3>1. first_timestamp \in Times \cup {None}
      BY Zenon DEF SamplingInv, ImuFacts!IInv, ImuFacts!TypeOK
    <3> QED
      BY <1>1, <1>2, <3>1, Constants
  <2>2. first_timestamp <= Right
    BY <1>1, <1>2, <2>1
  <2>3. last_imu_timestamp # None => last_imu_timestamp <= Right
    BY <1>1, <1>14
  <2> QED
    BY <1>2, <1>3, <1>4, <1>14, <2>1, <2>2, <2>3, Zenon DEF BoundaryBounds
<1>16. last_imu_timestamp # None => \A i \in 1..Len(batch) : last_imu_timestamp < batch[i]
  <2> SUFFICES ASSUME last_imu_timestamp # None, NEW i \in 1..Len(batch)
               PROVE  last_imu_timestamp < batch[i]
    OBVIOUS
  <2>1. batch[i] \in Nat /\ Left < batch[i]
    BY <1>2, ElementOfSeq
  <2> QED
    BY <1>1, <1>14, <2>1
<1>17. Unsent(tracking_work, "primary")' /\ Unsent(startup_next_work, "startup_next")'
  <2>1. CASE Queue!startup
    BY <1>4, <1>7, <1>16, <2>1, Zenon DEF Unsent
  <2>2. CASE ~Queue!startup
    BY <1>4, <1>7, <1>8, <1>16, <2>2, Zenon DEF Unsent
  <2> QED
    BY <2>1, <2>2
<1>18. fed \in Seq(Nat) /\ fed' \in Seq(Nat)
  BY <1>4 DEF SamplingInv, SampleInv
<1>19. SamplesConserved'
  <2>1. HeldBatch' = batch
    <3>1. CASE Queue!startup
      BY <1>6, <1>7, <3>1, Zenon DEF HeldBatch
    <3>2. CASE ~Queue!startup
      BY <1>6, <1>7, <3>2, Zenon DEF HeldBatch
    <3> QED
      BY <3>1, <3>2
  <2>2. delivered = fed \o HeldBatch
    <3>1. pc # "commit"
      OBVIOUS
    <3> QED
      BY <3>1, Zenon DEF SamplingInv, SampleInv, SamplesConserved
  <2>3. fed \o HeldBatch = fed
    BY <1>5, <1>18, ConcatEmptySeq
  <2>4. delivered' = fed' \o HeldBatch'
    BY <1>3, <1>4, <2>1, <2>2, <2>3, Zenon
  <2>5. pc' # "commit"
    OBVIOUS
  <2> QED
    BY <2>4, <2>5, Zenon DEF SamplesConserved
<1> QED
  BY <1>10, <1>12, <1>13, <1>15, <1>17, <1>18, <1>19 DEF SampleInv

LEMMA PrepareSamples ==
    ASSUME ControlInv, SamplingInv, prepare_work PROVE SampleInv'
<1>1. pc = "sample" /\ UNCHANGED <<gate, adapter, receiving>>
  BY Zenon DEF prepare_work
<1>2. Queue!Unsampled
  <2>1. Fresh /\ Reserved
    BY <1>1 DEF ControlInv, Places
  <2> QED
    BY <2>1, ReservedIsUnsampled
<1>3. CASE Mode = "Stereo"
  <2>1. Queue!make_ready(None) /\ Goto("ready") /\ UNCHANGED imu
    BY <1>2, <1>3, Zenon DEF prepare_work
  <2>2. ~Queue!startup
    BY <1>3 DEF Queue!startup
  <2>3. /\ tracking_work' # None /\ tracking_work'.imu_batch = None
        /\ startup_next_work' = startup_next_work
        /\ UNCHANGED <<startup_complete, last_tracked_frame_timestamp>>
    <3>1. QueueTypes /\ None \in Batches \cup {None}
      BY DEF SamplingInv
    <3> QED
      BY <2>1, <2>2, <3>1, MakeReadyMeans
  <2>4. tracking_work # None /\ tracking_work.imu_batch = None
    BY <1>2, UnsampledHoldsNothing DEF SamplingInv
  <2>5. ~startup_complete
    BY <1>3, Zenon DEF SamplingInv, PairShape
  <2>6. BatchPlaces' /\ SameSamples(tracking_work, tracking_work')
        /\ SameSamples(startup_next_work, startup_next_work')
    BY <2>3, <2>4, <2>5, Zenon DEF BatchPlaces, SameSamples
  <2>7. pc' = "ready" /\ tracking_failed' = tracking_failed
    BY <2>1, GotoMeans
  <2>8. SamplesUntouched
    BY <1>1, <2>1, <2>3, <2>7, SameImuSamples, SameAdapter DEF SamplesUntouched
  <2> QED
    BY <2>6, <2>8, SamplesKept DEF SamplingInv
<1>4. CASE Mode = "StereoImu"
  <2>1. sample_imu
    <3>1. Mode # "Stereo"
      BY <1>4
    <3> QED
      BY <1>2, <3>1, Zenon DEF prepare_work
  <2>2. CASE /\ Imu!TakeStatus(Left, Right) = "Ready"
             /\ Queue!make_ready(Imu!Batch(Left, Right))
             /\ pc' = "ready" /\ UNCHANGED tracking_failed
    <3>1. /\ Imu!QueryStatus(Left, Right) = "Ready" /\ Imu!takeMeasurements(Left, Right)
      BY <1>2, <1>4, <2>1, <2>2, SamplingMeans
    <3> QED
      BY <1>1, <1>2, <1>4, <2>2, <3>1, GrantSamples
  <2>3. CASE /\ Imu!TakeStatus(Left, Right) # "Ready"
             /\ UNCHANGED queue
             /\ pc' \in {"idle", "discard", "failing"} /\ (~tracking_failed' => ~tracking_failed)
    <3>1. UNCHANGED <<tracking_work, startup_next_work, startup_complete,
                      last_tracked_frame_timestamp>>
      BY <2>3, Zenon DEF queue
    <3>2. UNCHANGED <<last_taken_timestamp, delivered, first_timestamp>>
      <4>1. Imu!takeMeasurements(Left, Right)
        BY <2>1, Zenon DEF sample_imu
      <4> QED
        BY <2>3, <4>1, Zenon DEF Imu!takeMeasurements
    <3>3. pc # "commit" /\ pc' # "commit"
      BY <1>1, <2>3
    <3>4. SamplesUntouched
      BY <1>1, <2>3, <3>1, <3>2, <3>3, SameAdapter, Zenon DEF SamplesUntouched
    <3> QED
      BY <3>1, <3>4, SameWorks, SamplesKept, Zenon DEF SamplingInv, SampleInv
  <2>4. \/ /\ Imu!TakeStatus(Left, Right) = "Ready"
           /\ Queue!make_ready(Imu!Batch(Left, Right))
           /\ pc' = "ready" /\ UNCHANGED tracking_failed
        \/ /\ Imu!TakeStatus(Left, Right) \in
                 {"Stopped", "WaitingForData", "MissingHistory", "BufferOverflow", "DataGap",
                  "InvalidRequest"}
           /\ UNCHANGED queue
           /\ pc' \in {"idle", "discard", "failing"} /\ (~tracking_failed' => ~tracking_failed)
    BY <2>1, Zenon DEF sample_imu, Goto, Raise, bookkeeping
  <2>5. "Ready" \notin {"Stopped", "WaitingForData", "MissingHistory", "BufferOverflow", "DataGap",
                        "InvalidRequest"}
    OBVIOUS
  <2> QED
    BY <2>2, <2>3, <2>4, <2>5
<1> QED
  BY <1>3, <1>4, Constants

-----------------------------------------------------------------------------
(* Samples: the call and its completion                                     *)

\* The work a call is made for, while the call runs or waits to be committed.
CallingWork ==
    /\ Work # None /\ Work.stage = "Executing"
    /\ source \in {"primary", "startup_next"}
    /\ source = "startup_next" => tracking_work = None

(* The work of a call is the one that holds samples, if it holds any; and   *)
(* its frame is then the boundary of the frontend.                          *)
LEMMA CallingHolds ==
    ASSUME SampleInv, PairShape, QueueTypes, CallingWork
    PROVE  /\ Work.imu_batch = None => WorkBatch = <<>>
           /\ Work.imu_batch # None =>
                 /\ WorkBatch = Work.imu_batch /\ HeldBatch = WorkBatch
                 /\ Mode = "StereoImu" /\ last_taken_timestamp = Work.pending.timestamp
           /\ WorkBatch \in Seq(Nat)
<1>1. Work.imu_batch = None => WorkBatch = <<>>
  BY Zenon DEF WorkBatch
<1>2. ASSUME Work.imu_batch # None
      PROVE  /\ WorkBatch = Work.imu_batch /\ HeldBatch = WorkBatch
             /\ Mode = "StereoImu" /\ last_taken_timestamp = Work.pending.timestamp
             /\ WorkBatch \in Seq(Nat)
  <2>1. WorkBatch = Work.imu_batch
    BY <1>2, Zenon DEF WorkBatch
  <2>2. BatchInOrder(Work)
    BY Zenon DEF SampleInv, Work
  <2>3. WorkBatch \in Seq(Nat)
    BY <1>2, <2>1, <2>2, Zenon DEF BatchInOrder, CallingWork
  <2>4. CASE source = "primary"
    <3>1. /\ tracking_work # None /\ tracking_work.imu_batch # None /\ Work = tracking_work
          /\ tracking_work.stage # "Reserved"
      BY <1>2, <2>4 DEF CallingWork, Work
    <3>2. startup_complete
      BY <3>1, Zenon DEF SampleInv, BatchPlaces
    <3>3. Mode = "StereoImu" /\ startup_next_work = None
      BY <3>2, Zenon DEF PairShape, Queue!startup
    <3>4. last_taken_timestamp = tracking_work.pending.timestamp
      BY <3>1, <3>3, Zenon DEF SampleInv, BoundaryIsLastSampledFrame
    <3>5. HeldBatch = tracking_work.imu_batch
      BY <3>1, Zenon DEF HeldBatch
    <3> QED
      BY <2>1, <2>3, <3>1, <3>3, <3>4, <3>5
  <2>5. CASE source # "primary"
    <3>1. /\ startup_next_work # None /\ startup_next_work.imu_batch # None
          /\ Work = startup_next_work /\ tracking_work = None
      BY <1>2, <2>5 DEF CallingWork, Work
    <3>2. Mode = "StereoImu"
      BY <3>1, Zenon DEF PairShape, Queue!startup
    <3>3. last_taken_timestamp = startup_next_work.pending.timestamp
      BY <3>1, <3>2, Zenon DEF SampleInv, BoundaryIsLastSampledFrame
    <3>4. HeldBatch = startup_next_work.imu_batch
      BY <3>1, Zenon DEF HeldBatch
    <3> QED
      BY <2>1, <2>3, <3>1, <3>2, <3>3, <3>4
  <2> QED
    BY <2>4, <2>5
<1>3. <<>> \in Seq(Nat)
  BY EmptySeq
<1> QED
  BY <1>1, <1>2, <1>3

(* Upstream is given the batch whether or not the call returns; it is sent  *)
(* when the call returns, and it is never newer than the boundary.          *)
LEMMA BackendSamples ==
    ASSUME ControlInv, SamplingInv, FrameInv, backend PROVE SampleInv'
<1>1. pc = "backend" /\ ~tracking_failed /\ UNCHANGED <<queue, imu>>
  BY WorkingMeans, Zenon DEF backend
<1>2. UNCHANGED <<tracking_work, startup_next_work, startup_complete,
                  last_tracked_frame_timestamp, last_taken_timestamp, delivered, first_timestamp>>
  BY <1>1, SameImuSamples, Zenon DEF queue
<1>3. CallingWork /\ SampleInv /\ PairShape /\ QueueTypes
  BY <1>1 DEF CallingWork, ControlInv, ControlTypes, Places, SamplingInv
<1>4. /\ Work.imu_batch = None => WorkBatch = <<>>
      /\ Work.imu_batch # None =>
            /\ WorkBatch = Work.imu_batch /\ HeldBatch = WorkBatch
            /\ Mode = "StereoImu" /\ last_taken_timestamp = Work.pending.timestamp
      /\ WorkBatch \in Seq(Nat)
  BY <1>3, CallingHolds
<1>5. \/ /\ Adapter!track_returns(Work.pending.timestamp, WorkBatch) /\ Goto("commit")
      \/ /\ Adapter!track_throws(Work.pending.timestamp, WorkBatch)
         /\ Raise("BackendError", "upstream")
  BY <1>1, AdapterAccepts, Zenon DEF backend
<1>6. source' = source
  BY <1>5, Zenon DEF Goto, Raise, bookkeeping
<1>7. Work' = Work /\ WorkBatch' = WorkBatch /\ HeldBatch' = HeldBatch
  <2>1. Work' = Work
    BY <1>2, <1>6, Zenon DEF Work
  <2> QED
    BY <1>2, <2>1, Zenon DEF WorkBatch, HeldBatch
<1>8. /\ BatchPlaces' /\ BatchInOrder(tracking_work)' /\ BatchInOrder(startup_next_work)'
      /\ BoundaryIsLastSampledFrame'
  BY <1>2, <1>3, Zenon DEF SampleInv, BatchPlaces, BatchInOrder, BoundaryIsLastSampledFrame
<1>9. last_imu_timestamp' = last_imu_timestamp
      \/ /\ WorkBatch # <<>>
         /\ last_imu_timestamp' = WorkBatch[Len(WorkBatch)]
  BY <1>5, Zenon DEF Adapter!track_returns, Adapter!track_throws, Adapter!Advance, Adapter!timeline
<1>10. BoundaryBounds'
  <2>1. CASE last_imu_timestamp' = last_imu_timestamp
    BY <1>2, <1>3, <2>1, Zenon DEF SampleInv, BoundaryBounds
  <2>2. CASE WorkBatch # <<>> /\ last_imu_timestamp' = WorkBatch[Len(WorkBatch)]
    <3>1. /\ Work.imu_batch # None /\ WorkBatch = Work.imu_batch
          /\ last_taken_timestamp = Work.pending.timestamp
      BY <1>4, <2>2
    <3>2. Len(WorkBatch) \in 1..Len(WorkBatch)
      BY <1>4, <2>2, LenProperties
    <3>3. WorkBatch[Len(WorkBatch)] <= Work.pending.timestamp
      <4>1. BatchInOrder(Work)
        BY <1>3, Zenon DEF SampleInv, Work
      <4>2. Work # None
        BY <1>3 DEF CallingWork
      <4> QED
        BY <3>1, <3>2, <4>1, <4>2, Zenon DEF BatchInOrder
    <3>4. WorkBatch[Len(WorkBatch)] \in Nat
      BY <1>4, <3>2, ElementOfSeq
    <3>5. last_taken_timestamp # None
      <4>1. Work \in Queue!TrackingWork
        BY <1>3, Zenon DEF CallingWork, QueueTypes, Work
      <4> QED
        BY <3>1, <4>1, WorkFields, Constants
    <3> QED
      BY <1>2, <1>3, <2>2, <3>1, <3>3, <3>4, <3>5, Zenon DEF SampleInv, BoundaryBounds
  <2> QED
    BY <1>9, <2>1, <2>2
<1>11. fed \in Seq(Nat) /\ delivered = fed \o HeldBatch
  <2>1. pc # "commit"
    BY <1>1
  <2> QED
    BY <1>3, <2>1, Zenon DEF SampleInv, SamplesConserved
<1>12. CASE Adapter!track_throws(Work.pending.timestamp, WorkBatch)
            /\ Raise("BackendError", "upstream")
  <2>1. fed' = fed /\ pc' = "failing" /\ tracking_failed' = TRUE
    BY <1>12, Zenon DEF Adapter!track_throws, Raise
  <2>2. Unsent(tracking_work, "primary")' /\ Unsent(startup_next_work, "startup_next")'
    BY <2>1 DEF Unsent
  <2>3. SamplesConserved'
    <3>1. pc' # "commit"
      BY <2>1
    <3> QED
      BY <1>2, <1>7, <1>11, <2>1, <3>1, Zenon DEF SamplesConserved
  <2> QED
    BY <1>8, <1>10, <1>11, <2>1, <2>2, <2>3 DEF SampleInv
<1>13. CASE Adapter!track_returns(Work.pending.timestamp, WorkBatch) /\ Goto("commit")
  <2>1. /\ fed' = fed \o WorkBatch /\ pc' = "commit" /\ tracking_failed' = tracking_failed
        /\ last_imu_timestamp' = IF WorkBatch # <<>> THEN WorkBatch[Len(WorkBatch)]
                                 ELSE last_imu_timestamp
    BY <1>13, Zenon DEF Adapter!track_returns, Adapter!Advance, Goto, bookkeeping
  <2>2. fed' \in Seq(Nat)
    BY <1>4, <1>11, <2>1, ConcatProperties
  <2>3. SamplesConserved'
    <3>1. CASE Work.imu_batch # None
      <4>1. delivered' = fed' /\ WorkBatch' = HeldBatch'
        BY <1>2, <1>4, <1>7, <1>11, <2>1, <3>1, Zenon
      <4> QED
        BY <2>1, <4>1, Zenon DEF SamplesConserved
    <3>2. CASE Work.imu_batch = None
      <4>1. fed' = fed /\ WorkBatch' = <<>>
        BY <1>4, <1>7, <1>11, <2>1, <3>2, ConcatEmptySeq
      <4>2. delivered' = fed' \o HeldBatch'
        BY <1>2, <1>7, <1>11, <4>1, Zenon
      <4>3. WorkBatch' = HeldBatch' => delivered' = fed'
        BY <1>11, <4>1, <4>2, ConcatEmptySeq
      <4> QED
        BY <4>2, <4>3, Zenon DEF SamplesConserved
    <3> QED
      BY <3>1, <3>2
  <2>4. Unsent(tracking_work, "primary")' /\ Unsent(startup_next_work, "startup_next")'
    <3>1. CASE source = "primary"
      <4>1. Unsent(tracking_work, "primary")'
        BY <1>6, <2>1, <3>1, Zenon DEF Unsent
      <4>2. CASE startup_next_work = None
        BY <1>2, <4>1, <4>2, Zenon DEF Unsent
      <4>3. CASE startup_next_work # None
        <5>1. Work.imu_batch = None
          <6>1. tracking_work # None /\ Work = tracking_work
            BY <1>3, <3>1 DEF CallingWork, Work
          <6> QED
            BY <1>3, <4>3, <6>1, Zenon DEF PairShape
        <5>2. last_imu_timestamp' = last_imu_timestamp
          BY <1>4, <2>1, <5>1, Zenon
        <5>3. ~(pc = "commit" /\ source = "startup_next")
          BY <1>1
        <5>4. Unsent(startup_next_work, "startup_next")'
          BY <1>1, <1>2, <1>3, <5>2, <5>3, Zenon DEF Unsent, SampleInv
        <5> QED
          BY <4>1, <5>4
      <4> QED
        BY <4>2, <4>3
    <3>2. CASE source = "startup_next"
      <4>1. tracking_work' = None
        BY <1>2, <1>3, <3>2 DEF CallingWork
      <4> QED
        BY <1>6, <2>1, <3>2, <4>1, Zenon DEF Unsent
    <3> QED
      BY <1>3, <3>1, <3>2, Zenon DEF CallingWork
  <2> QED
    BY <1>8, <1>10, <2>2, <2>3, <2>4 DEF SampleInv
<1> QED
  BY <1>5, <1>12, <1>13

(* The batch of a committed work has been sent; the boundary is its frame.  *)
LEMMA CommitSamples ==
    ASSUME ControlInv, SamplingInv, commit PROVE SampleInv'
<1>1. /\ pc = "commit" /\ ~tracking_failed /\ UNCHANGED <<imu, adapter>>
      /\ IF source = "primary" THEN Queue!complete_primary ELSE Queue!complete_startup_next
      /\ pc' = "notify" /\ tracking_failed' = tracking_failed
  BY WorkingMeans, Zenon DEF commit, others, Goto, bookkeeping
<1>2. UNCHANGED <<last_taken_timestamp, delivered, first_timestamp, last_imu_timestamp, fed>>
  BY <1>1, SameImuSamples, SameAdapter, Zenon
<1>3. CallingWork /\ SampleInv /\ PairShape /\ QueueTypes
  BY <1>1 DEF CallingWork, ControlInv, ControlTypes, Places, SamplingInv
<1>4. /\ Work.imu_batch = None => WorkBatch = <<>>
      /\ Work.imu_batch # None =>
            /\ WorkBatch = Work.imu_batch /\ HeldBatch = WorkBatch
            /\ Mode = "StereoImu" /\ last_taken_timestamp = Work.pending.timestamp
  BY <1>3, CallingHolds
<1>5. BoundaryBounds' /\ fed' \in Seq(Nat) /\ fed \in Seq(Nat)
  BY <1>2, <1>3, Zenon DEF SampleInv, BoundaryBounds
<1>6. delivered = IF WorkBatch = HeldBatch THEN fed ELSE fed \o HeldBatch
  BY <1>1, <1>3, Zenon DEF SampleInv, SamplesConserved
<1>7. /\ last_tracked_frame_timestamp' = IF Mode = "StereoImu" THEN Work.pending.timestamp
                                         ELSE last_tracked_frame_timestamp
      /\ source = "primary" =>
            /\ tracking_work' = None /\ UNCHANGED <<startup_next_work, startup_complete>>
      /\ source # "primary" =>
            /\ startup_next_work' = None /\ startup_complete' = TRUE /\ UNCHANGED tracking_work
  BY <1>1, <1>3, CompleteMeans
<1>8. tracking_work' = None
  <2>1. source # "primary" => tracking_work = None
    BY <1>3 DEF CallingWork
  <2> QED
    BY <1>7, <2>1
<1>9. BatchPlaces' /\ BatchInOrder(tracking_work)' /\ Unsent(tracking_work, "primary")'
  BY <1>8 DEF BatchPlaces, BatchInOrder, Unsent
<1>10. BatchInOrder(startup_next_work)' /\ Unsent(startup_next_work, "startup_next")'
  <2>1. CASE source = "primary"
    <3>1. ~(pc = "commit" /\ source = "startup_next")
      BY <2>1
    <3> QED
      BY <1>1, <1>2, <1>3, <1>7, <2>1, <3>1, Zenon DEF SampleInv, BatchInOrder, Unsent
  <2>2. CASE source # "primary"
    BY <1>7, <2>2, Zenon DEF BatchInOrder, Unsent
  <2> QED
    BY <2>1, <2>2
<1>11. HeldBatch' = IF startup_next_work' # None /\ startup_next_work'.imu_batch # None
                    THEN startup_next_work'.imu_batch ELSE <<>>
  BY <1>8, Zenon DEF HeldBatch
\* After the commit, every batch taken but the second frame's has been sent.
<1>12. CASE source = "primary" /\ startup_next_work # None
  <2>1. /\ tracking_work # None /\ Work = tracking_work /\ tracking_work.stage # "Reserved"
    BY <1>3, <1>12 DEF CallingWork, Work
  <2>2. Queue!startup /\ tracking_work.imu_batch = None
        /\ startup_next_work.stage = "Ready" /\ startup_next_work.imu_batch # None
    <3>1. Queue!startup
      BY <1>3, <1>12, Zenon DEF PairShape
    <3>2. tracking_work.imu_batch = None /\ startup_next_work.stage = "Ready"
      BY <1>3, <2>1, <3>1, Zenon DEF PairShape
    <3>3. startup_next_work.stage # "Reserved"
      BY <3>2
    <3> QED
      BY <1>3, <1>12, <3>1, <3>2, <3>3, Zenon DEF PairShape
  <2>3. WorkBatch = <<>> /\ HeldBatch = startup_next_work.imu_batch
    BY <1>4, <1>12, <2>1, <2>2, Zenon DEF HeldBatch
  <2>4. startup_next_work.imu_batch # <<>>
    BY <1>3, <1>12, <2>2, Zenon DEF SampleInv, BatchInOrder
  <2>5. HeldBatch' = HeldBatch /\ delivered' = fed' \o HeldBatch'
    BY <1>2, <1>6, <1>7, <1>11, <1>12, <2>2, <2>3, <2>4, Zenon
  <2>6. SamplesConserved'
    <3>1. pc' # "commit"
      BY <1>1
    <3> QED
      BY <2>5, <3>1, Zenon DEF SamplesConserved
  <2>7. BoundaryIsLastSampledFrame'
    BY <1>2, <1>3, <1>7, <1>12, <2>2, Zenon DEF SampleInv, BoundaryIsLastSampledFrame
  <2> QED
    BY <1>5, <1>9, <1>10, <2>6, <2>7 DEF SampleInv
<1>13. CASE ~(source = "primary" /\ startup_next_work # None)
  <2>1. startup_next_work' = None
    BY <1>7, <1>13
  <2>2. HeldBatch' = <<>>
    BY <1>11, <2>1
  <2>3. WorkBatch = HeldBatch
    <3>1. CASE Work.imu_batch # None
      BY <1>4, <3>1
    <3>2. CASE Work.imu_batch = None
      <4>1. CASE source = "primary"
        <5>1. Work = tracking_work /\ startup_next_work = None
          BY <1>13, <4>1 DEF Work
        <5> QED
          BY <1>4, <3>2, <5>1, Zenon DEF HeldBatch
      <4>2. CASE source # "primary"
        <5>1. Work = startup_next_work /\ tracking_work = None
          BY <1>3, <4>2 DEF Work, CallingWork
        <5> QED
          BY <1>4, <3>2, <5>1, Zenon DEF HeldBatch
      <4> QED
        BY <4>1, <4>2
    <3> QED
      BY <3>1, <3>2
  <2>4. delivered' = fed' \o HeldBatch'
    <3>1. delivered = fed
      BY <1>6, <2>3
    <3> QED
      BY <1>2, <1>5, <2>2, <3>1, ConcatEmptySeq
  <2>5. SamplesConserved'
    <3>1. pc' # "commit"
      BY <1>1
    <3> QED
      BY <2>4, <3>1, Zenon DEF SamplesConserved
  <2>6. BoundaryIsLastSampledFrame'
    <3> SUFFICES ASSUME Mode = "StereoImu"
                 PROVE  startup_complete' /\ last_taken_timestamp' = last_tracked_frame_timestamp'
      BY <1>8, <2>1, Zenon DEF BoundaryIsLastSampledFrame
    <3>1. Work.imu_batch # None /\ startup_complete'
      <4>1. CASE source = "primary"
        <5>1. /\ Work = tracking_work /\ startup_next_work = None
              /\ tracking_work # None /\ tracking_work.stage = "Executing"
          BY <1>3, <1>13, <4>1 DEF Work, CallingWork
        <5>2. startup_complete
          BY <1>3, <5>1, Zenon DEF PairShape, Queue!startup
        <5>3. tracking_work.stage # "Reserved"
          BY <5>1
        <5> QED
          BY <1>3, <1>7, <4>1, <5>1, <5>2, <5>3, Zenon DEF SampleInv, BatchPlaces
      <4>2. CASE source # "primary"
        <5>1. /\ Work = startup_next_work
              /\ startup_next_work # None /\ startup_next_work.stage # "Reserved"
          BY <1>3, <4>2 DEF Work, CallingWork
        <5> QED
          BY <1>3, <1>7, <4>2, <5>1, Zenon DEF PairShape
      <4> QED
        BY <4>1, <4>2
    <3> QED
      BY <1>2, <1>4, <1>7, <3>1
  <2> QED
    BY <1>5, <1>9, <1>10, <2>5, <2>6 DEF SampleInv
<1> QED
  BY <1>12, <1>13

-----------------------------------------------------------------------------
(* Samples: every step                                                      *)

LEMMA SampleStep ==
    ASSUME ControlInv, SamplingInv, FrameInv, Next PROVE SampleInv'
<1>1. SampleInv /\ PairShape /\ QueueTypes
  BY Zenon DEF SamplingInv
<1>2. CASE Reception
  BY <1>1, <1>2, ReceptionSamples
<1>3. CASE tick
  BY <1>1, <1>3, TickSamples
<1>4. CASE poll \/ check_imu_timeline \/ execute
  <2>1. /\ UNCHANGED <<queue, imu, adapter>>
        /\ pc \in {"idle", "timeline", "ready"}
        /\ pc' \in {"timeline", "acquire", "failing", "idle", "permit"}
        /\ ~tracking_failed' => ~tracking_failed
    BY <1>4, Zenon DEF poll, check_imu_timeline, execute, others, Goto, Raise, bookkeeping
  <2>2. pc # "commit" /\ pc' # "commit"
    BY <2>1
  <2> QED
    BY <1>1, <2>1, <2>2, QuietSamples
<1>5. CASE notify \/ execute_startup_next \/ tracking_failure
  <2>1. /\ UNCHANGED <<queue, imu, adapter>> /\ pc \in {"notify", "next", "failing"}
    BY <1>5, Zenon DEF notify, execute_startup_next, tracking_failure, others
  <2>2. /\ pc' \in {"next", "failing", "idle", "permit"}
        /\ ~tracking_failed' => ~tracking_failed
    <3>1. CASE notify
      <4>1. \/ Goto(IF source = "primary" /\ Queue!startup THEN "next" ELSE "idle")
            \/ Raise("CallbackError", "notification")
        BY <3>1, Zenon DEF notify
      <4> QED
        BY <4>1 DEF Goto, Raise, bookkeeping
    <3>2. CASE execute_startup_next
      BY <3>2 DEF execute_startup_next, Goto, bookkeeping
    <3>3. CASE tracking_failure
      BY <3>3 DEF tracking_failure, Goto, bookkeeping
    <3> QED
      BY <1>5, <3>1, <3>2, <3>3
  <2>3. pc # "commit" /\ pc' # "commit"
    BY <2>1, <2>2
  <2> QED
    BY <1>1, <2>1, <2>2, <2>3, QuietSamples
<1>6. CASE acquire \/ discard_startup_first \/ permit
  BY <1>1, <1>6, AcquireSamples, DiscardSamples, PermitSamples
<1>7. CASE prepare_work \/ backend \/ commit
  BY <1>7, PrepareSamples, BackendSamples, CommitSamples
<1> QED
  BY <1>2, <1>3, <1>4, <1>5, <1>6, <1>7, NextSplits, Zenon DEF Tracking

-----------------------------------------------------------------------------
(* Frames: what upstream has seen is older than what it will see            *)

\* A frame that the coordinator owns and whose call has not returned, or one
\* that has just arrived.
Owed(entry) ==
    \/ /\ tracking_work # None /\ entry = tracking_work.pending
       /\ ~(pc = "commit" /\ source = "primary")
    \/ /\ startup_next_work # None /\ entry = startup_next_work.pending
       /\ ~(pc = "commit" /\ source = "startup_next")
    \/ \E i \in 1..Len(pending_frames) : entry = pending_frames[i]
    \/ last_received_frame_timestamp # None => last_received_frame_timestamp < entry.timestamp

\* Steps that neither call upstream nor own a frame out of nothing.
FramesUntouched ==
    /\ last_frame_timestamp' = last_frame_timestamp
    /\ ~tracking_failed' =>
          /\ ~tracking_failed
          /\ log # <<>> \/ pc = "commit" => log' # <<>> \/ pc' = "commit"
          /\ last_received_frame_timestamp' = last_received_frame_timestamp
             \/ /\ last_received_frame_timestamp' \in Nat
                /\ last_received_frame_timestamp # None =>
                      last_received_frame_timestamp < last_received_frame_timestamp'
          /\ \A i \in 1..Len(pending_frames') : Owed(pending_frames'[i])
          /\ tracking_work' # None /\ ~(pc' = "commit" /\ source' = "primary") =>
                Owed(tracking_work'.pending)
          /\ startup_next_work' # None /\ ~(pc' = "commit" /\ source' = "startup_next") =>
                Owed(startup_next_work'.pending)

LEMMA FramesKept ==
    ASSUME QueueTypes, QueueTypes', FrameInv, FramesUntouched PROVE FrameInv'
<1> SUFFICES ASSUME last_frame_timestamp' # None
             PROVE  /\ last_frame_timestamp' \in Nat
                    /\ ~tracking_failed' =>
                          /\ log' # <<>> \/ pc' = "commit"
                          /\ last_received_frame_timestamp' # None
                          /\ last_frame_timestamp' <= last_received_frame_timestamp'
                          /\ \A i \in 1..Len(pending_frames') :
                                last_frame_timestamp' < pending_frames'[i].timestamp
                          /\ Untracked(tracking_work, "primary")'
                          /\ Untracked(startup_next_work, "startup_next")'
  BY Zenon DEF FrameInv
<1>1. last_frame_timestamp' = last_frame_timestamp /\ last_frame_timestamp \in Nat
  BY DEF FrameInv, FramesUntouched
<1> SUFFICES ASSUME ~tracking_failed'
             PROVE  /\ log' # <<>> \/ pc' = "commit"
                    /\ last_received_frame_timestamp' # None
                    /\ last_frame_timestamp <= last_received_frame_timestamp'
                    /\ \A i \in 1..Len(pending_frames') :
                          last_frame_timestamp < pending_frames'[i].timestamp
                    /\ Untracked(tracking_work, "primary")'
                    /\ Untracked(startup_next_work, "startup_next")'
  BY <1>1, Zenon
<1>2. /\ ~tracking_failed
      /\ log # <<>> \/ pc = "commit"
      /\ last_received_frame_timestamp # None
      /\ last_frame_timestamp <= last_received_frame_timestamp
      /\ \A i \in 1..Len(pending_frames) :
            last_frame_timestamp < pending_frames[i].timestamp
      /\ Untracked(tracking_work, "primary")
      /\ Untracked(startup_next_work, "startup_next")
  BY <1>1, Zenon DEF FrameInv, FramesUntouched
<1>3. log' # <<>> \/ pc' = "commit"
  BY <1>2, Zenon DEF FramesUntouched
<1>4. last_received_frame_timestamp \in Nat /\ None \notin Nat
  BY <1>2, Constants DEF QueueTypes
<1>5. /\ last_received_frame_timestamp' # None
      /\ last_frame_timestamp <= last_received_frame_timestamp'
  BY <1>1, <1>2, <1>4 DEF FramesUntouched
<1>6. ASSUME NEW entry \in Queue!PendingFrame, Owed(entry)
      PROVE  last_frame_timestamp < entry.timestamp
  <2>1. CASE last_received_frame_timestamp < entry.timestamp
    <3>1. entry.timestamp \in Nat
      BY Constants DEF Queue!PendingFrame
    <3> QED
      BY <1>1, <1>2, <1>4, <2>1, <3>1
  <2>2. CASE ~(last_received_frame_timestamp < entry.timestamp)
    BY <1>2, <1>6, <2>2, Zenon DEF Owed, Untracked
  <2> QED
    BY <2>1, <2>2
<1>7. \A i \in 1..Len(pending_frames') : last_frame_timestamp < pending_frames'[i].timestamp
  <2> SUFFICES ASSUME NEW i \in 1..Len(pending_frames')
               PROVE  last_frame_timestamp < pending_frames'[i].timestamp
    OBVIOUS
  <2>1. pending_frames'[i] \in Queue!PendingFrame
    BY ElementOfSeq DEF QueueTypes
  <2>2. Owed(pending_frames'[i])
    BY Zenon DEF FramesUntouched
  <2> QED
    BY <1>6, <2>1, <2>2
<1>8. Untracked(tracking_work, "primary")'
  <2>1. tracking_work' # None => tracking_work'.pending \in Queue!PendingFrame
    BY WorkFields DEF QueueTypes
  <2> QED
    BY <1>1, <1>6, <2>1, Zenon DEF FramesUntouched, Untracked
<1>9. Untracked(startup_next_work, "startup_next")'
  <2>1. startup_next_work' # None => startup_next_work'.pending \in Queue!PendingFrame
    BY WorkFields DEF QueueTypes
  <2> QED
    BY <1>1, <1>6, <2>1, Zenon DEF FramesUntouched, Untracked
<1> QED
  BY <1>3, <1>5, <1>7, <1>8, <1>9

(* A step that leaves the queue and the adapter alone, outside of a call    *)
(* that returned.                                                           *)
LEMMA QuietFrames ==
    ASSUME QueueTypes, QueueTypes', FrameInv,
           UNCHANGED <<tracking_work, startup_next_work, pending_frames, log,
                       last_received_frame_timestamp, last_frame_timestamp>>,
           ~tracking_failed' => ~tracking_failed,
           pc = "commit" => pc' = pc /\ source' = source
    PROVE  FrameInv'
<1>1. FramesUntouched
  BY Zenon DEF FramesUntouched, Owed
<1> QED
  BY <1>1, FramesKept

LEMMA SameFrames ==
    ASSUME UNCHANGED <<queue, adapter>>
    PROVE  UNCHANGED <<tracking_work, startup_next_work, pending_frames, log,
                       last_received_frame_timestamp, last_frame_timestamp>>
BY Zenon DEF queue, adapter

(* An admitted frame is newer than every frame received before.             *)
LEMMA ReceptionFrames ==
    ASSUME ControlInv, QueueTypes, QueueTypes', FrameInv, Reception PROVE FrameInv'
<1>1. /\ UNCHANGED <<tracking_work, startup_next_work, log, tracking, adapter>>
      /\ \/ UNCHANGED <<pending_frames, last_received_frame_timestamp>>
         \/ \E t \in FrameTimes : Queue!admit(t) \/ Queue!discard_incoming(t)
  BY ReceptionMeans
<1>2. UNCHANGED <<pc, source, tracking_failed, last_frame_timestamp>>
  BY <1>1, SameAdapter, Zenon DEF tracking
<1>3. CASE UNCHANGED <<pending_frames, last_received_frame_timestamp>>
  BY <1>1, <1>2, <1>3, QuietFrames, Zenon
<1>4. ASSUME NEW t \in FrameTimes, Queue!admit(t) \/ Queue!discard_incoming(t) PROVE FrameInv'
  <2>1. t \in Nat
    BY Constants
  <2>2. /\ last_received_frame_timestamp' = t
        /\ last_received_frame_timestamp # None => last_received_frame_timestamp < t
    <3>1. last_received_frame_timestamp' = t /\ ~Queue!Stale(t)
      BY <1>4, AdmissionMeans
    <3>2. last_received_frame_timestamp # None => last_received_frame_timestamp \in Nat
      BY Constants DEF QueueTypes
    <3> QED
      BY <2>1, <3>1, <3>2 DEF Queue!Stale
  <2>3. \A i \in 1..Len(pending_frames') : Owed(pending_frames'[i])
    <3>1. CASE Queue!discard_incoming(t)
      <4>1. pending_frames' = pending_frames
        BY <3>1, Zenon DEF Queue!discard_incoming
      <4> QED
        BY <4>1, Zenon DEF Owed
    <3>2. CASE Queue!admit(t)
      <4> DEFINE entry == [timestamp |-> t, enqueue_sequence |-> Queue!NextSequence]
      <4>1. pending_frames' = Append(IF Queue!Full THEN Tail(pending_frames)
                                     ELSE pending_frames, entry)
            /\ (Queue!Full => pending_frames # <<>>)
        BY <3>2, Zenon DEF Queue!admit
      <4>2. Owed(entry)
        <5>1. entry.timestamp = t
          OBVIOUS
        <5> QED
          BY <2>2, <5>1 DEF Owed
      <4> HIDE DEF entry
      <4>3. ASSUME NEW i \in 1..Len(pending_frames')
            PROVE  pending_frames'[i] = entry
                   \/ \E j \in 1..Len(pending_frames) : pending_frames'[i] = pending_frames[j]
        <5>1. pending_frames \in Seq(Queue!PendingFrame)
          BY DEF QueueTypes
        <5>2. CASE Queue!Full
          <6>1. /\ pending_frames' = Append(Tail(pending_frames), entry)
                /\ pending_frames # <<>>
            BY <4>1, <5>2
          <6>2. /\ Tail(pending_frames) \in Seq(Queue!PendingFrame)
                /\ Len(Tail(pending_frames)) = Len(pending_frames) - 1
                /\ \A k \in 1..Len(Tail(pending_frames)) :
                      Tail(pending_frames)[k] = pending_frames[k + 1]
            BY <5>1, <6>1, HeadTailProperties
          <6>3. Len(pending_frames) \in Nat /\ Len(Tail(pending_frames)) \in Nat
            BY <5>1, <6>2, LenProperties
          <6>4. Len(pending_frames') = Len(Tail(pending_frames)) + 1
            BY <6>1, <6>2
          <6>5. CASE i = Len(pending_frames')
            BY <6>1, <6>2, <6>4, <6>5
          <6>6. CASE i # Len(pending_frames')
            <7>1. i \in 1..Len(Tail(pending_frames)) /\ i + 1 \in 1..Len(pending_frames)
              <8>1. i \in 1..(Len(Tail(pending_frames)) + 1)
                    /\ i # Len(Tail(pending_frames)) + 1
                BY <6>4, <6>6
              <8>2. i \in 1..Len(Tail(pending_frames))
                BY <6>3, <8>1
              <8> QED
                BY <6>2, <6>3, <8>2
            <7>2. pending_frames'[i] = pending_frames[i + 1]
              BY <6>1, <6>2, <7>1
            <7> QED
              BY <7>1, <7>2
          <6> QED
            BY <6>5, <6>6
        <5>3. CASE ~Queue!Full
          <6>1. pending_frames' = Append(pending_frames, entry)
            BY <4>1, <5>3
          <6>2. Len(pending_frames) \in Nat
            BY <5>1, LenProperties
          <6>3. Len(pending_frames') = Len(pending_frames) + 1
            BY <5>1, <6>1
          <6>4. CASE i = Len(pending_frames')
            BY <5>1, <6>1, <6>3, <6>4
          <6>5. CASE i # Len(pending_frames')
            <7>1. i \in 1..Len(pending_frames)
              BY <6>2, <6>3, <6>5
            <7>2. pending_frames'[i] = pending_frames[i]
              BY <5>1, <6>1, <7>1
            <7> QED
              BY <7>1, <7>2
          <6> QED
            BY <6>4, <6>5
        <5> QED
          BY <5>2, <5>3
      <4> QED
        BY <4>2, <4>3, Zenon DEF Owed
    <3> QED
      BY <1>4, <3>1, <3>2
  <2>4. FramesUntouched
    <3>1. /\ tracking_work' # None /\ ~(pc' = "commit" /\ source' = "primary") =>
                Owed(tracking_work'.pending)
          /\ startup_next_work' # None /\ ~(pc' = "commit" /\ source' = "startup_next") =>
                Owed(startup_next_work'.pending)
      BY <1>1, <1>2, Zenon DEF Owed
    <3>2. last_received_frame_timestamp' \in Nat
      BY <2>1, <2>2
    <3> QED
      BY <1>1, <1>2, <2>2, <2>3, <3>1, <3>2, Zenon DEF FramesUntouched
  <2> QED
    BY <2>4, FramesKept
<1> QED
  BY <1>1, <1>3, <1>4, Zenon

(* Reserved frames come from the queue.                                     *)
LEMMA AcquireFrames ==
    ASSUME ControlInv, QueueTypes, QueueTypes', FrameInv, acquire PROVE FrameInv'
<1>1. /\ pc = "acquire" /\ pc' \in {"failing", "sample", "idle"}
      /\ ~tracking_failed' => ~tracking_failed
      /\ UNCHANGED <<gate, imu, adapter, receiving>>
  BY Zenon DEF acquire, others, Goto, Raise, bookkeeping
<1>2. pc # "commit" /\ last_frame_timestamp' = last_frame_timestamp
  BY <1>1, SameAdapter
<1>3. CASE UNCHANGED queue
  BY <1>1, <1>2, <1>3, SameFrames, QuietFrames
<1>4. pending_frames \in Seq(Queue!PendingFrame) /\ Len(pending_frames) \in Nat
  BY LenProperties DEF QueueTypes
<1>5. \A entry : Queue!Reserve(entry).pending = entry
  BY DEF Queue!Reserve
\* What is left of the queue after its front was reserved.
<1>6. ASSUME pending_frames # <<>>
      PROVE  /\ 1 \in 1..Len(pending_frames) /\ Head(pending_frames) = pending_frames[1]
             /\ \A i \in 1..Len(Tail(pending_frames)) :
                   \E j \in 1..Len(pending_frames) : Tail(pending_frames)[i] = pending_frames[j]
  <2>1. Len(pending_frames) \in Nat \ {0}
    BY <1>4, <1>6, EmptySeq
  <2>2. /\ Len(Tail(pending_frames)) = Len(pending_frames) - 1
        /\ Tail(pending_frames) \in Seq(Queue!PendingFrame)
        /\ \A k \in 1..Len(Tail(pending_frames)) :
              Tail(pending_frames)[k] = pending_frames[k + 1]
    BY <1>4, <1>6, HeadTailProperties
  <2>3. \A i \in 1..Len(Tail(pending_frames)) : i + 1 \in 1..Len(pending_frames)
    BY <2>1, <2>2
  <2> QED
    BY <1>4, <1>6, <2>1, <2>2, <2>3
<1>7. ASSUME UNCHANGED <<log, last_received_frame_timestamp>>,
             \A i \in 1..Len(pending_frames') :
                \E j \in 1..Len(pending_frames) : pending_frames'[i] = pending_frames[j],
             tracking_work' # None =>
                \/ tracking_work' = tracking_work
                \/ \E j \in 1..Len(pending_frames) : tracking_work'.pending = pending_frames[j],
             startup_next_work' # None =>
                \/ startup_next_work' = startup_next_work
                \/ \E j \in 1..Len(pending_frames) :
                      startup_next_work'.pending = pending_frames[j]
      PROVE  FrameInv'
  <2>1. FramesUntouched
    BY <1>1, <1>2, <1>7, Zenon DEF FramesUntouched, Owed
  <2> QED
    BY <2>1, FramesKept
<1>8. CASE Queue!reserve_tracking_work
  <2>1. /\ pending_frames # <<>> /\ UNCHANGED <<startup_next_work, log, last_received_frame_timestamp>>
        /\ tracking_work' = Queue!Reserve(Head(pending_frames))
        /\ pending_frames' = Tail(pending_frames)
    BY <1>8, Zenon DEF Queue!reserve_tracking_work, Queue!timestamps
  <2> QED
    BY <1>5, <1>6, <1>7, <2>1, Zenon
<1>9. CASE Queue!reserve_startup_pair
  <2>1. UNCHANGED <<log, last_received_frame_timestamp>>
    BY <1>9, Zenon DEF Queue!reserve_startup_pair, Queue!timestamps
  <2>2. CASE /\ tracking_work # None /\ pending_frames # <<>>
             /\ startup_next_work' = Queue!Reserve(Head(pending_frames))
             /\ pending_frames' = Tail(pending_frames) /\ UNCHANGED tracking_work
    BY <1>5, <1>6, <1>7, <2>1, <2>2, Zenon
  <2>3. CASE /\ Len(pending_frames) >= 2
             /\ tracking_work' = Queue!Reserve(pending_frames[1])
             /\ startup_next_work' = Queue!Reserve(pending_frames[2])
             /\ pending_frames' = Tail(Tail(pending_frames))
    <3>1. 1 \in 1..Len(pending_frames) /\ 2 \in 1..Len(pending_frames)
      BY <1>4, <2>3
    <3>2. /\ Len(pending_frames') = Len(pending_frames) - 2
          /\ \A i \in 1..Len(pending_frames') : pending_frames'[i] = pending_frames[i + 2]
      BY <1>4, <2>3
    <3>3. \A i \in 1..Len(pending_frames') : i + 2 \in 1..Len(pending_frames)
      BY <1>4, <2>3, <3>2
    <3>4. \A i \in 1..Len(pending_frames') :
             \E j \in 1..Len(pending_frames) : pending_frames'[i] = pending_frames[j]
      BY <3>2, <3>3
    <3> QED
      BY <1>5, <1>7, <2>1, <2>3, <3>1, <3>4, Zenon
  <2> QED
    BY <1>9, <2>2, <2>3, Zenon DEF Queue!reserve_startup_pair
<1> QED
  BY <1>3, <1>8, <1>9, Zenon DEF acquire

(* Sampling, promotion and the start of a call keep the owned frames.       *)
LEMMA WorkFrames ==
    ASSUME ControlInv, QueueTypes, QueueTypes', FrameInv,
           prepare_work \/ discard_startup_first \/ permit
    PROVE  FrameInv'
<1>1. /\ pc \in {"sample", "discard", "permit"} /\ (~tracking_failed' => ~tracking_failed)
      /\ UNCHANGED adapter
  <2>1. ~tracking_failed
    <3>1. pc \in {"sample", "discard", "permit"}
      BY Zenon DEF prepare_work, discard_startup_first, permit
    <3> QED
      BY <3>1, WorkingMeans
  <2> QED
    BY <2>1, Zenon DEF prepare_work, discard_startup_first, permit, others
<1>2. pc # "commit" /\ last_frame_timestamp' = last_frame_timestamp
  BY <1>1, SameAdapter
<1>3. ASSUME UNCHANGED <<log, last_received_frame_timestamp, pending_frames>>,
             tracking_work' # None =>
                \/ tracking_work # None /\ tracking_work'.pending = tracking_work.pending
                \/ startup_next_work # None /\ tracking_work'.pending = startup_next_work.pending,
             startup_next_work' # None =>
                startup_next_work # None /\ startup_next_work'.pending = startup_next_work.pending
      PROVE  FrameInv'
  <2>1. FramesUntouched
    BY <1>1, <1>2, <1>3, Zenon DEF FramesUntouched, Owed
  <2> QED
    BY <2>1, FramesKept
<1>4. CASE UNCHANGED queue
  BY <1>3, <1>4, Zenon DEF queue
<1>5. ASSUME NEW batch, Queue!make_ready(batch) PROVE FrameInv'
  <2>1. /\ tracking_work # None /\ (Queue!startup => startup_next_work # None)
        /\ UNCHANGED <<log, last_received_frame_timestamp, pending_frames>>
    BY <1>5, Zenon DEF Queue!make_ready, Queue!timestamps, Queue!Unsampled
  <2>2. /\ tracking_work \in Queue!TrackingWork
        /\ Queue!startup => startup_next_work \in Queue!TrackingWork
    BY <2>1 DEF QueueTypes
  <2>3. CASE Queue!startup
    <3>1. /\ startup_next_work' = [startup_next_work EXCEPT !.stage = "Ready", !.imu_batch = batch]
          /\ tracking_work' = [tracking_work EXCEPT !.stage = "Ready"]
      BY <1>5, <2>3, Zenon DEF Queue!make_ready
    <3>2. /\ startup_next_work'.pending = startup_next_work.pending
          /\ tracking_work'.pending = tracking_work.pending
      BY <2>2, <2>3, <3>1 DEF Queue!TrackingWork
    <3> QED
      BY <1>3, <2>1, <2>3, <3>2
  <2>4. CASE ~Queue!startup
    <3>1. /\ tracking_work' = [tracking_work EXCEPT !.stage = "Ready", !.imu_batch = batch]
          /\ startup_next_work' = startup_next_work
      BY <1>5, <2>4, Zenon DEF Queue!make_ready
    <3>2. tracking_work'.pending = tracking_work.pending
      BY <2>2, <3>1 DEF Queue!TrackingWork
    <3> QED
      BY <1>3, <2>1, <3>1, <3>2
  <2> QED
    BY <2>3, <2>4
<1>6. CASE prepare_work
  BY <1>4, <1>5, <1>6, Zenon DEF prepare_work, sample_imu
<1>7. CASE discard_startup_first
  <2>1. /\ startup_next_work # None /\ tracking_work' = startup_next_work
        /\ startup_next_work' = None
        /\ UNCHANGED <<log, last_received_frame_timestamp, pending_frames>>
    BY <1>7, Zenon DEF discard_startup_first, Queue!discard_startup_first, Queue!timestamps
  <2> QED
    BY <1>3, <2>1, Zenon
<1>8. CASE permit
  <2>1. CASE IF source = "primary" THEN Queue!begin_primary ELSE Queue!begin_startup_next
    <3>1. source = "primary" => tracking_work # None
      BY <2>1, Zenon DEF Queue!begin_primary
    <3>2. source # "primary" => startup_next_work # None
      BY <2>1, Zenon DEF Queue!begin_startup_next
    <3> QED
      BY <1>3, <2>1, <3>1, <3>2, BeginMeans, Zenon
  <2> QED
    BY <1>4, <1>8, <2>1, Zenon DEF permit, permit_refused
<1> QED
  BY <1>6, <1>7, <1>8

(* A call that returns makes its frame upstream's newest.                   *)
LEMMA BackendFrames ==
    ASSUME ControlInv, SamplingInv, FrameInv, QueueTypes', backend PROVE FrameInv'
<1>1. pc = "backend" /\ ~tracking_failed /\ UNCHANGED queue
  BY WorkingMeans, Zenon DEF backend
<1>2. UNCHANGED <<tracking_work, startup_next_work, pending_frames, log,
                  last_received_frame_timestamp>>
  BY <1>1, Zenon DEF queue
<1>3. CallingWork /\ QueueTypes /\ FrameOrder
  BY <1>1 DEF CallingWork, ControlInv, ControlTypes, Places, SamplingInv
<1>4. Work \in Queue!TrackingWork /\ FramePlace(Work) /\ Work # None
  BY <1>3, Zenon DEF CallingWork, QueueTypes, Work, FrameOrder
<1>5. Work.pending.timestamp \in Nat
  BY <1>4, WorkFields
<1>6. \/ /\ Adapter!track_returns(Work.pending.timestamp, WorkBatch) /\ Goto("commit")
      \/ /\ Adapter!track_throws(Work.pending.timestamp, WorkBatch)
         /\ Raise("BackendError", "upstream")
  BY <1>1, AdapterAccepts, Zenon DEF backend
<1>7. CASE /\ Adapter!track_throws(Work.pending.timestamp, WorkBatch)
           /\ Raise("BackendError", "upstream")
  <2>1. tracking_failed' = TRUE
    BY <1>7, Zenon DEF Raise
  <2>2. \/ last_frame_timestamp' = Work.pending.timestamp
        \/ last_frame_timestamp' = last_frame_timestamp
    BY <1>7, Zenon DEF Adapter!track_throws, Adapter!Advance, Adapter!timeline
  <2> QED
    BY <1>5, <2>1, <2>2 DEF FrameInv
<1>8. CASE /\ Adapter!track_returns(Work.pending.timestamp, WorkBatch) /\ Goto("commit")
  <2>1. /\ last_frame_timestamp' = Work.pending.timestamp /\ pc' = "commit" /\ source' = source
    BY <1>8, Zenon DEF Adapter!track_returns, Adapter!Advance, Goto, bookkeeping
  <2>2. /\ last_received_frame_timestamp' # None
        /\ last_frame_timestamp' <= last_received_frame_timestamp'
        /\ \A i \in 1..Len(pending_frames') : last_frame_timestamp' < pending_frames'[i].timestamp
    BY <1>2, <1>4, <2>1, Zenon DEF FramePlace
  <2>3. Untracked(tracking_work, "primary")' /\ Untracked(startup_next_work, "startup_next")'
    <3>1. CASE source = "primary"
      <4>1. Work = tracking_work
        BY <3>1 DEF Work
      <4> QED
        BY <1>2, <1>3, <1>4, <2>1, <3>1, <4>1, Zenon DEF Untracked, FrameOrder
    <3>2. CASE source = "startup_next"
      <4>1. tracking_work = None
        BY <1>3, <3>2 DEF CallingWork
      <4> QED
        BY <1>2, <2>1, <3>2, <4>1, Zenon DEF Untracked
    <3> QED
      BY <1>3, <3>1, <3>2, Zenon DEF CallingWork
  <2> QED
    BY <1>5, <2>1, <2>2, <2>3, Zenon DEF FrameInv
<1> QED
  BY <1>6, <1>7, <1>8

(* The committed frame is not owned any more, and logged.                   *)
LEMMA CommitFrames ==
    ASSUME ControlInv, QueueTypes, QueueTypes', FrameInv, commit PROVE FrameInv'
<1>1. /\ pc = "commit" /\ UNCHANGED adapter /\ tracking_failed' = tracking_failed
      /\ IF source = "primary" THEN Queue!complete_primary ELSE Queue!complete_startup_next
  BY Zenon DEF commit, others, Goto, bookkeeping
<1>2. last_frame_timestamp' = last_frame_timestamp
  BY <1>1, SameAdapter
<1>3. /\ log' = Append(log, Work.pending.enqueue_sequence)
      /\ UNCHANGED <<pending_frames, last_received_frame_timestamp>>
      /\ source = "primary" => tracking_work' = None /\ UNCHANGED startup_next_work
      /\ source # "primary" => startup_next_work' = None /\ UNCHANGED tracking_work
  BY <1>1, CompleteMeans
<1>4. log' # <<>>
  <2>1. log \in Seq(Nat \ {0})
    BY DEF QueueTypes
  <2>2. Len(log') = Len(log) + 1 /\ Len(log) \in Nat
    BY <1>3, <2>1
  <2> QED
    BY <2>2, EmptySeq
<1>5. ~(source = "primary" /\ source = "startup_next")
  OBVIOUS
<1>6. source \in {"primary", "startup_next"}
  BY Zenon DEF ControlInv, ControlTypes
<1>7. /\ tracking_work' # None => Owed(tracking_work'.pending)
      /\ startup_next_work' # None => Owed(startup_next_work'.pending)
  BY <1>1, <1>3, <1>5, <1>6, Zenon DEF Owed
<1>8. FramesUntouched
  BY <1>1, <1>2, <1>3, <1>4, <1>7, Zenon DEF FramesUntouched, Owed
<1> QED
  BY <1>8, FramesKept

LEMMA FrameStep ==
    ASSUME ControlInv, SamplingInv, FrameInv, QueueTypes', Next PROVE FrameInv'
<1>1. QueueTypes
  BY Zenon DEF SamplingInv
<1>2. CASE Reception
  BY <1>1, <1>2, ReceptionFrames
<1>3. CASE tick
  <2>1. UNCHANGED <<queue, adapter, pc, source, tracking_failed>>
    BY <1>3, Zenon DEF tick, others
  <2> QED
    BY <1>1, <2>1, SameFrames, QuietFrames
<1>4. CASE poll \/ check_imu_timeline \/ execute
  <2>1. /\ UNCHANGED <<queue, adapter>> /\ pc \in {"idle", "timeline", "ready"}
        /\ ~tracking_failed' => ~tracking_failed
    BY <1>4, Zenon DEF poll, check_imu_timeline, execute, others, Goto, Raise, bookkeeping
  <2>2. pc # "commit"
    BY <2>1
  <2> QED
    BY <1>1, <2>1, <2>2, SameFrames, QuietFrames
<1>5. CASE notify \/ execute_startup_next \/ tracking_failure
  <2>1. UNCHANGED <<queue, adapter>> /\ pc \in {"notify", "next", "failing"}
    BY <1>5, Zenon DEF notify, execute_startup_next, tracking_failure, others
  <2>2. ~tracking_failed' => ~tracking_failed
    <3>1. CASE notify
      <4>1. ~tracking_failed
        BY <3>1, WorkingMeans DEF notify
      <4> QED
        BY <4>1
    <3>2. CASE execute_startup_next \/ tracking_failure
      BY <3>2, Zenon DEF execute_startup_next, tracking_failure, Goto, bookkeeping
    <3> QED
      BY <1>5, <3>1, <3>2
  <2>3. pc # "commit"
    BY <2>1
  <2> QED
    BY <1>1, <2>1, <2>2, <2>3, SameFrames, QuietFrames
<1>6. CASE acquire
  BY <1>1, <1>6, AcquireFrames
<1>7. CASE prepare_work \/ discard_startup_first \/ permit
  BY <1>1, <1>7, WorkFrames
<1>8. CASE backend \/ commit
  BY <1>1, <1>8, BackendFrames, CommitFrames
<1> QED
  BY <1>2, <1>3, <1>4, <1>5, <1>6, <1>7, <1>8, NextSplits, Zenon DEF Tracking

-----------------------------------------------------------------------------
(* The theorems                                                             *)

Inv == ControlInv /\ QueueInv /\ ImuFacts!IInv /\ SampleInv /\ FrameInv

LEMMA InvMeans == ASSUME Inv PROVE SamplingInv /\ ControlInv /\ FrameInv
BY QueueMeans DEF Inv, SamplingInv

LEMMA InvInit == Init => Inv
<1> SUFFICES ASSUME Init PROVE Inv
  OBVIOUS
<1>1. QueueInv /\ ImuFacts!IInv
  BY QueueInvInit, ImuInvInit, Zenon DEF Init
<1>2. /\ tracking_work = None /\ startup_next_work = None /\ processed_frames = 0
      /\ startup_complete = FALSE
  BY Zenon DEF Init, Queue!Init
<1>3. /\ stop_requested = FALSE /\ first_stop = None /\ first_failure = None
      /\ first_exception = None /\ cleanup_failed = FALSE /\ backend_starts = 0
  BY Zenon DEF Init, Stop!Init
<1>4. /\ last_taken_timestamp = None /\ delivered = <<>>
  BY Zenon DEF Init, Imu!Init
<1>5. last_frame_timestamp = None /\ last_imu_timestamp = None /\ fed = <<>>
  BY Zenon DEF Init, Adapter!Init
<1>6. /\ pc = "idle" /\ source = "primary" /\ imu_wait = None /\ tracking_failed = FALSE
      /\ failure = [reason |-> None, cause |-> None] /\ reception = "idle" /\ incoming = None
  BY Zenon DEF Init, NoFailure
<1>7. failure.reason = None /\ failure.cause = None
  BY <1>6
<1>8. ControlInv
  <2>1. Stop!TypeOK
    BY <1>3 DEF Stop!TypeOK
  <2>2. ControlTypes
    BY <1>6, <1>7, <2>1 DEF ControlTypes
  <2>3. Places /\ Waits
    BY <1>2, <1>6 DEF Places, Waits, Fresh
  <2>4. Failures
    BY <1>6, <1>7, Constants DEF Failures, FailuresStopTheProcess, NoInternalError
  <2>5. PermitsMatchCalls
    <3>1. ~Calling /\ ~BackendFailed
      BY <1>6 DEF Calling, BackendFailed
    <3> QED
      BY <1>2, <1>3, <3>1 DEF PermitsMatchCalls
  <2> QED
    BY <2>2, <2>3, <2>4, <2>5 DEF ControlInv
<1>9. SampleInv
  <2>1. fed \in Seq(Nat) /\ fed \o <<>> = fed
    BY <1>5, EmptySeq, ConcatEmptySeq
  <2>2. HeldBatch = <<>>
    BY <1>2, Zenon DEF HeldBatch
  <2>3. SamplesConserved
    BY <1>4, <1>5, <2>1, <2>2, Zenon DEF SamplesConserved
  <2>4. BatchPlaces /\ BatchInOrder(tracking_work) /\ BatchInOrder(startup_next_work)
    BY <1>2, Zenon DEF BatchPlaces, BatchInOrder
  <2>5. BoundaryIsLastSampledFrame /\ BoundaryBounds
    BY <1>2, <1>4, <1>5, Zenon DEF BoundaryIsLastSampledFrame, BoundaryBounds
  <2>6. Unsent(tracking_work, "primary") /\ Unsent(startup_next_work, "startup_next")
    BY <1>2, Zenon DEF Unsent
  <2> QED
    BY <2>1, <2>3, <2>4, <2>5, <2>6 DEF SampleInv
<1>10. FrameInv
  BY <1>5 DEF FrameInv
<1> QED
  BY <1>1, <1>8, <1>9, <1>10 DEF Inv

LEMMA PartsStep ==
    ASSUME Inv, [Next]_vars
    PROVE  [Queue!Next]_(Queue!vars) /\ [Imu!Next]_(Imu!vars)
BY InvMeans, QueueStep, ImuStep

LEMMA InvStep == Inv /\ [Next]_vars => Inv'
<1> SUFFICES ASSUME Inv, [Next]_vars PROVE Inv'
  OBVIOUS
<1>1. ControlInv /\ SamplingInv /\ FrameInv /\ QueueTypes
  BY InvMeans DEF SamplingInv
<1>2. QueueInv' /\ ImuFacts!IInv'
  BY PartsStep, QueueInvStep, ImuInvStep DEF Inv
<1>3. QueueTypes'
  BY <1>2, QueueMeans
<1>4. CASE Next
  BY <1>1, <1>2, <1>3, <1>4, ControlStep, SampleStep, FrameStep DEF Inv
<1>5. CASE UNCHANGED vars
  <2>1. FrameInv'
    <3>1. UNCHANGED <<queue, adapter, tracking>>
      BY <1>5, Zenon DEF vars
    <3>2. UNCHANGED <<pc, source, tracking_failed>>
      BY <3>1, Zenon DEF tracking
    <3> QED
      BY <1>1, <1>3, <3>1, <3>2, SameFrames, QuietFrames
  <2>2. SampleInv
    BY <1>1 DEF SamplingInv
  <2> QED
    BY <1>1, <1>2, <1>5, <2>1, <2>2, ControlStutter, StutterSamples DEF Inv
<1> QED
  BY <1>4, <1>5

LEMMA InvHolds == Spec => []Inv
BY InvInit, InvStep, PTL DEF Spec

(* Every variable keeps its type in every behaviour, those of the queue,    *)
(* the stop gate and the IMU frontend included.                             *)
THEOREM TypeInvariant == Spec => []TypeOK
<1>1. Inv => TypeOK
  <2> SUFFICES ASSUME Inv PROVE TypeOK
    OBVIOUS
  <2>1. Queue!TypeOK
    BY SameQueueTypes, Zenon DEF Inv, QueueInv
  <2>2. Imu!TypeOK
    BY SameImuTypes, Zenon DEF Inv, ImuFacts!IInv
  <2>3. ControlTypes
    BY DEF Inv, ControlInv
  <2> QED
    BY <2>1, <2>2, <2>3, Zenon DEF TypeOK, ControlTypes
<1> QED
  BY <1>1, InvHolds, PTL

(* The two threads together run the queue only through critical sections it *)
(* allows, in an order it allows: whatever holds of every FrameQueue holds  *)
(* of the queue inside the coordinator (TrackingCoordinator.cpp,            *)
(* enqueue_frame and process_pending_frames).                               *)
THEOREM CoordinatorImplementsQueue == Spec => ImplementsFrameQueue
<1>1. Init => Queue!Init
  BY DEF Init
<1>2. Inv /\ [Next]_vars => [Queue!Next]_(Queue!vars)
  BY PartsStep
<1> QED
  BY <1>1, <1>2, InvHolds, PTL DEF Spec, ImplementsFrameQueue, Queue!Spec

(* The coordinator is a user of the IMU frontend as the frontend's own      *)
(* module describes them: it asks only for intervals between frame times,   *)
(* and only closes the gate.  The frontend's theorems thus hold of it here. *)
THEOREM CoordinatorImplementsImuFrontend == Spec => Imu!Spec
<1>1. Init => Imu!Init
  BY DEF Init
<1>2. Inv /\ [Next]_vars => [Imu!Next]_(Imu!vars)
  BY PartsStep
<1> QED
  BY <1>1, <1>2, InvHolds, PTL DEF Spec, Imu!Spec

(* No logic_error or precondition branch of the tracking consumer, no       *)
(* InvalidRequest or post-startup MissingHistory of the IMU frontend, and   *)
(* no rejection by the adapter is reachable (process_pending_frames, track).*)
THEOREM InternalErrorsUnreachable == Spec => []NoInternalError
<1>1. Inv => NoInternalError
  BY Zenon DEF Inv, ControlInv, Failures
<1> QED
  BY <1>1, InvHolds, PTL

(* Every permission granted by try_begin_backend is one upstream call, that *)
(* completed its frame, still runs, or failed for good.                     *)
THEOREM PermitsAreUsedOnce == Spec => []PermitsMatchCalls
<1>1. Inv => PermitsMatchCalls
  BY Zenon DEF Inv, ControlInv
<1> QED
  BY <1>1, InvHolds, PTL

(* What takeMeasurements handed out is what completed calls were given,     *)
(* followed by the batch of the work still held.                            *)
THEOREM SamplesAreConserved == Spec => []SamplesConserved
<1>1. Inv => SamplesConserved
  BY Zenon DEF Inv, SampleInv
<1> QED
  BY <1>1, InvHolds, PTL

(* The consumption boundary of the frontend is always the frame whose       *)
(* samples were taken last, so that the next interval continues there.      *)
THEOREM BoundaryFollowsFrames == Spec => []BoundaryIsLastSampledFrame
<1>1. Inv => BoundaryIsLastSampledFrame
  BY Zenon DEF Inv, SampleInv
<1> QED
  BY <1>1, InvHolds, PTL

(* A consumer failure leads to a recorded failure and a closed gate before  *)
(* anything else of the tracking group runs.                                *)
THEOREM FailuresAreTerminal == Spec => []FailuresStopTheProcess
<1>1. Inv => FailuresStopTheProcess
  BY Zenon DEF Inv, ControlInv, Failures
<1> QED
  BY <1>1, InvHolds, PTL

(* The IMU wait clock runs only for reserved work that is not yet ready.    *)
THEOREM WaitsHaveWork == Spec => []WaitsBelongToWork
<1>1. Inv => WaitsBelongToWork
  <2> SUFFICES ASSUME Inv, imu_wait # None
               PROVE  tracking_work # None /\ ~(pc \in {"permit", "backend", "commit", "notify"})
    BY DEF WaitsBelongToWork
  <2>1. Waits
    BY DEF Inv, ControlInv
  <2> QED
    BY <2>1 DEF Waits
<1> QED
  BY <1>1, InvHolds, PTL

=============================================================================
