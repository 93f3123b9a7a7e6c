------------------------ MODULE TrackingCoordinator ------------------------
(***************************************************************************)
(* The tracking coordinator at work: the reception callbacks, the tracking *)
(* callback and the stop sources, interleaved as the two-thread executor   *)
(* of slam_node.cpp runs them, over the frame queue, the IMU frontend, the *)
(* stop gate and the adapter's input checks.                               *)
(*                                                                         *)
(* The reception group (images and IMU) and the tracking group are each    *)
(* mutually exclusive, so there is one reception thread and one tracking   *)
(* thread.  process_pending_frames is split where it takes or releases a   *)
(* lock or reads the stop flag; pc names what it does next:                *)
(*   idle      no tracking callback is running                             *)
(*   timeline  check_imu_timeline        acquire   reserve a frame or pair *)
(*   sample    prepare_imu_work          discard   discard_startup_first   *)
(*   ready     stop check, then execute  permit    try_begin_backend       *)
(*   backend   the upstream call         commit    completion accounting   *)
(*   notify    evaluation, statistics and notifications                    *)
(*   next      stop check before F1      failing   the exception reaches   *)
(*                                                 the callback guard      *)
(***************************************************************************)
EXTENDS Integers, Sequences

CONSTANTS None, Mode, Capacity,
          Times,                   \* doubles: image and IMU times
          FrameTimes,              \* the times images may carry
          Invalid,                 \* an image time that is not finite or negative
          Stamps, Seconds(_), BufferCapacity, MaxGap, MaxReceived,
          Batches,                 \* sequences of sample times
          ImuInputs,               \* the IMU messages that may arrive
          ImuWaitTimeout           \* imu_wait_timeout_sec, in clock ticks

VARIABLES
    \* FrameQueue
    pending_frames, tracking_work, startup_next_work, last_received_frame_timestamp,
    last_tracked_frame_timestamp, startup_complete, enqueued_frames, processed_frames,
    startup_discarded_frames, overload_discarded_frames, incoming_discarded_frames,
    outstanding_frames_peak, log,
    \* StopControl
    stop_requested, first_stop, first_failure, first_exception, cleanup_failed,
    backend_starts,
    \* ImuFrontend
    imu_buffer, last_taken_timestamp, last_accepted_timestamp_ns, first_timestamp,
    last_overflow_timestamp, stats, arrived, delivered,
    \* OrbSlam3Adapter
    last_frame_timestamp, last_imu_timestamp, fed,
    \* the tracking thread
    pc, source, imu_wait, tracking_failed, failure,
    \* the reception thread
    reception, incoming

Reasons == {"Signal", "CallbackError", "SamplingError", "Timeout", "BackendError"}

\* What no callback may ever find: see NoInternalError.
InternalErrors == {"retry of failed work", "resample of ready work",
                   "new pair after F0 completion", "execution of unready work",
                   "InvalidRequest", "MissingHistory", "rejected input"}

Queue == INSTANCE FrameQueue
Stop  == INSTANCE StopControl WITH MaxBackendStarts <- 0
Imu   == INSTANCE ImuFrontend
Adapter == INSTANCE OrbSlam3Adapter WITH
              shutdown_state <- "NotStarted", shutdown_failure <- FALSE,
              summary_available <- FALSE, upstream_shutdowns <- 0

(* The assumptions of the parts, and what joins them: what the IMU frontend *)
(* hands out can be the batch of a reservation, and an invalid time is none. *)
ASSUME CoordinatorAssumption ==
    /\ Queue!FrameQueueAssumption /\ Stop!StopControlAssumption /\ Imu!ImuFrontendAssumption
    /\ FrameTimes \subseteq Times /\ Invalid \notin Times
    /\ ImuInputs \subseteq Imu!Messages
    /\ \A n \in 1..BufferCapacity : \A s \in [1..n -> Times] :
          (\A i, j \in 1..n : i < j => s[i] < s[j]) => s \in Batches
    /\ None \notin InternalErrors
    /\ ImuWaitTimeout \in Nat \ {0}

queue == <<pending_frames, tracking_work, startup_next_work,
           last_received_frame_timestamp, last_tracked_frame_timestamp, startup_complete,
           enqueued_frames, processed_frames, startup_discarded_frames,
           overload_discarded_frames, incoming_discarded_frames,
           outstanding_frames_peak, log>>
gate == <<stop_requested, first_stop, first_failure, first_exception, cleanup_failed,
          backend_starts>>
imu == <<imu_buffer, last_taken_timestamp, last_accepted_timestamp_ns, first_timestamp,
         last_overflow_timestamp, stats, arrived, delivered>>
adapter == <<last_frame_timestamp, last_imu_timestamp, fed>>
tracking == <<pc, source, imu_wait, tracking_failed, failure>>
receiving == <<reception, incoming>>
vars == <<queue, gate, imu, adapter, tracking, receiving>>

NoFailure == [reason |-> None, cause |-> None]

Init ==
    /\ Queue!Init /\ Stop!Init /\ Imu!Init /\ Adapter!Init
    /\ pc = "idle"
    /\ source = "primary"
    /\ imu_wait = None
    /\ tracking_failed = FALSE
    /\ failure = NoFailure
    /\ reception = "idle"
    /\ incoming = None

-----------------------------------------------------------------------------
(* The reception thread *)

Admissible(timestamp) == timestamp # Invalid

\* enqueue and enqueue_frame up to the stop check made under queue_mutex_.
begin_enqueue(timestamp) ==
    /\ reception = "idle"
    /\ ~stop_requested
    /\ reception' = IF Admissible(timestamp) THEN "admitting" ELSE "failing"
    /\ incoming' = IF Admissible(timestamp) THEN timestamp ELSE None
    /\ UNCHANGED <<queue, gate, imu, adapter, tracking>>

\* "A passed check admits this transaction; a concurrent stop does not roll
\* it back."  The mutex is held between the two steps.  A failing allocation
\* of the new entry comes before the eviction: it changes nothing.
finish_enqueue ==
    /\ reception = "admitting"
    /\ \/ /\ Queue!Stale(incoming)
          /\ reception' = "failing"
          /\ UNCHANGED queue
       \/ Queue!discard_incoming(incoming) /\ reception' = "idle"
       \/ /\ ~Queue!Stale(incoming) /\ (Queue!Full => pending_frames # <<>>)
          /\ reception' = "failing"
          /\ UNCHANGED queue
       \/ /\ Queue!admit(incoming)
          /\ \/ reception' = "idle"
             \/ Mode = "Stereo" /\ Queue!Full /\ reception' = "failing"
    /\ incoming' = None
    /\ UNCHANGED <<gate, imu, adapter, tracking>>

\* The callback guard records the exception of an image callback.
reception_failure ==
    /\ reception = "failing"
    /\ Stop!record_failure("CallbackError", TRUE, FALSE)
    /\ reception' = "idle"
    /\ UNCHANGED <<queue, imu, adapter, tracking, incoming>>

imu_callback(m) ==
    /\ reception = "idle"
    /\ Imu!imu_callback(m)
    /\ UNCHANGED <<queue, gate, adapter, tracking, receiving>>

QueueUnlocked == reception # "admitting"

-----------------------------------------------------------------------------
(* The tracking thread: process_pending_frames *)

others == <<gate, imu, adapter, receiving>>
bookkeeping == <<source, imu_wait, tracking_failed, failure>>

Goto(label) == pc' = label /\ UNCHANGED bookkeeping

\* Mutant of Raise: the consumer may try again.
RaiseRetryable(reason, cause) ==
    /\ pc' = "failing"
    /\ failure' = [reason |-> reason, cause |-> cause]
    /\ UNCHANGED <<source, imu_wait, tracking_failed>>

\* Any exception is terminal for the consumer and goes to the callback guard.
Raise(reason, cause) ==
    /\ pc' = "failing"
    /\ tracking_failed' = TRUE
    /\ failure' = [reason |-> reason, cause |-> cause]
    /\ UNCHANGED <<source, imu_wait>>

\* Mutant of poll: the callback does not look at the stop flag.
poll_despite_stop ==
    /\ pc = "idle"
    /\ ~tracking_failed
    /\ Goto(IF Mode = "StereoImu" THEN "timeline" ELSE "acquire")
    /\ UNCHANGED <<queue, others>>

\* The retry timer fires.  After a stop the callback returns at once.
poll ==
    /\ pc = "idle"
    /\ ~stop_requested
    /\ IF tracking_failed THEN Raise("CallbackError", "retry of failed work")
       ELSE Goto(IF Mode = "StereoImu" THEN "timeline" ELSE "acquire")
    /\ UNCHANGED <<queue, others>>

check_imu_timeline ==
    /\ pc = "timeline"
    /\ IF stats["backwards"] > 0 THEN Raise("SamplingError", "backwards")
                                 ELSE Goto("acquire")
    /\ UNCHANGED <<queue, others>>

\* The reservations this callback works on are complete.
Reserved == tracking_work # None /\ (Queue!startup => startup_next_work # None)

acquire ==
    /\ pc = "acquire"
    /\ QueueUnlocked
    /\ IF Queue!startup /\ tracking_work = None /\ startup_next_work # None
       THEN Raise("CallbackError", "new pair after F0 completion") /\ UNCHANGED queue
       ELSE \/ Reserved /\ Goto("sample") /\ UNCHANGED queue
            \/ Queue!reserve_tracking_work /\ Goto("sample")
            \/ Queue!reserve_startup_pair /\ Goto("sample")
            \/ /\ ~Reserved
               /\ Len(pending_frames) < (IF Queue!startup /\ tracking_work = None THEN 2 ELSE 1)
               /\ Goto("idle") /\ UNCHANGED queue
    /\ UNCHANGED others

\* The interval whose IMU samples the reserved work needs.
Left == IF Queue!startup THEN tracking_work.pending.timestamp ELSE last_tracked_frame_timestamp
\* Mutant of Right: samples up to the newest image.
RightOfNewest == last_received_frame_timestamp

Right == IF Queue!startup THEN startup_next_work.pending.timestamp
                          ELSE tracking_work.pending.timestamp

\* Mutant of Waited: every answer WaitingForData restarts the deadline.
WaitedSinceRetry == 0

\* The deadline of a wait starts with the first WaitingForData.
Waited == IF imu_wait = None THEN 0 ELSE imu_wait

\* Mutant of WaitAfterReady: a granted interval leaves the deadline running.
WaitAfterReadyKept == imu_wait

WaitAfterReady == None

\* takeMeasurements and the handling of its answer.
sample_imu ==
    LET status == Imu!TakeStatus(Left, Right)
    IN  /\ Imu!takeMeasurements(Left, Right)
        /\ \/ /\ status = "Ready"
              /\ Queue!make_ready(Imu!Batch(Left, Right))
              /\ imu_wait' = WaitAfterReady
              /\ pc' = "ready"
              /\ UNCHANGED <<source, tracking_failed, failure>>
           \/ /\ status = "Stopped"
              /\ Goto("idle") /\ UNCHANGED queue
           \/ /\ status = "WaitingForData" /\ Waited < ImuWaitTimeout
              /\ pc' = "idle"
              /\ imu_wait' = Waited
              /\ UNCHANGED <<source, tracking_failed, failure, queue>>
           \/ /\ status = "WaitingForData" /\ Waited >= ImuWaitTimeout
              /\ Raise("Timeout", status) /\ UNCHANGED queue
           \/ /\ status = "MissingHistory" /\ Queue!startup
              /\ Goto("discard") /\ UNCHANGED queue
           \/ /\ status \in {"MissingHistory", "BufferOverflow", "DataGap", "InvalidRequest"}
              /\ ~(status = "MissingHistory" /\ Queue!startup)
              /\ Raise("SamplingError", status) /\ UNCHANGED queue

\* Stereo mode has nothing to wait for.
prepare_work ==
    /\ pc = "sample"
    /\ IF ~Queue!Unsampled
       THEN Raise("CallbackError", "resample of ready work")
            /\ UNCHANGED <<queue, imu>>
       ELSE \/ /\ Mode = "Stereo"
               /\ Queue!make_ready(None) /\ Goto("ready") /\ UNCHANGED imu
            \/ Mode = "StereoImu" /\ sample_imu
    /\ UNCHANGED <<gate, adapter, receiving>>

\* Logging the discard may throw, after the promotion is committed.
discard_startup_first ==
    /\ pc = "discard"
    /\ QueueUnlocked
    /\ Queue!discard_startup_first
    /\ Goto("idle") \/ Raise("CallbackError", "discard warning")
    /\ UNCHANGED others

execute ==
    /\ pc = "ready"
    /\ IF stop_requested THEN Goto("idle")
       ELSE pc' = "permit" /\ source' = "primary" /\ UNCHANGED <<imu_wait, tracking_failed, failure>>
    /\ UNCHANGED <<queue, others>>

Work == IF source = "primary" THEN tracking_work ELSE startup_next_work
WorkBatch == IF Work.imu_batch = None THEN <<>> ELSE Work.imu_batch

\* Mutant of permit_refused: a stop drops the work that was ready.
permit_refused_releasing ==
    /\ Stop!refuse_backend
    /\ tracking_work' = None
    /\ Goto("idle")
    /\ UNCHANGED <<pending_frames, startup_next_work, last_received_frame_timestamp,
                   last_tracked_frame_timestamp, startup_complete, enqueued_frames,
                   processed_frames, startup_discarded_frames, overload_discarded_frames,
                   incoming_discarded_frames, outstanding_frames_peak, log>>

permit_refused == Stop!refuse_backend /\ Goto("idle") /\ UNCHANGED queue

\* The logical start of a backend call; a refusal leaves the work ready.
permit ==
    /\ pc = "permit"
    /\ IF Work.stage # "Ready"
       THEN Raise("CallbackError", "execution of unready work")
            /\ UNCHANGED <<queue, gate>>
       ELSE \/ /\ Stop!begin_backend
               /\ IF source = "primary" THEN Queue!begin_primary ELSE Queue!begin_startup_next
               /\ Goto("backend")
            \/ permit_refused
    /\ UNCHANGED <<imu, adapter, receiving>>

backend ==
    /\ pc = "backend"
    /\ LET timestamp == Work.pending.timestamp
       IN  IF Adapter!Accepts(timestamp, WorkBatch)
           THEN \/ Adapter!track_returns(timestamp, WorkBatch) /\ Goto("commit")
                \/ Adapter!track_throws(timestamp, WorkBatch) /\ Raise("BackendError", "upstream")
           ELSE Raise("BackendError", "rejected input") /\ UNCHANGED adapter
    /\ UNCHANGED <<queue, gate, imu, receiving>>

commit ==
    /\ pc = "commit"
    /\ QueueUnlocked
    /\ IF source = "primary" THEN Queue!complete_primary ELSE Queue!complete_startup_next
    /\ Goto("notify")
    /\ UNCHANGED others

\* Diagnostics follow the commit; a throwing notification is still terminal.
notify ==
    /\ pc = "notify"
    /\ \/ Goto(IF source = "primary" /\ Queue!startup THEN "next" ELSE "idle")
       \/ Raise("CallbackError", "notification")
    /\ UNCHANGED <<queue, others>>

execute_startup_next ==
    /\ pc = "next"
    /\ IF stop_requested THEN Goto("idle")
       ELSE pc' = "permit" /\ source' = "startup_next"
            /\ UNCHANGED <<imu_wait, tracking_failed, failure>>
    /\ UNCHANGED <<queue, others>>

\* Mutant of tracking_failure: the exception ends in a normal stop.
tracking_failure_as_stop ==
    /\ pc = "failing"
    /\ Stop!request_stop(failure.reason)
    /\ Goto("idle")
    /\ UNCHANGED <<queue, imu, adapter, receiving>>

\* The callback guard records the failure, and with it requests the stop.
tracking_failure ==
    /\ pc = "failing"
    /\ Stop!record_failure(failure.reason, TRUE, FALSE)
    /\ Goto("idle")
    /\ UNCHANGED <<queue, imu, adapter, receiving>>

-----------------------------------------------------------------------------
(* Everything else *)

\* A signal, the Viewer or the input timer asks for a normal stop, or the Viewer,
\* the report timer or an image conversion fails.
external_stop ==
    /\ ~stop_requested
    /\ Stop!request_stop("Signal") \/ Stop!record_failure("CallbackError", TRUE, FALSE)
    /\ UNCHANGED <<queue, imu, adapter, tracking, receiving>>

\* The steady clock advances; past the timeout it makes no difference.
tick ==
    /\ imu_wait # None /\ imu_wait < ImuWaitTimeout
    /\ imu_wait' = imu_wait + 1
    /\ UNCHANGED <<queue, others, pc, source, tracking_failed, failure>>

Tracking ==
    \/ poll \/ check_imu_timeline \/ acquire \/ prepare_work \/ discard_startup_first
    \/ execute \/ permit \/ backend \/ commit \/ notify \/ execute_startup_next
    \/ tracking_failure

Next ==
    \/ \E timestamp \in FrameTimes \cup {Invalid} : begin_enqueue(timestamp)
    \/ finish_enqueue
    \/ reception_failure
    \/ \E m \in ImuInputs : imu_callback(m)
    \/ Tracking
    \/ external_stop
    \/ tick

Spec == Init /\ [][Next]_vars

(* Both executor threads keep running their callbacks, the clock advances,  *)
(* and an upstream call returns or throws.  Input need not arrive.          *)
Fairness ==
    /\ WF_vars(Tracking)
    /\ WF_vars(finish_enqueue)
    /\ WF_vars(reception_failure)
    /\ WF_vars(tick)

FairSpec == Spec /\ Fairness

-----------------------------------------------------------------------------
TypeOK ==
    /\ Queue!TypeOK /\ Stop!TypeOK /\ Imu!TypeOK
    /\ pc \in {"idle", "timeline", "acquire", "sample", "discard", "ready", "permit",
              "backend", "commit", "notify", "next", "failing"}
    /\ source \in {"primary", "startup_next"}
    /\ imu_wait \in (0..ImuWaitTimeout) \cup {None}
    /\ tracking_failed \in BOOLEAN
    /\ failure.reason \in Reasons \cup {None}
    /\ reception \in {"idle", "admitting", "failing"}
    /\ incoming \in (IF reception = "admitting" THEN FrameTimes ELSE {None})

(* The threads together keep the queue's protocol: every critical section   *)
(* they run is a step the queue allows.                                     *)
ImplementsFrameQueue == Queue!Spec

(* The logic_error and precondition branches are unreachable: no callback   *)
(* retries failed work, samples ready work again, starts a new pair after   *)
(* F0, executes unready work, or asks the IMU frontend for an interval that *)
(* does not continue the previous one; after startup history is never       *)
(* missing; and the adapter never has to refuse a frame or a batch.         *)
NoInternalError == failure.cause \notin InternalErrors

Calling == pc \in {"backend", "commit"}
BackendFailed == tracking_failed /\ failure.reason = "BackendError"

(* Each permission of the stop gate is used by exactly one upstream call,   *)
(* which completes one frame, is still running, or failed for good: "a      *)
(* granted call must not acquire permission twice".                         *)
PermitsMatchCalls ==
    backend_starts = processed_frames + (IF Calling \/ BackendFailed THEN 1 ELSE 0)

\* Consumed samples that still wait for their call to complete.
HeldBatch ==
    IF tracking_work # None /\ tracking_work.imu_batch # None THEN tracking_work.imu_batch
    ELSE IF startup_next_work # None /\ startup_next_work.imu_batch # None
         THEN startup_next_work.imu_batch
    ELSE <<>>

(* No sample is lost or sent twice between the IMU buffer and upstream:     *)
(* what the frontend delivered is what completed calls were given, followed *)
(* by the batch of the work still held, whatever the stop interrupts.       *)
(* (A call that returned is fed, although its work waits for the commit.)   *)
SamplesConserved ==
    delivered = IF pc = "commit" /\ WorkBatch = HeldBatch THEN fed ELSE fed \o HeldBatch

(* The frontend's consumption boundary is the frame whose samples were      *)
(* taken last: the held batch's frame, or else the last tracked frame.  The *)
(* next interval starts there (boundaries are compared without an epsilon). *)
BoundaryIsLastSampledFrame ==
    Mode = "StereoImu" =>
        last_taken_timestamp =
            IF startup_next_work # None /\ startup_next_work.imu_batch # None
            THEN startup_next_work.pending.timestamp
            ELSE IF tracking_work # None /\ tracking_work.imu_batch # None
                 THEN tracking_work.pending.timestamp
            ELSE IF startup_complete THEN last_tracked_frame_timestamp
            ELSE None

(* A consumer failure always ends in a recorded failure and a stop before   *)
(* the next callback; in between nothing else of the tracking group runs.   *)
FailuresStopTheProcess ==
    tracking_failed => pc = "failing" \/ (pc = "idle" /\ stop_requested /\ first_failure # None)

(* A timeout is the only answer to a wait that lasts, and only to a wait    *)
(* with a reserved frame or pair behind it.                                 *)
WaitsBelongToWork ==
    imu_wait # None => tracking_work # None /\ ~(pc \in {"permit", "backend", "commit", "notify"})

(* After the stop gate closes, at most one more backend call runs: the one  *)
(* already granted.  The tracking thread then comes to rest for good, as    *)
(* the quiescent teardown requires.                                         *)
StopQuiesces == stop_requested ~> [](pc = "idle")

(* A complete reservation never waits for ever: its frame is processed or   *)
(* replaced by the startup discard, or the process stops -- even if no IMU  *)
(* sample ever arrives.  (An incomplete startup pair waits for images,      *)
(* which the input timeout of slam_node.cpp watches.)                       *)
ReservedWorkProgresses == Reserved ~> (~Reserved \/ stop_requested)
=============================================================================
