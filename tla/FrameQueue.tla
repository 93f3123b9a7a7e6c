----------------------------- MODULE FrameQueue -----------------------------
(***************************************************************************)
(* The state of TrackingCoordinator that queue_mutex_ protects: the queue  *)
(* of admitted frames, the one or two frames the tracking consumer has     *)
(* reserved, the startup flag and the accounting                           *)
(* (src/slam/tracking_coordinator.cpp).                                    *)
(*                                                                         *)
(* Each action is one critical section, or one update the consumer makes   *)
(* to work it owns.  The module leaves open who calls the actions and when *)
(* (TrackingCoordinator does that, and implements this module): any order  *)
(* the guards allow is a behaviour.                                        *)
(*                                                                         *)
(* Abstraction: a frame is its timestamp; pixels, reception times, traces  *)
(* and log lines are left out.  log is a history variable: the enqueue     *)
(* sequences of completed frames, in completion order.                     *)
(***************************************************************************)
EXTENDS Integers, Sequences

CONSTANTS None,       \* an empty std::optional
          Mode,       \* TrackingMode: "Stereo" or "StereoImu"
          Capacity,   \* pending_frames_capacity_
          Times,      \* frame timestamps
          Batches     \* what imu_batch may hold

Stages == {"Reserved", "Ready", "Executing"}
PendingFrame == [timestamp : Times, enqueue_sequence : Nat \ {0}]
TrackingWork == [pending : PendingFrame, stage : Stages, imu_batch : Batches \cup {None}]
Optional(S) == S \cup {None}

ASSUME FrameQueueAssumption ==
    /\ Mode \in {"Stereo", "StereoImu"}
    /\ Capacity \in Nat \ {0}
    /\ Mode = "StereoImu" => Capacity >= 2
    /\ Times \subseteq Nat
    /\ None \notin Nat
    /\ None \notin Batches
    /\ None \notin TrackingWork

VARIABLES
    pending_frames,                \* std::deque<PendingFrame>
    tracking_work,                 \* the primary reservation, F0 of a startup pair
    startup_next_work,             \* F1 of a startup pair
    last_received_frame_timestamp,
    last_tracked_frame_timestamp,
    startup_complete,
    enqueued_frames, processed_frames, startup_discarded_frames,
    overload_discarded_frames, incoming_discarded_frames,
    outstanding_frames_peak,
    log                            \* history

counters == <<enqueued_frames, processed_frames, startup_discarded_frames,
              overload_discarded_frames, incoming_discarded_frames,
              outstanding_frames_peak>>
timestamps == <<last_received_frame_timestamp, last_tracked_frame_timestamp>>
vars == <<pending_frames, tracking_work, startup_next_work, timestamps,
          startup_complete, counters, log>>

TypeOK ==
    /\ pending_frames \in Seq(PendingFrame)
    /\ tracking_work \in Optional(TrackingWork)
    /\ startup_next_work \in Optional(TrackingWork)
    /\ last_received_frame_timestamp \in Optional(Times)
    /\ last_tracked_frame_timestamp \in Optional(Times)
    /\ startup_complete \in BOOLEAN
    /\ enqueued_frames \in Nat
    /\ processed_frames \in Nat
    /\ startup_discarded_frames \in Nat
    /\ overload_discarded_frames \in Nat
    /\ incoming_discarded_frames \in Nat
    /\ outstanding_frames_peak \in Nat
    /\ log \in Seq(Nat \ {0})

Init ==
    /\ pending_frames = <<>>
    /\ tracking_work = None
    /\ startup_next_work = None
    /\ last_received_frame_timestamp = None
    /\ last_tracked_frame_timestamp = None
    /\ startup_complete = FALSE
    /\ enqueued_frames = 0
    /\ processed_frames = 0
    /\ startup_discarded_frames = 0
    /\ overload_discarded_frames = 0
    /\ incoming_discarded_frames = 0
    /\ outstanding_frames_peak = 0
    /\ log = <<>>

in_flight == (IF tracking_work # None THEN 1 ELSE 0)
             + (IF startup_next_work # None THEN 1 ELSE 0)
outstanding == Len(pending_frames) + in_flight
startup == Mode = "StereoImu" /\ ~startup_complete

-----------------------------------------------------------------------------
(* Admission: enqueue_frame with DiscardOldestQueued *)

\* Mutant of Stale: a repeated timestamp is admitted.
StaleStrictly(timestamp) ==
    last_received_frame_timestamp # None /\ timestamp < last_received_frame_timestamp

\* A timestamp that does not advance the admission timeline is an error.
Stale(timestamp) ==
    last_received_frame_timestamp # None /\ timestamp <= last_received_frame_timestamp

\* Mutant of Full: reserved work is not counted.
FullOfPending == Len(pending_frames) >= Capacity

Full == outstanding >= Capacity

\* Reserved work fills the capacity: the incoming frame is the one to go.
discard_incoming(timestamp) ==
    /\ ~Stale(timestamp)
    /\ Full /\ pending_frames = <<>>
    /\ incoming_discarded_frames' = incoming_discarded_frames + 1
    /\ last_received_frame_timestamp' = timestamp
    /\ UNCHANGED <<pending_frames, tracking_work, startup_next_work,
                   last_tracked_frame_timestamp, startup_complete, enqueued_frames,
                   processed_frames, startup_discarded_frames, overload_discarded_frames,
                   outstanding_frames_peak, log>>

\* Mutant of Evicted: a silent eviction.
EvictedSilently == 0

NextSequence == enqueued_frames + 1
Evicted == IF Full THEN 1 ELSE 0

\* The frame enters the queue; a full queue loses its oldest unreserved frame.
admit(timestamp) ==
    LET entry    == [timestamp |-> timestamp, enqueue_sequence |-> NextSequence]
        retained == IF Full THEN Tail(pending_frames) ELSE pending_frames
        admitted == Len(retained) + 1 + in_flight
    IN  /\ ~Stale(timestamp)
        /\ Full => pending_frames # <<>>
        /\ pending_frames' = Append(retained, entry)
        /\ overload_discarded_frames' = overload_discarded_frames + Evicted
        /\ last_received_frame_timestamp' = timestamp
        /\ enqueued_frames' = enqueued_frames + 1
        /\ outstanding_frames_peak' = IF outstanding_frames_peak < admitted
                                      THEN admitted ELSE outstanding_frames_peak
        /\ UNCHANGED <<tracking_work, startup_next_work, last_tracked_frame_timestamp,
                       startup_complete, processed_frames, startup_discarded_frames,
                       incoming_discarded_frames, log>>

-----------------------------------------------------------------------------
(* Reservation *)

Reserve(entry) == [pending |-> entry, stage |-> "Reserved", imu_batch |-> None]

\* Mutant of reserve_tracking_work: "a waiting frame remains owned" forgotten.
reserve_over_waiting_work ==
    /\ ~startup
    /\ pending_frames # <<>>
    /\ tracking_work' = Reserve(Head(pending_frames))
    /\ pending_frames' = Tail(pending_frames)
    /\ UNCHANGED <<startup_next_work, timestamps, startup_complete, counters, log>>

reserve_tracking_work ==
    /\ ~startup
    /\ tracking_work = None
    /\ pending_frames # <<>>
    /\ tracking_work' = Reserve(Head(pending_frames))
    /\ pending_frames' = Tail(pending_frames)
    /\ UNCHANGED <<startup_next_work, timestamps, startup_complete, counters, log>>

\* Two frames at first; after a startup discard, F0 is kept and F1 refilled.
reserve_startup_pair ==
    /\ startup
    /\ startup_next_work = None
    /\ \/ /\ tracking_work = None
          /\ Len(pending_frames) >= 2
          /\ tracking_work' = Reserve(pending_frames[1])
          /\ startup_next_work' = Reserve(pending_frames[2])
          /\ pending_frames' = Tail(Tail(pending_frames))
       \/ /\ tracking_work # None
          /\ pending_frames # <<>>
          /\ startup_next_work' = Reserve(Head(pending_frames))
          /\ pending_frames' = Tail(pending_frames)
          /\ UNCHANGED tracking_work
    /\ UNCHANGED <<timestamps, startup_complete, counters, log>>

\* MissingHistory: F0 is dropped and F1 becomes the new F0.
discard_startup_first ==
    /\ tracking_work # None /\ startup_next_work # None
    /\ tracking_work.stage = "Reserved" /\ startup_next_work.stage = "Reserved"
    /\ tracking_work.imu_batch = None /\ startup_next_work.imu_batch = None
    /\ tracking_work' = startup_next_work
    /\ startup_next_work' = None
    /\ startup_discarded_frames' = startup_discarded_frames + 1
    /\ UNCHANGED <<pending_frames, timestamps, startup_complete, enqueued_frames,
                   processed_frames, overload_discarded_frames,
                   incoming_discarded_frames, outstanding_frames_peak, log>>

-----------------------------------------------------------------------------
(* Sampling and execution of owned work *)

Unsampled == tracking_work # None /\ tracking_work.stage = "Reserved"
             /\ (startup => startup_next_work # None /\ startup_next_work.stage = "Reserved")

\* The batch of a startup interval belongs to F1; F0 executes without one.
make_ready(batch) ==
    /\ Unsampled
    /\ batch = None <=> Mode = "Stereo"
    /\ IF startup
       THEN /\ startup_next_work' = [startup_next_work EXCEPT !.stage = "Ready",
                                                              !.imu_batch = batch]
            /\ tracking_work' = [tracking_work EXCEPT !.stage = "Ready"]
       ELSE /\ tracking_work' = [tracking_work EXCEPT !.stage = "Ready",
                                                      !.imu_batch = batch]
            /\ UNCHANGED startup_next_work
    /\ UNCHANGED <<pending_frames, timestamps, startup_complete, counters, log>>

begin_primary ==
    /\ tracking_work # None /\ tracking_work.stage = "Ready"
    /\ tracking_work' = [tracking_work EXCEPT !.stage = "Executing"]
    /\ UNCHANGED <<pending_frames, startup_next_work, timestamps, startup_complete,
                   counters, log>>

begin_startup_next ==
    /\ tracking_work = None
    /\ startup_next_work # None /\ startup_next_work.stage = "Ready"
    /\ startup_next_work' = [startup_next_work EXCEPT !.stage = "Executing"]
    /\ UNCHANGED <<pending_frames, tracking_work, timestamps, startup_complete,
                   counters, log>>

\* Completion removes the work and accounts for it in one critical section.
Complete(work) ==
    /\ work # None /\ work.stage = "Executing"
    /\ last_tracked_frame_timestamp' = IF Mode = "StereoImu" THEN work.pending.timestamp
                                       ELSE last_tracked_frame_timestamp
    /\ processed_frames' = processed_frames + 1
    /\ log' = Append(log, work.pending.enqueue_sequence)
    /\ UNCHANGED <<pending_frames, last_received_frame_timestamp, enqueued_frames,
                   startup_discarded_frames, overload_discarded_frames,
                   incoming_discarded_frames, outstanding_frames_peak>>

complete_primary ==
    /\ Complete(tracking_work)
    /\ tracking_work' = None
    /\ UNCHANGED <<startup_next_work, startup_complete>>

\* Mutant of complete_startup_next: startup never ends.
complete_without_ending_startup ==
    /\ Complete(startup_next_work)
    /\ startup_next_work' = None
    /\ UNCHANGED <<tracking_work, startup_complete>>

\* F1 completion ends startup in the same accounting transaction.
complete_startup_next ==
    /\ Complete(startup_next_work)
    /\ startup_next_work' = None
    /\ startup_complete' = TRUE
    /\ UNCHANGED tracking_work

Next ==
    \/ \E timestamp \in Times : discard_incoming(timestamp) \/ admit(timestamp)
    \/ reserve_tracking_work
    \/ reserve_startup_pair
    \/ discard_startup_first
    \/ Unsampled /\ \E batch \in Optional(Batches) : make_ready(batch)
    \/ begin_primary
    \/ begin_startup_next
    \/ complete_primary
    \/ complete_startup_next

Spec == Init /\ [][Next]_vars

-----------------------------------------------------------------------------
(* snapshot_locked's accounting_valid, which the final report and the       *)
(* evaluation evidence print: every admitted frame is still owned, or was   *)
(* processed, or was dropped for a counted reason.                          *)
AccountingValid ==
    enqueued_frames = outstanding + processed_frames + startup_discarded_frames
                      + overload_discarded_frames

(* Queued and reserved frames together never exceed the configured          *)
(* capacity, and the reported peak is a true upper bound within it.         *)
CapacityRespected == outstanding <= outstanding_frames_peak
                     /\ outstanding_frames_peak <= Capacity

\* The frames not yet completed, in the order they will be.
Owned == (IF tracking_work # None THEN <<tracking_work.pending>> ELSE <<>>)
         \o (IF startup_next_work # None THEN <<startup_next_work.pending>> ELSE <<>>)
         \o pending_frames

(* Frames keep their order through reservation, promotion, eviction and     *)
(* completion: the completed and the owned enqueue sequences are strictly   *)
(* increasing, so no frame is completed twice or overtakes another, and the *)
(* owned timestamps increase from the last tracked frame to the last        *)
(* received one, which the IMU intervals are cut from.                      *)
FramesInOrder ==
    LET sequences == log \o [i \in 1..Len(Owned) |-> Owned[i].enqueue_sequence]
    IN  /\ \A i, j \in 1..Len(sequences) : i < j => sequences[i] < sequences[j]
        /\ \A i \in 1..Len(sequences) : sequences[i] <= enqueued_frames
        /\ \A i, j \in 1..Len(Owned) : i < j => Owned[i].timestamp < Owned[j].timestamp
        /\ \A i \in 1..Len(Owned) :
              /\ Owned[i].timestamp <= last_received_frame_timestamp
              /\ last_tracked_frame_timestamp # None =>
                    last_tracked_frame_timestamp < Owned[i].timestamp

(* The startup protocol: a second reservation exists only while startup     *)
(* lasts, its batch covers the interval from F0 to F1 and is held by F1,    *)
(* F0 runs without one, and F1 left alone means F0 has been completed.      *)
StartupPairShape ==
    /\ startup_next_work # None =>
          /\ startup
          /\ startup_next_work.imu_batch # None <=> startup_next_work.stage # "Reserved"
          /\ tracking_work = None => Len(log) = 1 /\ startup_next_work.stage # "Reserved"
    /\ startup /\ tracking_work # None =>
          /\ log = <<>>
          /\ tracking_work.imu_batch = None
          /\ tracking_work.stage # "Reserved" =>
                startup_next_work # None /\ startup_next_work.stage = "Ready"
    /\ startup_complete => Mode = "StereoImu" /\ last_tracked_frame_timestamp # None

(* "Reception cannot revoke reserved work or its consumed IMU batch": work  *)
(* leaves a reservation only by completing it, or by the startup discard    *)
(* while no batch is attached; a batch leaves only with its completion.     *)
ReservationsAreKept ==
    [][LET completes == processed_frames' = processed_frames + 1
           discards  == startup_discarded_frames' = startup_discarded_frames + 1
           Kept(work, later) == later # None /\ later.pending = work.pending
                                /\ (work.imu_batch # None => later.imu_batch = work.imu_batch)
       IN  /\ tracking_work # None /\ ~Kept(tracking_work, tracking_work') =>
                 completes \/ (discards /\ tracking_work.imu_batch = None)
           /\ startup_next_work # None /\ ~Kept(startup_next_work, startup_next_work') =>
                 \/ completes
                 \/ discards /\ Kept(startup_next_work, tracking_work')]_vars
=============================================================================
