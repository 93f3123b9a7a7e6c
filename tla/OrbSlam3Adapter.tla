-------------------------- MODULE OrbSlam3Adapter --------------------------
(***************************************************************************)
(* The adapter around the ORB-SLAM3 System object                          *)
(* (src/slam/orbslam3_adapter.cpp): input checks in front of every         *)
(* tracking call, and a shutdown that may be attempted only once.  It has  *)
(* one owner at a time (the tracking consumer, then main) and no lock, so  *)
(* each call is one action; whether the upstream System returns or throws  *)
(* is open.                                                                *)
(*                                                                         *)
(* Abstraction: a frame and an IMU sample are their timestamps.  fed and   *)
(* upstream_shutdowns are history variables.                               *)
(***************************************************************************)
EXTENDS Integers, Sequences

CONSTANTS None,    \* an empty std::optional
          Mode     \* TrackingMode: "Stereo" or "StereoImu"

VARIABLES
    last_frame_timestamp,   \* newest frame upstream accepted
    last_imu_timestamp,     \* newest IMU sample upstream accepted
    shutdown_state,         \* "NotStarted", "Attempted" or "Returned"
    shutdown_failure,       \* an exception of the attempt is kept
    summary_available,      \* backend_summary_.available
    fed,                    \* history: samples of the calls that returned
    upstream_shutdowns      \* history: calls of System::Shutdown

timeline == <<last_frame_timestamp, last_imu_timestamp>>
lifecycle == <<shutdown_state, shutdown_failure, summary_available, upstream_shutdowns>>

Init ==
    /\ last_frame_timestamp = None
    /\ last_imu_timestamp = None
    /\ shutdown_state = "NotStarted"
    /\ shutdown_failure = FALSE
    /\ summary_available = FALSE
    /\ fed = <<>>
    /\ upstream_shutdowns = 0

-----------------------------------------------------------------------------
(* Tracking: both overloads of track.  Neither outcome touches lifecycle.   *)

ImuAccepted(timestamp, imu) ==
    /\ last_frame_timestamp # None => imu # <<>>
    /\ \A i \in 1..Len(imu) :
          /\ imu[i] <= timestamp
          /\ IF i = 1 THEN last_imu_timestamp # None => last_imu_timestamp < imu[1]
                      ELSE imu[i - 1] < imu[i]

\* The checks that run before anything reaches upstream.
Accepts(timestamp, imu) ==
    /\ shutdown_state = "NotStarted"
    /\ last_frame_timestamp # None => last_frame_timestamp < timestamp
    /\ Mode = "StereoImu" => ImuAccepted(timestamp, imu)

\* Only a normally returning upstream call advances the accepted timestamps.
Advance(timestamp, imu) ==
    /\ last_frame_timestamp' = timestamp
    /\ last_imu_timestamp' = IF imu # <<>> THEN imu[Len(imu)] ELSE last_imu_timestamp

track_returns(timestamp, imu) ==
    /\ Accepts(timestamp, imu)
    /\ Advance(timestamp, imu)
    /\ fed' = fed \o imu

\* Upstream throws, or it returned and reading its state throws.
track_throws(timestamp, imu) ==
    /\ Accepts(timestamp, imu)
    /\ Advance(timestamp, imu) \/ UNCHANGED timeline
    /\ UNCHANGED fed

-----------------------------------------------------------------------------
(* Shutdown.  None of its outcomes touches timeline or fed.                 *)

\* The attempt is recorded before upstream is called, and never repeated:
\* System::Shutdown and the event summary return, or one of them throws.
shutdown_returns(summary) ==
    /\ shutdown_state = "NotStarted"
    /\ shutdown_state' = "Returned"
    /\ upstream_shutdowns' = upstream_shutdowns + 1
    /\ summary_available' = summary
    /\ UNCHANGED shutdown_failure

shutdown_throws ==
    /\ shutdown_state = "NotStarted"
    /\ shutdown_state' = "Attempted"
    /\ upstream_shutdowns' = upstream_shutdowns + 1
    /\ shutdown_failure' = TRUE
    /\ UNCHANGED summary_available

\* Mutant of destroy: an attempt that failed is made again.
destroy_retrying ==
    \/ /\ shutdown_state # "Returned"
       /\ shutdown_state' = "Returned"
       /\ upstream_shutdowns' = upstream_shutdowns + 1
       /\ UNCHANGED <<shutdown_failure, summary_available>>
    \/ shutdown_state = "Returned" /\ UNCHANGED lifecycle

\* The destructor makes the attempt only if its owner never did.
destroy ==
    \/ shutdown_state = "NotStarted" /\ (shutdown_throws \/ \E b \in BOOLEAN : shutdown_returns(b))
    \/ shutdown_state # "NotStarted" /\ UNCHANGED lifecycle

MayExportTrajectories == shutdown_state = "Returned"
=============================================================================
