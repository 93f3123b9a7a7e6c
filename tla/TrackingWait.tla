---------------------------- MODULE TrackingWait ----------------------------
(***************************************************************************)
(* TrackingCoordinator with a clock that follows what the configuration    *)
(* says about stereo_imu.wait_timeout_sec: "Continuous WaitingForData      *)
(* time, excluding queue residence and backend work"                       *)
(* (config/stereo_imu_slam.yaml:31).  continuous_wait counts the ticks     *)
(* since the current unbroken run of WaitingForData answers began, and is  *)
(* empty while there is no such run.                                       *)
(***************************************************************************)
EXTENDS MCTrackingCoordinator

VARIABLE continuous_wait

Sampling == pc = "sample" /\ Mode = "StereoImu" /\ Queue!Unsampled
NothingToSample == pc = "acquire" /\ pc' = "idle"
Ticking == imu_wait # None /\ imu_wait' = imu_wait + 1 /\ pc' = pc

WaitInit == Init /\ continuous_wait = None

WaitNext ==
    /\ Next
    /\ continuous_wait' =
          IF Sampling /\ pc' # "sample"
          THEN IF Imu!TakeStatus(Left, Right) = "WaitingForData"
               THEN IF continuous_wait = None THEN 0 ELSE continuous_wait
               ELSE None
          ELSE IF NothingToSample THEN None
          ELSE IF Ticking /\ continuous_wait # None THEN continuous_wait + 1
          ELSE continuous_wait

WaitSpec == WaitInit /\ [][WaitNext]_<<vars, continuous_wait>>

(* The documented meaning of the timeout: it ends the process only after    *)
(* the IMU data of one request has been missing for that long without       *)
(* interruption.  The code keeps imu_wait_started_ when MissingHistory      *)
(* promotes F1 to F0, so the time without a second image, during which      *)
(* nothing is requested from the IMU frontend, counts as well.              *)
TimeoutIsContinuousWait ==
    failure.reason = "Timeout" => continuous_wait # None /\ continuous_wait >= ImuWaitTimeout
=============================================================================
