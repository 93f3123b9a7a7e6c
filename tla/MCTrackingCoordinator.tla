----------------------- MODULE MCTrackingCoordinator -----------------------
(***************************************************************************)
(* Small instances of TrackingCoordinator.  Messages that the frontend     *)
(* rejects for their content are covered by the frontend's own instance:   *)
(* here every message is well formed, and only its stamp varies.           *)
(***************************************************************************)
EXTENDS TrackingCoordinator

CONSTANT LastTime

MCTimes == 0..LastTime
MCFrameTimes == {1, 3, 4, 5} \cap MCTimes
\* The frames of the large instance: the last two less than a sample apart.
MCThreeFrameTimes == {1, 3, 4}
MCStamps == {0, 2, 4, 5} \cap MCTimes
MCSeconds(ns) == ns
MCImuInputs == {[available |-> TRUE, finite |-> TRUE, normalized |-> TRUE, ns |-> ns] :
                   ns \in Stamps}
\* Strictly increasing sequences of sample times.
MCBatches == {s \in UNION {[1..n -> MCTimes] : n \in 1..BufferCapacity} :
                 \A i, j \in DOMAIN s : i < j => s[i] < s[j]}
=============================================================================
