---------------------------- MODULE MCFrameQueue ----------------------------
(***************************************************************************)
(* A small instance of FrameQueue: seven timestamps are enough for a   *)
(* queue at capacity to evict, for incoming frames to be dropped while the *)
(* reservations fill it, and for a startup pair to be promoted twice.      *)
(***************************************************************************)
EXTENDS FrameQueue

CONSTANT Samples   \* some IMU batch

MCTimes == 1..7
MCBatches == {Samples}
=============================================================================
