------------------------- MODULE MCTimestampPairing -------------------------
(***************************************************************************)
(* These stamps hold three frames at the spacing the tolerance requires,   *)
(* and leave room for frames that are late, repeated, missing or out of    *)
(* order.                                                                  *)
(***************************************************************************)
EXTENDS TimestampPairing

MCStamps == {0, 1, 3, 4, 6}
MCMaxMessages == [s \in Streams |-> IF s = "imu" THEN 1 ELSE 3]
=============================================================================
