--------------------------- MODULE MCImuFrontend ---------------------------
(***************************************************************************)
(* A small instance of ImuFrontend.  Pairs of neighbouring nanosecond      *)
(* stamps take the same double (1 and 2, 5 and 6), as they do at epoch     *)
(* scale, so the precision check has work to do; the other stamps are far  *)
(* enough apart to skip a tick and exceed MaxGap.                          *)
(***************************************************************************)
EXTENDS ImuFrontend

MCStamps == 0..7
MCTimes == 0..5
MCSeconds(ns) == (3 * ns + 1) \div 4
=============================================================================
