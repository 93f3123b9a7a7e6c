------------------------- MODULE MCStereoReception -------------------------
(***************************************************************************)
(* Three images on the left reach a silence after a recovery, and leave    *)
(* room for repeated and backward stamps and for a gap; the one on the     *)
(* right makes pairs.                                                      *)
(***************************************************************************)
EXTENDS StereoReception

MCStamps == [s \in Sides |-> IF s = "left" THEN {1, 2, 4} ELSE {1}]
MCMaxImages == [s \in Sides |-> IF s = "left" THEN 3 ELSE 1]
=============================================================================
