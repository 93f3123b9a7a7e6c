---------------------------- MODULE ImuDelivery ----------------------------
(***************************************************************************)
(* What the IMU frontend promises its consumer, with no buffer in sight:   *)
(* samples arrive in strictly increasing time, and each granted request    *)
(* for an interval (left, right] is answered from the complete history of  *)
(* arrived samples.  Granted intervals are adjacent, so every sample is    *)
(* delivered at most once and none inside a granted interval is missed.    *)
(* ImuFrontend, which keeps only a bounded buffer, implements this module. *)
(***************************************************************************)
EXTENDS Integers, Sequences

CONSTANTS None,     \* no interval granted yet
          Times,    \* the points of time, in ticks of seconds held as doubles
          MaxGap    \* the largest spacing of samples a granted interval may have

VARIABLES arrived,      \* every accepted sample, oldest first
          delivered,    \* the samples handed to the consumer, in delivery order
          boundary      \* the right end of the last granted interval

vars == <<arrived, delivered, boundary>>

\* i is the index after the samples of s that are no later than t.
IsUpperBound(s, t, i) ==
    /\ i \in 1..(Len(s) + 1)
    /\ \A j \in 1..Len(s) : j < i <=> s[j] <= t

Init ==
    /\ arrived = <<>>
    /\ delivered = <<>>
    /\ boundary = None

Arrive(t) ==
    /\ arrived = <<>> \/ arrived[Len(arrived)] < t
    /\ arrived' = Append(arrived, t)
    /\ UNCHANGED <<delivered, boundary>>

\* The interval has a sample at or before its left end, at least one sample
\* inside, one at or after its right end, and no spacing above MaxGap.
Deliver(left, right) ==
    /\ left < right
    /\ boundary \in {None, left}
    /\ \E first, end \in 1..(Len(arrived) + 1) :
          /\ IsUpperBound(arrived, left, first)
          /\ IsUpperBound(arrived, right, end)
          /\ 1 < first /\ first < end
          /\ arrived[end - 1] = right \/ end <= Len(arrived)
          /\ \A i \in first..(IF arrived[end - 1] = right THEN end - 1 ELSE end) :
                arrived[i] - arrived[i - 1] <= MaxGap
          /\ delivered' = delivered \o SubSeq(arrived, first, end - 1)
    /\ boundary' = right
    /\ UNCHANGED arrived

Next ==
    \/ \E t \in Times : Arrive(t)
    \/ \E left, right \in Times : Deliver(left, right)

Spec == Init /\ [][Next]_vars

-----------------------------------------------------------------------------
(* Exactly-once, in-order, gap-free delivery: what the consumer was given   *)
(* is one contiguous run of the arrived samples, and it ends with the last  *)
(* sample no later than the boundary the consumer has reached.              *)
ExactlyOnce ==
    IF boundary = None
    THEN delivered = <<>>
    ELSE \E first, end \in 1..(Len(arrived) + 1) :
            /\ IsUpperBound(arrived, boundary, end)
            /\ first < end
            /\ delivered = SubSeq(arrived, first, end - 1)
=============================================================================
