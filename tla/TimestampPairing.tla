-------------------------- MODULE TimestampPairing --------------------------
(***************************************************************************)
(* TimestampDiagnosticNode (gemini336_slam_tools/src/                      *)
(* timestamp_diagnostic_node.cpp): statistics of the two image streams and *)
(* the IMU stream, and the pairing of left with right image stamps.        *)
(*                                                                         *)
(* One thread spins the node, so a callback is one action.  A stamp is an  *)
(* integer.  The report timer only prints, and is left out.                *)
(***************************************************************************)
EXTENDS Integers, Sequences, FiniteSets

CONSTANTS None,          \* no stamp yet
          Stamps,        \* the stamps messages carry
          Tolerance,     \* stereo_pair_tolerance_sec_
          Window,        \* window_size_
          MaxMessages    \* bound: messages per stream

Sides == {"left", "right"}
Streams == Sides \cup {"imu"}

ASSUME PairingAssumption ==
    /\ Stamps \subseteq Int /\ None \notin Int
    /\ Tolerance \in Nat \ {0} /\ Window \in Nat \ {0}
    /\ MaxMessages \in [Streams -> Nat]

VARIABLES
    stats,                \* the three StreamStats
    latest_stamp,         \* latest_left_stamp_, latest_right_stamp_
    stamp_queue,          \* left_stamp_queue_, right_stamp_queue_
    stereo_pair_count,
    unmatched_count,      \* left_unmatched_count_, right_unmatched_count_
    stereo_dt_history,
    epoch,                \* history: the stamps since the queues were cleared
    pairs,                \* history: the pairs since then
    overflowed            \* history: a full queue dropped a stamp since then

pairing == <<latest_stamp, stamp_queue, stereo_pair_count, unmatched_count, stereo_dt_history>>
history == <<epoch, pairs, overflowed>>
vars == <<stats, pairing, history>>

Init ==
    /\ stats = [s \in Streams |-> [message_count |-> 0, non_monotonic_count |-> 0,
                                   previous_stamp |-> None, dt_history |-> <<>>]]
    /\ latest_stamp = [s \in Sides |-> None]
    /\ stamp_queue = [s \in Sides |-> <<>>]
    /\ stereo_pair_count = 0
    /\ unmatched_count = [s \in Sides |-> 0]
    /\ stereo_dt_history = <<>>
    /\ epoch = [s \in Sides |-> <<>>]
    /\ pairs = {}
    /\ overflowed = FALSE

-----------------------------------------------------------------------------
\* push_back, and pop_front when that made it larger than the window.
Push(q, x) == IF Len(q) = Window THEN Append(Tail(q), x) ELSE Append(q, x)

updateStreamStats(s, stamp) ==
    LET old == stats[s] IN
    stats' = [stats EXCEPT ![s] =
        [message_count |-> old.message_count + 1,
         non_monotonic_count |-> old.non_monotonic_count
             + IF old.previous_stamp # None /\ stamp <= old.previous_stamp THEN 1 ELSE 0,
         previous_stamp |-> stamp,
         dt_history |-> IF old.previous_stamp # None /\ old.previous_stamp < stamp
                        THEN Push(old.dt_history, stamp - old.previous_stamp)
                        ELSE old.dt_history]]

Backward(s, stamp) == latest_stamp[s] # None /\ stamp < latest_stamp[s]

Other(s) == IF s = "left" THEN "right" ELSE "left"

\* Mutant of Stale: a stamp at the tolerance is dropped, not paired.
StaleEarly(q, stamp) ==
    Cardinality({i \in 1..Len(q) : \A j \in 1..i : stamp - q[j] >= Tolerance})

\* How many of a queue's first stamps are too old to match this one.
Stale(q, stamp) ==
    Cardinality({i \in 1..Len(q) : \A j \in 1..i : stamp - q[j] > Tolerance})

\* Mutant of Cleared: the stamps a clock reset discards are not counted.
ClearedUncounted(s, stamp) == [x \in Sides |-> 0]

\* Both queues are emptied, and counted, when one stream's clock goes back.
Cleared(s, stamp) ==
    [x \in Sides |-> IF Backward(s, stamp) THEN Len(stamp_queue[x]) ELSE 0]

\* What a callback leaves: the two queues, the stamps of each side it gave up
\* besides those cleared, and the pairs it made (none or one).
Leaves(s, stamp, own, other, lost_own, lost_other, made) ==
    LET o == Other(s) IN
    /\ stamp_queue' = [stamp_queue EXCEPT ![s] = own, ![o] = other]
    /\ unmatched_count' = [x \in Sides |-> unmatched_count[x] + Cleared(s, stamp)[x]
                                             + IF x = s THEN lost_own ELSE lost_other]
    /\ stereo_pair_count' = stereo_pair_count + Len(made)
    /\ stereo_dt_history' = IF made = <<>> THEN stereo_dt_history
                            ELSE Push(stereo_dt_history, made[1][1] - made[1][2])
    /\ pairs' = (IF Backward(s, stamp) THEN {} ELSE pairs) \cup {made[i] : i \in 1..Len(made)}

\* enqueueStereoStamp with updateStereoDifference.  One of the queues is empty
\* before it (OneSideWaits), so the loop meets either an empty queue and ends,
\* or a queue and this stamp alone.  Then it drops what is too old, and pairs
\* the stamp, drops it because it is itself too old, or lets it wait.
enqueueStereoStamp(s, stamp) ==
    LET back == Backward(s, stamp)
        own == IF back THEN <<>> ELSE stamp_queue[s]
        other == IF back THEN <<>> ELSE stamp_queue[Other(s)]
        stale == Stale(other, stamp)
        rest == SubSeq(other, stale + 1, Len(other))
        full == Len(own) = Window
    IN
    /\ latest_stamp' = [latest_stamp EXCEPT ![s] = stamp]
    /\ \/ /\ rest = <<>>
          /\ Leaves(s, stamp, Push(own, stamp), rest, IF full THEN 1 ELSE 0, stale, <<>>)
       \/ /\ rest # <<>> /\ rest[1] - stamp <= Tolerance
          /\ Leaves(s, stamp, own, Tail(rest), 0, stale,
                    <<IF s = "left" THEN <<stamp, rest[1]>> ELSE <<rest[1], stamp>> >>)
       \/ /\ rest # <<>> /\ rest[1] - stamp > Tolerance
          /\ Leaves(s, stamp, own, rest, 1, stale, <<>>)
    /\ epoch' = [x \in Sides |-> (IF back THEN <<>> ELSE epoch[x])
                                   \o (IF x = s THEN <<stamp>> ELSE <<>>)]
    /\ overflowed' = (full \/ (overflowed /\ ~back))

Bounded(s) == stats[s].message_count < MaxMessages[s]

\* leftIrCallback and rightIrCallback.
imageCallback(s, stamp) ==
    /\ Bounded(s)
    /\ updateStreamStats(s, stamp)
    /\ enqueueStereoStamp(s, stamp)

imuCallback(stamp) ==
    /\ Bounded("imu")
    /\ updateStreamStats("imu", stamp)
    /\ UNCHANGED <<pairing, history>>

Next ==
    \E stamp \in Stamps : imuCallback(stamp) \/ \E s \in Sides : imageCallback(s, stamp)

Spec == Init /\ [][Next]_vars

-----------------------------------------------------------------------------
TypeOK ==
    /\ stats \in [Streams -> [message_count : Nat, non_monotonic_count : Nat,
                             previous_stamp : Stamps \cup {None}, dt_history : Seq(Int)]]
    /\ latest_stamp \in [Sides -> Stamps \cup {None}]
    /\ stamp_queue \in [Sides -> Seq(Stamps)]
    /\ stereo_pair_count \in Nat
    /\ unmatched_count \in [Sides -> Nat]
    /\ stereo_dt_history \in Seq(Int)

(* Every image received is in exactly one of the reported figures: paired,  *)
(* given up, or pending, through clock resets and full queues; and stamps   *)
(* wait on one side only, which the report's pending(L/R) shows.            *)
EveryStampAccounted ==
    \A s \in Sides :
        stats[s].message_count = stereo_pair_count + unmatched_count[s] + Len(stamp_queue[s])

OneSideWaits == \E s \in Sides : stamp_queue[s] = <<>>

WindowsRespected ==
    /\ \A s \in Sides : Len(stamp_queue[s]) <= Window
    /\ \A s \in Streams : Len(stats[s].dt_history) <= Window
    /\ Len(stereo_dt_history) <= Window

Accounting == EveryStampAccounted /\ OneSideWaits /\ WindowsRespected

(* "FIFO pairing assumes ordered streams and a tolerance below half a frame *)
(* period" (line 170): under that assumption the greedy pairing is exact.   *)
(* Since the last clock reset, and unless a full queue dropped a stamp, the *)
(* pairs made are all pairs of stamps within the tolerance, in whatever     *)
(* order the two streams were delivered.                                    *)
Spaced(q) == \A i \in 1..(Len(q) - 1) : q[i + 1] - q[i] > 2 * Tolerance

Within(l, r) == l - r <= Tolerance /\ r - l <= Tolerance

PairingExact ==
    /\ ~overflowed /\ \A s \in Sides : Spaced(epoch[s])
    => pairs = {p \in {<<epoch["left"][i], epoch["right"][j]>> :
                          i \in 1..Len(epoch["left"]), j \in 1..Len(epoch["right"])} :
                  Within(p[1], p[2])}
=============================================================================
