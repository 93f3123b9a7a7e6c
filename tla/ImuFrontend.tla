---------------------------- MODULE ImuFrontend ----------------------------
(***************************************************************************)
(* The IMU frontend (src/frontend/imu_frontend.cpp): the reception side    *)
(* validates messages and keeps the accepted samples in a bounded buffer,  *)
(* and the tracking side takes the samples of one interval at a time.      *)
(* imu_mutex_ serialises both, so a callback and a take are one action     *)
(* each.  (imu_callback reads the stop flag inside the lock; a stop that   *)
(* lands between that read and the unlock commutes with the rest of the    *)
(* callback, which never looks at the flag again.)                         *)
(*                                                                         *)
(* Abstraction: a message is what its checks look at; a sample is its      *)
(* timestamp in double seconds, the only thing the consumer's intervals    *)
(* are about.  arrived and delivered are history variables: they record    *)
(* what was accepted and handed out, and no action reads them.             *)
(***************************************************************************)
EXTENDS Integers, Sequences

CONSTANTS None,             \* an empty std::optional
          Stamps,           \* integer nanosecond stamps of messages
          Times,            \* the doubles those stamps and image times take
          Seconds(_),       \* nanoseconds to double seconds: may merge stamps
          BufferCapacity,   \* imu.buffer_capacity
          MaxGap,           \* imu.max_gap_sec
          MaxReceived       \* bound: messages received in a behaviour

ASSUME ImuFrontendAssumption ==
    /\ Stamps \subseteq Nat
    /\ Times \subseteq Nat
    /\ None \notin Nat
    /\ BufferCapacity \in Nat \ {0}
    /\ MaxGap \in Nat \ {0}
    /\ \A ns \in Stamps : Seconds(ns) \in Times
    /\ \A ns1, ns2 \in Stamps : ns1 <= ns2 => Seconds(ns1) <= Seconds(ns2)

VARIABLES
    stop_requested,               \* StopControl's flag, read only
    imu_buffer,                   \* std::deque of accepted samples
    last_taken_timestamp,         \* right end of the last successful take
    last_accepted_timestamp_ns,   \* stamp of the newest accepted message
    first_timestamp,              \* stats_.first_timestamp
    last_overflow_timestamp,      \* stats_.last_overflow_timestamp
    stats,                        \* the counters of ImuFrontendStats
    arrived, delivered            \* history

buffering == <<imu_buffer, last_taken_timestamp, last_accepted_timestamp_ns,
               first_timestamp, last_overflow_timestamp>>
imu_vars == <<buffering, stats, arrived, delivered>>
vars == <<imu_vars, stop_requested>>

Rejections == {"stopped", "unavailable", "invalid_values", "invalid_timestamps",
               "duplicates", "backwards", "timestamp_precision_rejections"}
Counters == Rejections \cup {"received", "accepted", "overflow", "buffered_peak"}

\* What the checks of imu_callback look at.
Messages == [available : BOOLEAN, finite : BOOLEAN, normalized : BOOLEAN, ns : Stamps]

Statuses == {"Stopped", "Ready", "WaitingForData", "MissingHistory",
             "BufferOverflow", "DataGap", "InvalidRequest"}

TypeOK ==
    /\ stop_requested \in BOOLEAN
    /\ imu_buffer \in Seq(Times) /\ Len(imu_buffer) <= BufferCapacity
    /\ last_taken_timestamp \in Times \cup {None}
    /\ last_accepted_timestamp_ns \in Stamps \cup {None}
    /\ first_timestamp \in Times \cup {None}
    /\ last_overflow_timestamp \in Times \cup {None}
    /\ stats \in [Counters -> Nat]
    /\ arrived \in Seq(Times)
    /\ delivered \in Seq(Times)

Init ==
    /\ stop_requested = FALSE
    /\ imu_buffer = <<>>
    /\ last_taken_timestamp = None
    /\ last_accepted_timestamp_ns = None
    /\ first_timestamp = None
    /\ last_overflow_timestamp = None
    /\ stats = [c \in Counters |-> 0]
    /\ arrived = <<>>
    /\ delivered = <<>>

Newest(s) == s[Len(s)]

-----------------------------------------------------------------------------
(* Reception: imu_callback *)

\* Mutant of Verdict: the message stamps alone decide the order.
VerdictByStamp(m) ==
    IF stop_requested THEN "stopped"
    ELSE IF ~m.available THEN "unavailable"
    ELSE IF ~m.finite THEN "invalid_values"
    ELSE IF ~m.normalized THEN "invalid_timestamps"
    ELSE IF last_accepted_timestamp_ns = None THEN "accepted"
    ELSE IF m.ns = last_accepted_timestamp_ns THEN "duplicates"
    ELSE IF m.ns < last_accepted_timestamp_ns THEN "backwards"
    ELSE "accepted"

\* "Each rejected message is counted once, at the first failed check."
Verdict(m) ==
    IF stop_requested THEN "stopped"
    ELSE IF ~m.available THEN "unavailable"
    ELSE IF ~m.finite THEN "invalid_values"
    ELSE IF ~m.normalized THEN "invalid_timestamps"
    ELSE IF last_accepted_timestamp_ns = None THEN "accepted"
    ELSE IF m.ns = last_accepted_timestamp_ns THEN "duplicates"
    ELSE IF m.ns < last_accepted_timestamp_ns THEN "backwards"
    ELSE IF imu_buffer # <<>> /\ Seconds(m.ns) <= Newest(imu_buffer)
         THEN "timestamp_precision_rejections"
    ELSE "accepted"

reject_sample(m) ==
    /\ Verdict(m) \in Rejections
    /\ stats' = [stats EXCEPT !["received"] = @ + 1, ![Verdict(m)] = @ + 1]
    /\ UNCHANGED <<buffering, arrived, delivered, stop_requested>>

Overflowed == Len(imu_buffer) = BufferCapacity

accept_sample(m) ==
    LET t        == Seconds(m.ns)
        retained == IF Overflowed THEN Tail(imu_buffer) ELSE imu_buffer
    IN  /\ Verdict(m) = "accepted"
        /\ imu_buffer' = Append(retained, t)
        /\ last_overflow_timestamp' = IF Overflowed THEN imu_buffer[1]
                                                    ELSE last_overflow_timestamp
        /\ last_accepted_timestamp_ns' = m.ns
        /\ first_timestamp' = IF first_timestamp = None THEN t ELSE first_timestamp
        /\ stats' = [stats EXCEPT
              !["received"] = @ + 1,
              !["accepted"] = @ + 1,
              !["overflow"] = IF Overflowed THEN @ + 1 ELSE @,
              !["buffered_peak"] = IF @ < Len(retained) + 1 THEN Len(retained) + 1 ELSE @]
        /\ arrived' = Append(arrived, t)
        /\ UNCHANGED <<last_taken_timestamp, delivered, stop_requested>>

-----------------------------------------------------------------------------
(* Consumption: takeMeasurements and queryMeasurements *)

\* std::upper_bound: the index of the first sample of s later than t.
UpperBound(s, t) ==
    CHOOSE i \in 1..(Len(s) + 1) : \A j \in 1..Len(s) : j < i <=> s[j] <= t

\* The samples whose spacing the interval (left, right] depends on: a sample
\* exactly at right ends it, otherwise the next later sample does.
Coverage(s, left, right) ==
    LET end == UpperBound(s, right)
    IN  UpperBound(s, left)..(IF s[end - 1] = right THEN end - 1 ELSE end)

\* Mutant of QueryStatus: an empty interval is a gap before the data that
\* covers its right end has arrived.
QueryStatusEager(left, right) ==
    IF right <= left \/ last_taken_timestamp \notin {None, left} THEN "InvalidRequest"
    ELSE IF imu_buffer = <<>> THEN "WaitingForData"
    ELSE IF imu_buffer[1] > left
         THEN IF left < first_timestamp THEN "MissingHistory" ELSE "BufferOverflow"
    ELSE IF UpperBound(imu_buffer, left) = UpperBound(imu_buffer, right) THEN "DataGap"
    ELSE IF Newest(imu_buffer) < right THEN "WaitingForData"
    ELSE IF \E i \in Coverage(imu_buffer, left, right) :
               imu_buffer[i] - imu_buffer[i - 1] > MaxGap THEN "DataGap"
    ELSE "Ready"

QueryStatus(left, right) ==
    IF right <= left \/ last_taken_timestamp \notin {None, left} THEN "InvalidRequest"
    ELSE IF imu_buffer = <<>> THEN "WaitingForData"
    ELSE IF imu_buffer[1] > left
         THEN IF left < first_timestamp THEN "MissingHistory" ELSE "BufferOverflow"
    ELSE IF Newest(imu_buffer) < right THEN "WaitingForData"
    ELSE IF UpperBound(imu_buffer, left) = UpperBound(imu_buffer, right) THEN "DataGap"
    ELSE IF \E i \in Coverage(imu_buffer, left, right) :
               imu_buffer[i] - imu_buffer[i - 1] > MaxGap THEN "DataGap"
    ELSE "Ready"

TakeStatus(left, right) ==
    IF stop_requested THEN "Stopped" ELSE QueryStatus(left, right)

\* Mutant of Batch: the search for the left end stops one sample early.
BatchWithAnchor(left, right) ==
    SubSeq(imu_buffer, UpperBound(imu_buffer, left) - 1, UpperBound(imu_buffer, right) - 1)

\* The samples in (left, right].
Batch(left, right) ==
    SubSeq(imu_buffer, UpperBound(imu_buffer, left), UpperBound(imu_buffer, right) - 1)

\* Mutant of Unconsumed: the whole granted interval is erased.
UnconsumedWithoutAnchor(right) ==
    SubSeq(imu_buffer, UpperBound(imu_buffer, right), Len(imu_buffer))

\* A granted interval leaves the buffer, except its last sample: the anchor of
\* the next interval.
Unconsumed(right) ==
    SubSeq(imu_buffer, UpperBound(imu_buffer, right) - 1, Len(imu_buffer))

\* Mutant of NextBoundary: the last delivered sample instead of the interval.
NextBoundaryAtSample(right) == imu_buffer[UpperBound(imu_buffer, right) - 1]

NextBoundary(right) == right

\* Any other answer changes nothing.
takeMeasurements(left, right) ==
    /\ IF TakeStatus(left, right) = "Ready"
       THEN /\ imu_buffer' = Unconsumed(right)
            /\ last_taken_timestamp' = NextBoundary(right)
            /\ delivered' = delivered \o Batch(left, right)
       ELSE UNCHANGED <<imu_buffer, last_taken_timestamp, delivered>>
    /\ UNCHANGED <<last_accepted_timestamp_ns, first_timestamp, last_overflow_timestamp,
                   stats, arrived, stop_requested>>

-----------------------------------------------------------------------------
\* A stop source closes the gate while callbacks are still dispatched.
stop == stop_requested' = TRUE /\ UNCHANGED imu_vars

imu_callback(m) ==
    /\ stats["received"] < MaxReceived
    /\ reject_sample(m) \/ accept_sample(m)

Next ==
    \/ \E m \in Messages : imu_callback(m)
    \/ \E left, right \in Times : takeMeasurements(left, right)
    \/ stop

Spec == Init /\ [][Next]_vars

-----------------------------------------------------------------------------
(* The promise of ImuDelivery, kept with a bounded buffer whose oldest      *)
(* samples are evicted on overflow and erased on consumption.               *)
Delivery == INSTANCE ImuDelivery WITH boundary <- last_taken_timestamp
ImplementsDelivery == Delivery!Spec

(* The consumer has received one contiguous run of the accepted samples:    *)
(* no sample twice, none skipped between two takes (imu_frontend.cpp:       *)
(* "overlap, skipped intervals and retries after success must not silently  *)
(* lose or resend data").                                                   *)
ExactlyOnceDelivery == Delivery!ExactlyOnce

(* The buffer stays within its capacity and is the newest part of what was  *)
(* accepted, in strictly increasing double seconds, and never empty again   *)
(* after the first sample: the precision check against its back and the     *)
(* binary searches of a query rely on that.                                 *)
BufferIsRecentHistory ==
    /\ Len(imu_buffer) <= BufferCapacity
    /\ arrived # <<>> => imu_buffer # <<>>
    /\ \E dropped \in 0..Len(arrived) :
          imu_buffer = SubSeq(arrived, dropped + 1, Len(arrived))
    /\ \A i, j \in 1..Len(imu_buffer) : i < j => imu_buffer[i] < imu_buffer[j]

(* The two ways of lacking history are told apart correctly, for every      *)
(* interval the consumer may ask for next: MissingHistory only when no      *)
(* accepted sample was ever early enough, BufferOverflow only when the      *)
(* anchor existed and an eviction removed it, never because a successful    *)
(* take erased it.                                                          *)
LostHistoryClassified ==
    \A left, right \in Times :
        LET anchors == {i \in 1..Len(arrived) : arrived[i] <= left}
        IN  /\ QueryStatus(left, right) = "MissingHistory" => anchors = {}
            /\ QueryStatus(left, right) = "BufferOverflow" =>
                  /\ anchors # {}
                  /\ last_overflow_timestamp # None
                  /\ \A i \in anchors : arrived[i] <= last_overflow_timestamp

(* Which answers an interval may still get after an answer, while the       *)
(* consumer retries it.  The coordinator discards a frame on MissingHistory *)
(* and terminates on DataGap and BufferOverflow, so these must be final:    *)
(* data arriving later may never turn them into Ready.  A granted interval  *)
(* can be lost only to overflow or to another take.                         *)
StatusAfter(status) ==
    CASE status = "WaitingForData" -> Statuses
      [] status = "Ready"          -> {"Ready", "BufferOverflow", "InvalidRequest"}
      [] status = "MissingHistory" -> {"MissingHistory", "InvalidRequest"}
      [] status = "BufferOverflow" -> {"BufferOverflow", "InvalidRequest"}
      [] status = "DataGap"        -> {"DataGap", "BufferOverflow", "InvalidRequest"}
      [] status = "InvalidRequest" -> Statuses
AnswersAreFinal ==
    [][\A left, right \in Times :
          QueryStatus(left, right)' \in StatusAfter(QueryStatus(left, right))]_vars
=============================================================================
