----------------------- MODULE StereoReception_proofs -----------------------
(***************************************************************************)
(* The stop gate for every set of reasons: its causes agree and its        *)
(* decisions are final.  Image reception and the input timeout for every   *)
(* configuration, any stamps and any number of images: the reception group *)
(* keeps the gate's protocol, its figures agree, and a silence is reported *)
(* once.                                                                   *)
(***************************************************************************)
EXTENDS StereoReception, TLAPS

-----------------------------------------------------------------------------
(* The stop gate on its own                                                 *)

Inv == TypeOK /\ CausesConsistent

(* Every operation under control_mutex_ keeps the recorded causes           *)
(* well-typed and consistent with the flag.                                 *)
THEOREM InvInvariant == Spec => []Inv
<1>1. Init => Inv
  <2>1. Init => TypeOK
    <3>1. Init => stop_requested \in BOOLEAN /\ cleanup_failed \in BOOLEAN
      BY Zenon DEF Init
    <3>2. Init => backend_starts \in Nat
      BY SMT DEF Init
    <3> QED
      BY <3>1, <3>2, Zenon DEF Init, TypeOK
  <2>2. Init => CausesConsistent
    BY Zenon DEF Init, CausesConsistent
  <2> QED
    BY <2>1, <2>2 DEF Inv
<1>2. Inv /\ [Next]_control => Inv'
  <2> SUFFICES ASSUME Inv, [Next]_control PROVE Inv'
    OBVIOUS
  <2> USE StopControlAssumption DEF Inv, TypeOK, CausesConsistent
  <2>1. ASSUME NEW reason \in Reasons, request_stop(reason)
        PROVE  Inv'
    BY <2>1 DEF request_stop, KeepFirst
  <2>2. ASSUME NEW reason \in Reasons, NEW exc \in BOOLEAN, NEW cleanup \in BOOLEAN,
               record_failure(reason, exc, cleanup)
        PROVE  Inv'
    BY <2>2 DEF record_failure, KeepFirst
  <2>3. CASE begin_backend
    BY <2>3 DEF begin_backend
  <2>4. CASE refuse_backend
    BY <2>4 DEF refuse_backend, control
  <2>5. CASE UNCHANGED control
    BY <2>5 DEF control
  <2> QED
    BY <2>1, <2>2, <2>3, <2>4, <2>5 DEF Next
<1> QED
  BY <1>1, <1>2, PTL DEF Spec

(* The consistency of the causes that the exit code and the STOP_PROCESS    *)
(* line are computed from.                                                  *)
THEOREM CausesAreConsistent == Spec => []CausesConsistent
<1>1. Inv => CausesConsistent
  BY DEF Inv
<1> QED
  BY <1>1, InvInvariant, PTL

(* No step of any thread reopens the gate, replaces a first cause, loses    *)
(* cleanup evidence or grants a backend call after a stop.                  *)
THEOREM GateFinality == Spec => GateOnlyCloses
<1> DEFINE Final ==
      /\ stop_requested => stop_requested'
      /\ first_stop # None => first_stop' = first_stop
      /\ first_failure # None => first_failure' = first_failure
      /\ first_exception # None => first_exception' = first_exception
      /\ cleanup_failed => cleanup_failed'
      /\ stop_requested => backend_starts' = backend_starts
<1>1. Inv /\ [Next]_control => [Final]_control
  <2> SUFFICES ASSUME Inv, Next PROVE Final
    OBVIOUS
  <2> USE DEF Inv, TypeOK
  <2>1. ASSUME NEW reason \in Reasons, request_stop(reason)
        PROVE  Final
    BY <2>1 DEF request_stop, KeepFirst
  <2>2. ASSUME NEW reason \in Reasons, NEW exc \in BOOLEAN, NEW cleanup \in BOOLEAN,
               record_failure(reason, exc, cleanup)
        PROVE  Final
    BY <2>2 DEF record_failure, KeepFirst
  <2>3. CASE begin_backend
    BY <2>3 DEF begin_backend
  <2>4. CASE refuse_backend
    BY <2>4 DEF refuse_backend, control
  <2> QED
    BY <2>1, <2>2, <2>3, <2>4 DEF Next
<1> QED
  BY <1>1, InvInvariant, PTL DEF Spec, GateOnlyCloses

-----------------------------------------------------------------------------
(* Reception                                                                *)

Labels == {"idle", "activity", "synchronizer", "frame", "enqueue", "publish", "cancel", "log"}

StampStats ==
    [received : Nat, duplicates : Nat, backwards : Nat, positive_intervals : Nat,
     interval_max : Nat, interval_sum : Nat, excessive_gaps : Nat,
     previous_ns : Int \cup {None}]

ReceptionTypeOK ==
    /\ input_timeout \in Timeouts /\ timeout_action \in {"warn", "shutdown"}
    /\ stats \in [Sides -> StampStats]
    /\ pairs \in [Rejections \cup {"synchronized", "converted"} -> Nat]
    /\ trace \in [events : Nat, dropped : Nat]
    /\ at \in Labels
    /\ idle \in Nat \cup {None} /\ silence \in Nat \cup {None}
    /\ input_timeout_reported \in BOOLEAN /\ input_timer \in BOOLEAN
    /\ enqueued \in Nat
    /\ first_stamp \in [Sides -> Int \cup {None}] /\ setbacks \in [Sides -> Nat]
    /\ reports \in Nat

-----------------------------------------------------------------------------
(* The stop gate *)

(* The reasons this group gives are stop reasons of the process, and none   *)
(* of them is the empty value.                                              *)
LEMMA ReasonsAreSome ==
    /\ None \notin Reasons /\ OtherReasons \subseteq Reasons
    /\ "InputIdle" \in Reasons /\ "CallbackError" \in Reasons /\ "CancelError" \in Reasons
    /\ None \notin Nat /\ None \notin Int
BY StopControlAssumption, ReceptionAssumption

(* Whatever callback or thread acts, it acts on the gate by one of the      *)
(* gate's operations, or not at all.                                        *)
LEMMA StepActsOnGate ==
    ASSUME [ReceptionNext]_allVars PROVE [Next]_control
<1>1. ASSUME NEW label, Throw(label) PROVE Next
  <2>1. record_failure("CallbackError", TRUE, FALSE)
    BY <1>1, Zenon DEF Throw
  <2> QED
    BY <2>1, ReasonsAreSome, Zenon DEF Next
<1>2. ASSUME NEW label, To(label) PROVE UNCHANGED control
  BY <1>2, Zenon DEF To
<1>3. ASSUME on_input_activity PROVE [Next]_control
  BY <1>3, <1>1, <1>2, Zenon DEF on_input_activity
<1>4. ASSUME stereo_callback \/ synchronizer_returns PROVE [Next]_control
  BY <1>4, <1>1, <1>2, Zenon DEF stereo_callback, synchronizer_returns
<1>5. ASSUME on_frame \/ enqueue \/ log_timeout PROVE [Next]_control
  BY <1>5, <1>1, <1>2, Zenon DEF on_frame, enqueue, log_timeout
<1>6. ASSUME publish_timeout \/ cancel_on_timeout PROVE [Next]_control
  BY <1>6, ReasonsAreSome, Zenon DEF publish_timeout, cancel_on_timeout, Next
<1>7. ASSUME InputTimer PROVE [Next]_control
  BY <1>7, <1>2, Zenon DEF InputTimer, check_input_timeout
<1>8. ASSUME OtherThreads PROVE [Next]_control
  BY <1>8, ReasonsAreSome, Zenon DEF OtherThreads, Next
<1>9. ASSUME NEW s, NEW stamp, image_received(s, stamp) PROVE [Next]_control
  BY <1>9, <1>2, Zenon DEF image_received
<1>10. ASSUME tick PROVE [Next]_control
  BY <1>10, Zenon DEF tick
<1>11. ASSUME UNCHANGED allVars PROVE [Next]_control
  BY <1>11, Zenon DEF allVars
<1> QED
  BY <1>3, <1>4, <1>5, <1>6, <1>7, <1>8, <1>9, <1>10, <1>11, Zenon
  DEF ReceptionNext, Reception

(* The reception group and the threads beside it drive the stop gate only   *)
(* through the operations of StopControl: its specification is kept.        *)
THEOREM ReceptionKeepsTheGate == ReceptionSpec => Spec
<1>1. ReceptionInit => Init
  BY Zenon DEF ReceptionInit
<1>2. [ReceptionNext]_allVars => [Next]_control
  BY StepActsOnGate, Zenon
<1> QED
  BY <1>1, <1>2, PTL DEF ReceptionSpec, Spec

(* The gate's causes stay consistent whatever the reception group does.     *)
THEOREM ReceptionCausesConsistent == ReceptionSpec => []CausesConsistent
BY ReceptionKeepsTheGate, CausesAreConsistent, PTL

(* No callback of the reception group reopens the gate or replaces a cause. *)
THEOREM ReceptionGateFinality == ReceptionSpec => GateOnlyCloses
BY ReceptionKeepsTheGate, GateFinality, PTL

-----------------------------------------------------------------------------
(* The figures: FiguresAgree with what links them between the steps.        *)

(* A side has a previous and a first stamp from its first image on, and     *)
(* neither intervals nor setbacks before it.                                *)
StampsKnown(s) ==
    /\ stats[s].received > 0 <=> stats[s].previous_ns # None
    /\ stats[s].received > 0 <=> first_stamp[s] # None
    /\ stats[s].received = 0 => stats[s].interval_sum = setbacks[s]

(* Until the stop exactly the pair on its way to tracking is converted and  *)
(* not enqueued.                                                            *)
OnItsWay == IF at \in {"frame", "enqueue"} THEN 1 ELSE 0
PairsGivenOn == ~stop_requested => pairs["converted"] = enqueued + OnItsWay

FiguresInv ==
    /\ \A s \in Sides : StampsKnown(s) /\ StampFigures(s)
    /\ trace.events + trace.dropped = stats["left"].received + stats["right"].received
    /\ pairs["synchronized"] >= Explained
    /\ pairs["synchronized"] > Explained => first_failure # None
    /\ PairsGivenOn

-----------------------------------------------------------------------------
(* The input timeout: what a report rests on.                               *)

TimeoutInv ==
    /\ idle # None => input_timeout > 0 /\ silence # None
    /\ at = "activity" => silence # None /\ reports = 0
    \* Only the time of an image whose activity was not seen may be older.
    /\ idle # None /\ at # "activity" /\ ~stop_requested => idle <= silence
    /\ reports > 0 => input_timeout_reported /\ silence # None
    /\ at = "publish" => input_timeout_reported /\ timeout_action = "shutdown"
    /\ OneReportPerSilence

ReceptionInv == ReceptionTypeOK /\ FiguresInv /\ TimeoutInv

-----------------------------------------------------------------------------
(* Types *)

LEMMA LongestIsTimeout == Longest \in Timeouts /\ Longest \in Nat
<1>1. \E t \in Timeouts : \A u \in Timeouts : u <= t
  BY ReceptionAssumption
<1>2. Longest \in Timeouts
  BY <1>1, Zenon DEF Longest
<1> QED
  BY <1>2, ReceptionAssumption

LEMMA OlderTyped ==
    ASSUME NEW t \in Nat \cup {None}
    PROVE  /\ Older(t) \in Nat \cup {None}
           /\ t = None => Older(t) = None
           /\ t # None => Older(t) \in Nat /\ t <= Older(t)
BY LongestIsTimeout, ReasonsAreSome DEF Older

(* Two clocks that advance together keep their order.                       *)
LEMMA OlderMonotone ==
    ASSUME NEW t \in Nat, NEW u \in Nat, t <= u
    PROVE  Older(t) <= Older(u)
BY LongestIsTimeout, ReasonsAreSome DEF Older

LEMMA IntervalTyped ==
    ASSUME NEW old \in StampStats, NEW stamp \in Int
    PROVE  /\ Interval(old, stamp) \in Int
           /\ old.previous_ns = None => Interval(old, stamp) = 0
           /\ old.previous_ns # None => Interval(old, stamp) = stamp - old.previous_ns
BY ReasonsAreSome DEF Interval, StampStats

LEMMA ObserveTyped ==
    ASSUME NEW old \in StampStats, NEW stamp \in Int
    PROVE  observe(old, stamp) \in StampStats
<1>1. Interval(old, stamp) \in Int
  BY IntervalTyped
<1>2. MaxGap \in Nat
  BY ReceptionAssumption
<1> QED
  BY <1>1, <1>2, SMT DEF observe, StampStats, Count

LEMMA TraceTyped ==
    ASSUME trace \in [events : Nat, dropped : Nat], trace_record
    PROVE  /\ trace' \in [events : Nat, dropped : Nat]
           /\ trace'.events + trace'.dropped = trace.events + trace.dropped + 1
BY DEF trace_record

PairCounts == Rejections \cup {"synchronized", "converted"}

LEMMA PairsTyped ==
    ASSUME pairs \in [PairCounts -> Nat]
    PROVE  /\ [pairs EXCEPT !["synchronized"] = @ + 1] \in [PairCounts -> Nat]
           /\ [pairs EXCEPT !["synchronized"] = @ + 1, !["converted"] = @ + 1] \in [PairCounts -> Nat]
           /\ \A outcome \in Rejections :
                 [pairs EXCEPT !["synchronized"] = @ + 1, ![outcome] = @ + 1] \in [PairCounts -> Nat]
BY DEF PairCounts, Rejections

LEMMA TypesInit == ReceptionInit => ReceptionTypeOK
<1> SUFFICES ASSUME ReceptionInit PROVE ReceptionTypeOK
  OBVIOUS
<1>1. stats \in [Sides -> StampStats]
  BY DEF ReceptionInit, StampStats
<1>2. pairs \in [PairCounts -> Nat]
  BY DEF ReceptionInit, PairCounts
<1>3. input_timer \in BOOLEAN
  <2>1. (input_timeout > 0) \in BOOLEAN
    BY SMT
  <2> QED
    BY <2>1, Zenon DEF ReceptionInit
<1>4. /\ trace \in [events : Nat, dropped : Nat] /\ at \in Labels
      /\ idle \in Nat \cup {None} /\ silence \in Nat \cup {None}
      /\ input_timeout_reported \in BOOLEAN
      /\ enqueued \in Nat /\ reports \in Nat
      /\ first_stamp \in [Sides -> Int \cup {None}] /\ setbacks \in [Sides -> Nat]
      /\ input_timeout \in Timeouts /\ timeout_action \in {"warn", "shutdown"}
  BY DEF ReceptionInit, Labels
<1> QED
  BY <1>1, <1>2, <1>3, <1>4, Zenon DEF ReceptionTypeOK, PairCounts

LEMMA TypesStep ==
    ASSUME ReceptionTypeOK, [ReceptionNext]_allVars PROVE ReceptionTypeOK'
<1> USE DEF ReceptionTypeOK
<1>0. \A label \in Labels : To(label) \/ Throw(label) => at' \in Labels
  BY Zenon DEF To, Throw
<1>1. ASSUME NEW s \in Sides, NEW stamp \in Stamps[s], image_received(s, stamp)
      PROVE  ReceptionTypeOK'
  <2>1. stamp \in Int
    BY ReceptionAssumption DEF Sides
  <2>2. stats' \in [Sides -> StampStats]
    <3>1. observe(stats[s], stamp) \in StampStats
      BY <2>1, ObserveTyped
    <3>2. stats' = [stats EXCEPT ![s] = observe(stats[s], stamp)]
      BY <1>1 DEF image_received
    <3> QED
      BY <3>1, <3>2
  <2>3. trace' \in [events : Nat, dropped : Nat]
    BY <1>1, TraceTyped DEF image_received
  <2>4. setbacks' \in [Sides -> Nat]
    <3>1. stats[s].previous_ns \in Int \cup {None}
      BY DEF StampStats
    <3>2. (IF stats[s].previous_ns # None /\ stamp < stats[s].previous_ns
           THEN stats[s].previous_ns - stamp ELSE 0) \in Nat
      BY <3>1, <2>1, ReasonsAreSome
    <3> QED
      BY <1>1, <3>2 DEF image_received
  <2>5. first_stamp' \in [Sides -> Int \cup {None}]
    BY <1>1, <2>1 DEF image_received
  <2>6. at' \in Labels
    BY <1>1 DEF image_received, To, Labels
  <2> QED
    BY <1>1, <2>2, <2>3, <2>4, <2>5, <2>6 DEF image_received, parameters
<1>2. ASSUME on_input_activity,
             UNCHANGED <<parameters, frontend, input_timer, silence, reports>>
      PROVE  ReceptionTypeOK'
  <2>1. at' \in Labels
    BY <1>2, Zenon DEF on_input_activity, To, Throw, Labels
  <2>2. input_timeout_reported' \in BOOLEAN
    BY <1>2, Zenon DEF on_input_activity
  <2>3. idle' \in Nat \cup {None}
    BY <1>2 DEF on_input_activity
  <2> QED
    BY <1>2, <2>1, <2>2, <2>3, Zenon DEF parameters, frontend
<1>3. ASSUME stereo_callback \/ synchronizer_returns,
             UNCHANGED <<parameters, stats, trace, enqueued, first_stamp, setbacks, timeout>>
      PROVE  ReceptionTypeOK'
  <2>1. at' \in Labels
    BY <1>3, Zenon DEF stereo_callback, synchronizer_returns, To, Throw, Labels
  <2>2. pairs' \in [PairCounts -> Nat]
    <3>1. pairs \in [PairCounts -> Nat]
      BY Zenon DEF PairCounts
    <3>2. \/ \E outcome \in Rejections :
                pairs' = [pairs EXCEPT !["synchronized"] = @ + 1, ![outcome] = @ + 1]
          \/ pairs' = [pairs EXCEPT !["synchronized"] = @ + 1, !["converted"] = @ + 1]
          \/ pairs' = [pairs EXCEPT !["synchronized"] = @ + 1]
          \/ pairs' = pairs
      BY <1>3, Zenon DEF stereo_callback, synchronizer_returns, Rejected
    <3> QED
      BY <3>1, <3>2, PairsTyped
  <2> QED
    BY <1>3, <2>1, <2>2, Zenon DEF parameters, timeout, PairCounts
<1>4. ASSUME on_frame \/ publish_timeout \/ log_timeout,
             UNCHANGED <<parameters, frontend, timeout>>
      PROVE  ReceptionTypeOK'
  <2>1. at' \in Labels
    BY <1>4, Zenon DEF on_frame, publish_timeout, log_timeout, To, Throw, Labels
  <2> QED
    BY <1>4, <2>1, Zenon DEF parameters, frontend, timeout
<1>5. ASSUME enqueue, UNCHANGED <<parameters, stats, pairs, trace, first_stamp, setbacks, timeout>>
      PROVE  ReceptionTypeOK'
  <2>1. at' \in Labels
    BY <1>5, Zenon DEF enqueue, To, Throw, Labels
  <2>2. enqueued' \in Nat
    BY <1>5 DEF enqueue
  <2> QED
    BY <1>5, <2>1, <2>2, Zenon DEF parameters, timeout
<1>6. ASSUME cancel_on_timeout,
             UNCHANGED <<parameters, frontend, idle, input_timeout_reported, silence, reports>>
      PROVE  ReceptionTypeOK'
  <2>1. at' \in Labels /\ input_timer' \in BOOLEAN
    BY <1>6, Zenon DEF cancel_on_timeout, Labels
  <2> QED
    BY <1>6, <2>1, Zenon DEF parameters, frontend
<1>7. ASSUME InputTimer PROVE ReceptionTypeOK'
  <2>1. at' \in Labels
    BY <1>7, Zenon DEF InputTimer, check_input_timeout, To, Labels
  <2>2. reports' \in Nat
    BY <1>7 DEF InputTimer, check_input_timeout
  <2>3. input_timeout_reported' \in BOOLEAN
    BY <1>7, Zenon DEF InputTimer, check_input_timeout
  <2> QED
    BY <1>7, <2>1, <2>2, <2>3, Zenon DEF InputTimer, check_input_timeout, parameters, frontend
<1>8. ASSUME tick PROVE ReceptionTypeOK'
  BY <1>8, OlderTyped, Zenon DEF tick, parameters, frontend
<1>9. ASSUME OtherThreads \/ UNCHANGED allVars PROVE ReceptionTypeOK'
  BY <1>9, Zenon DEF OtherThreads, allVars, reception, parameters, frontend, timeout
<1> QED
  BY <1>1, <1>2, <1>3, <1>4, <1>5, <1>6, <1>7, <1>8, <1>9, Zenon DEF ReceptionNext, Reception

-----------------------------------------------------------------------------
(* Figures *)

(* One more image keeps its side's figures: its stamp repeats the previous  *)
(* one, goes backward by a setback, or adds a positive interval.            *)
LEMMA ImageKeepsFigures ==
    ASSUME ReceptionTypeOK, NEW s \in Sides, NEW stamp \in Stamps[s],
           StampsKnown(s), StampFigures(s), image_received(s, stamp)
    PROVE  StampsKnown(s)' /\ StampFigures(s)'
<1> DEFINE old == stats[s]
           new == observe(old, stamp)
           back == IF old.previous_ns # None /\ stamp < old.previous_ns
                   THEN old.previous_ns - stamp ELSE 0
<1>1. stamp \in Int /\ MaxGap \in Nat
  BY ReceptionAssumption DEF Sides
<1>2. old \in StampStats /\ first_stamp[s] \in Int \cup {None} /\ setbacks[s] \in Nat
  BY DEF ReceptionTypeOK
<1>3. /\ stats'[s] = new
      /\ first_stamp'[s] = IF first_stamp[s] = None THEN stamp ELSE first_stamp[s]
      /\ setbacks'[s] = setbacks[s] + back
  BY DEF image_received, ReceptionTypeOK
<1>4. /\ new.received = old.received + 1 /\ new.previous_ns = stamp
      /\ new.duplicates =
            old.duplicates + Count(old.previous_ns # None /\ Interval(old, stamp) = 0)
      /\ new.backwards = old.backwards + Count(Interval(old, stamp) < 0)
      /\ new.positive_intervals = old.positive_intervals + Count(Interval(old, stamp) > 0)
      /\ new.interval_max =
            IF Interval(old, stamp) > old.interval_max THEN Interval(old, stamp)
                                                       ELSE old.interval_max
      /\ new.interval_sum =
            old.interval_sum + IF Interval(old, stamp) > 0 THEN Interval(old, stamp) ELSE 0
      /\ new.excessive_gaps = old.excessive_gaps + Count(Interval(old, stamp) > MaxGap)
  BY Zenon DEF observe
<1>5. PICK interval \in Int : interval = Interval(old, stamp)
  BY <1>1, <1>2, IntervalTyped
<1>6. /\ old.previous_ns = None => interval = 0
      /\ old.previous_ns # None => interval = stamp - old.previous_ns
  BY <1>1, <1>2, <1>5, IntervalTyped
<1>7. /\ old.received \in Nat /\ old.duplicates \in Nat /\ old.backwards \in Nat
      /\ old.positive_intervals \in Nat /\ old.interval_max \in Nat
      /\ old.interval_sum \in Nat /\ old.excessive_gaps \in Nat
      /\ old.previous_ns \in Int \cup {None}
  BY <1>2 DEF StampStats
<1>8. /\ old.received > 0 <=> old.previous_ns # None
      /\ old.received > 0 <=> first_stamp[s] # None
      /\ old.received = 0 => old.interval_sum = setbacks[s]
      /\ old.received = old.duplicates + old.backwards + old.positive_intervals
                        + Count(old.received > 0)
      /\ old.received > 0 => old.previous_ns = first_stamp[s] + old.interval_sum - setbacks[s]
      /\ old.excessive_gaps > 0 <=> old.interval_max > MaxGap
  BY Zenon DEF StampsKnown, StampFigures
<1> HIDE DEF old, new
<1>9. new.received > 0 /\ new.received # 0 /\ new.previous_ns # None /\ first_stamp'[s] # None
  BY <1>1, <1>2, <1>3, <1>4, <1>7, ReasonsAreSome
<1>10. new.received = new.duplicates + new.backwards + new.positive_intervals
                      + Count(new.received > 0)
  <2>1. CASE old.previous_ns = None
    BY <2>1, <1>4, <1>5, <1>6, <1>7, <1>8, <1>9 DEF Count
  <2>2. CASE old.previous_ns # None
    BY <2>2, <1>4, <1>5, <1>6, <1>7, <1>8, <1>9 DEF Count
  <2> QED
    BY <2>1, <2>2
<1>11. new.previous_ns = first_stamp'[s] + new.interval_sum - setbacks'[s]
  <2>1. CASE old.previous_ns = None
    <3>1. old.interval_sum = setbacks[s] /\ back = 0
      BY <2>1, <1>7, <1>8
    <3> QED
      BY <2>1, <3>1, <1>1, <1>2, <1>3, <1>4, <1>5, <1>6, <1>7, <1>8
  <2>2. CASE old.previous_ns # None
    BY <2>2, <1>1, <1>2, <1>3, <1>4, <1>5, <1>6, <1>7, <1>8, ReasonsAreSome
  <2> QED
    BY <2>1, <2>2
<1>12. new.excessive_gaps > 0 <=> new.interval_max > MaxGap
  BY <1>1, <1>4, <1>5, <1>7, <1>8 DEF Count
<1> QED
  BY <1>3, <1>9, <1>10, <1>11, <1>12, Zenon DEF StampsKnown, StampFigures

LEMMA ExplainedTyped ==
    ASSUME pairs \in [PairCounts -> Nat]
    PROVE  /\ Explained \in Nat /\ pairs["synchronized"] \in Nat /\ pairs["converted"] \in Nat
           /\ pairs["empty"] \in Nat /\ pairs["size_mismatch"] \in Nat
           /\ pairs["conversion_failed"] \in Nat
BY DEF Explained, PairCounts, Rejections

(* A pair that reaches the callback is counted once more as synchronized    *)
(* and, unless an exception ends it, once more among the explained.         *)
LEMMA PairIsExplained ==
    ASSUME pairs \in [PairCounts -> Nat]
    PROVE  /\ \A outcome \in Rejections : Rejected(outcome) =>
                 /\ pairs'["synchronized"] = pairs["synchronized"] + 1
                 /\ Explained' = Explained + 1
                 /\ pairs'["converted"] = pairs["converted"]
           /\ pairs' = [pairs EXCEPT !["synchronized"] = @ + 1, !["converted"] = @ + 1] =>
                 /\ pairs'["synchronized"] = pairs["synchronized"] + 1
                 /\ Explained' = Explained + 1
                 /\ pairs'["converted"] = pairs["converted"] + 1
           /\ pairs' = [pairs EXCEPT !["synchronized"] = @ + 1] =>
                 /\ pairs'["synchronized"] = pairs["synchronized"] + 1
                 /\ Explained' = Explained
                 /\ pairs'["converted"] = pairs["converted"]
<1>1. ASSUME NEW outcome \in Rejections, Rejected(outcome)
      PROVE  /\ pairs'["synchronized"] = pairs["synchronized"] + 1
             /\ Explained' = Explained + 1
             /\ pairs'["converted"] = pairs["converted"]
  <2>1. outcome = "empty" \/ outcome = "size_mismatch" \/ outcome = "conversion_failed"
    BY DEF Rejections
  <2>2. CASE outcome = "empty"
    BY <1>1, <2>2 DEF Rejected, Explained, PairCounts, Rejections
  <2>3. CASE outcome = "size_mismatch"
    BY <1>1, <2>3 DEF Rejected, Explained, PairCounts, Rejections
  <2>4. CASE outcome = "conversion_failed"
    BY <1>1, <2>4 DEF Rejected, Explained, PairCounts, Rejections
  <2> QED
    BY <2>1, <2>2, <2>3, <2>4
<1> QED
  BY <1>1 DEF Explained, PairCounts, Rejections

(* What every step does to the gate, as far as the figures look at it.      *)
LEMMA GateStep ==
    ASSUME Inv, [ReceptionNext]_allVars
    PROVE  /\ stop_requested => stop_requested'
           /\ first_failure # None => first_failure' # None
           /\ first_stop # None => first_stop' = first_stop
<1>1. [Next]_control
  BY StepActsOnGate
<1>2. ASSUME NEW reason \in Reasons, request_stop(reason)
      PROVE  /\ stop_requested => stop_requested'
             /\ first_failure # None => first_failure' # None
             /\ first_stop # None => first_stop' = first_stop
  BY <1>2, Zenon DEF request_stop, KeepFirst
<1>3. ASSUME NEW reason \in Reasons, NEW exc \in BOOLEAN, NEW cleanup \in BOOLEAN,
             record_failure(reason, exc, cleanup)
      PROVE  /\ stop_requested => stop_requested'
             /\ first_failure # None => first_failure' # None
             /\ first_stop # None => first_stop' = first_stop
  BY <1>3, ReasonsAreSome, Zenon DEF record_failure, KeepFirst
<1>4. CASE begin_backend \/ UNCHANGED control
  <2>1. UNCHANGED <<stop_requested, first_stop, first_failure>>
    BY <1>4, Zenon DEF begin_backend, control
  <2> QED
    BY <2>1, Zenon
<1> QED
  BY <1>1, <1>2, <1>3, <1>4, Zenon DEF Next, refuse_backend

LEMMA ThrowMeans ==
    ASSUME NEW label, Throw(label)
    PROVE  at' = label /\ stop_requested' /\ first_failure' # None
BY ReasonsAreSome, Zenon DEF Throw, record_failure, KeepFirst

LEMMA ToMeans ==
    ASSUME NEW label, To(label)
    PROVE  at' = label /\ (stop_requested' <=> stop_requested) /\ first_failure' = first_failure
           /\ first_stop' = first_stop
BY Zenon DEF To, control

LEMMA FiguresInit == ReceptionInit => FiguresInv
<1> SUFFICES ASSUME ReceptionInit PROVE FiguresInv
  OBVIOUS
<1>1. MaxGap \in Nat
  BY ReceptionAssumption
<1>2. ASSUME NEW s \in Sides PROVE StampsKnown(s) /\ StampFigures(s)
  BY <1>1, <1>2 DEF ReceptionInit, StampsKnown, StampFigures, Count
<1>3. trace.events + trace.dropped = stats["left"].received + stats["right"].received
  BY DEF ReceptionInit, Sides
<1>4. Explained = 0 /\ pairs["synchronized"] = 0 /\ pairs["converted"] = 0
  BY DEF ReceptionInit, Explained, Rejections
<1>5. PairsGivenOn
  BY <1>4 DEF ReceptionInit, PairsGivenOn, OnItsWay
<1> QED
  BY <1>2, <1>3, <1>4, <1>5 DEF FiguresInv

(* Steps that neither count nor hand over a pair keep its figures.          *)
LEMMA PairsKept ==
    ASSUME FiguresInv, Inv, [ReceptionNext]_allVars, ReceptionTypeOK,
           UNCHANGED <<pairs, enqueued>>, stop_requested' \/ OnItsWay' = OnItsWay
    PROVE  /\ pairs'["synchronized"] >= Explained'
           /\ pairs'["synchronized"] > Explained' => first_failure' # None
           /\ PairsGivenOn'
<1>1. Explained' = Explained
  BY Zenon DEF Explained
<1>2. /\ stop_requested => stop_requested'
      /\ first_failure # None => first_failure' # None
  BY GateStep
<1>3. PairsGivenOn'
  BY <1>2, Zenon DEF FiguresInv, PairsGivenOn
<1> QED
  BY <1>1, <1>2, <1>3 DEF FiguresInv

(* Steps that receive no image keep the figures of the images.              *)
LEMMA ImagesKept ==
    ASSUME FiguresInv, UNCHANGED <<stats, trace, first_stamp, setbacks>>
    PROVE  /\ \A s \in Sides : StampsKnown(s)' /\ StampFigures(s)'
           /\ trace'.events + trace'.dropped = stats'["left"].received + stats'["right"].received
BY Zenon DEF FiguresInv, StampsKnown, StampFigures

LEMMA FiguresStep ==
    ASSUME ReceptionTypeOK, Inv, FiguresInv, [ReceptionNext]_allVars PROVE FiguresInv'
<1>1. ASSUME NEW s \in Sides, NEW stamp \in Stamps[s], image_received(s, stamp)
      PROVE  FiguresInv'
  <2>1. ASSUME NEW side \in Sides PROVE StampsKnown(side)' /\ StampFigures(side)'
    <3>1. CASE side = s
      BY <3>1, <1>1, ImageKeepsFigures DEF FiguresInv
    <3>2. CASE side # s
      <4>1. /\ stats'[side] = stats[side] /\ first_stamp'[side] = first_stamp[side]
            /\ setbacks'[side] = setbacks[side]
        BY <3>2, <1>1 DEF image_received, ReceptionTypeOK
      <4> QED
        BY <4>1, Zenon DEF FiguresInv, StampsKnown, StampFigures
    <3> QED
      BY <3>1, <3>2
  <2>2. trace'.events + trace'.dropped = stats'["left"].received + stats'["right"].received
    <3>1. trace'.events + trace'.dropped = trace.events + trace.dropped + 1
      BY <1>1, TraceTyped DEF image_received, ReceptionTypeOK
    <3>2. /\ stats[s].received \in Nat /\ stats["left"].received \in Nat
          /\ stats["right"].received \in Nat /\ trace.events \in Nat /\ trace.dropped \in Nat
      BY DEF ReceptionTypeOK, StampStats, Sides
    <3>3. /\ stats'[s].received = stats[s].received + 1
          /\ \A side \in Sides : side # s => stats'[side] = stats[side]
      BY <1>1 DEF image_received, observe, ReceptionTypeOK
    <3>4. trace.events + trace.dropped = stats["left"].received + stats["right"].received
      BY Zenon DEF FiguresInv
    <3>5. CASE s = "left"
      <4>1. stats'["right"] = stats["right"]
        BY <3>3, <3>5 DEF Sides
      <4> QED
        BY <3>1, <3>2, <3>3, <3>4, <3>5, <4>1
    <3>6. CASE s = "right"
      <4>1. stats'["left"] = stats["left"]
        BY <3>3, <3>6 DEF Sides
      <4> QED
        BY <3>1, <3>2, <3>3, <3>4, <3>6, <4>1
    <3> QED
      BY <3>5, <3>6 DEF Sides
  <2>3. UNCHANGED <<pairs, enqueued>>
    BY <1>1, Zenon DEF image_received
  <2>4. OnItsWay' = OnItsWay
    <3>1. at = "idle" /\ at' = "activity"
      BY <1>1, Zenon DEF image_received, To
    <3> QED
      BY <3>1 DEF OnItsWay
  <2>5. /\ pairs'["synchronized"] >= Explained'
        /\ pairs'["synchronized"] > Explained' => first_failure' # None
        /\ PairsGivenOn'
    BY <2>3, <2>4, PairsKept, Zenon
  <2> QED
    BY <2>1, <2>2, <2>5, Zenon DEF FiguresInv
<1>2. ASSUME UNCHANGED <<stats, trace, first_stamp, setbacks, pairs, enqueued>>,
             stop_requested' \/ OnItsWay' = OnItsWay
      PROVE  FiguresInv'
  BY <1>2, ImagesKept, PairsKept, Zenon DEF FiguresInv
<1>3. ASSUME UNCHANGED <<frontend, at>> PROVE FiguresInv'
  BY <1>3, <1>2, Zenon DEF frontend, OnItsWay
<1>4. ASSUME UNCHANGED frontend,
             at \notin {"frame", "enqueue"}, at' \notin {"frame", "enqueue"}
      PROVE  FiguresInv'
  BY <1>4, <1>2, Zenon DEF frontend, OnItsWay
<1>5. ASSUME on_input_activity,
             UNCHANGED <<parameters, frontend, input_timer, silence, reports>>
      PROVE  FiguresInv'
  <2>1. at = "activity" /\ at' = "synchronizer"
    BY <1>5, Zenon DEF on_input_activity, To, Throw
  <2> QED
    BY <2>1, <1>4, <1>5
<1>6. ASSUME stereo_callback \/ synchronizer_returns,
             UNCHANGED <<parameters, stats, trace, enqueued, first_stamp, setbacks, timeout>>
      PROVE  FiguresInv'
  <2> DEFINE PairsAgree ==
               /\ pairs["synchronized"] >= Explained
               /\ pairs["synchronized"] > Explained => first_failure # None
               /\ PairsGivenOn
  <2>0. /\ pairs \in [PairCounts -> Nat] /\ enqueued \in Nat /\ enqueued' = enqueued
        /\ at = "synchronizer" /\ OnItsWay = 0
    BY <1>6 DEF ReceptionTypeOK, PairCounts, stereo_callback, synchronizer_returns, OnItsWay
  <2>a. /\ Explained \in Nat /\ pairs["synchronized"] \in Nat /\ pairs["converted"] \in Nat
    BY <2>0, ExplainedTyped
  <2>b. PairsAgree
    BY Zenon DEF FiguresInv
  <2>1. ASSUME NEW outcome \in Rejections, Rejected(outcome), To("synchronizer")
        PROVE  PairsAgree'
    <3>1. OnItsWay' = 0
      BY <2>1, ToMeans DEF OnItsWay
    <3>2. (stop_requested' <=> stop_requested) /\ first_failure' = first_failure
      BY <2>1, ToMeans
    <3>3. /\ pairs'["synchronized"] = pairs["synchronized"] + 1
          /\ Explained' = Explained + 1
          /\ pairs'["converted"] = pairs["converted"]
      BY <2>0, <2>1, PairIsExplained
    <3>4. PairsGivenOn'
      BY <2>0, <2>b, <3>1, <3>2, <3>3, Zenon DEF PairsGivenOn
    <3> QED
      BY <3>2, <3>3, <3>4, <2>a, <2>b
  <2>2. ASSUME pairs' = [pairs EXCEPT !["synchronized"] = @ + 1, !["converted"] = @ + 1],
               To("frame")
        PROVE  PairsAgree'
    <3>1. OnItsWay' = 1
      BY <2>2, ToMeans DEF OnItsWay
    <3>2. (stop_requested' <=> stop_requested) /\ first_failure' = first_failure
      BY <2>2, ToMeans
    <3>3. /\ pairs'["synchronized"] = pairs["synchronized"] + 1
          /\ Explained' = Explained + 1
          /\ pairs'["converted"] = pairs["converted"] + 1
      BY <2>0, <2>2, PairIsExplained
    <3>4. pairs["converted"] = enqueued + 0 => pairs["converted"] + 1 = enqueued + 1
      BY <2>0, <2>a
    <3>5. PairsGivenOn'
      BY <2>0, <2>b, <3>1, <3>2, <3>3, <3>4, Zenon DEF PairsGivenOn
    <3> QED
      BY <3>2, <3>3, <3>5, <2>a, <2>b
  <2>3. ASSUME pairs' = [pairs EXCEPT !["synchronized"] = @ + 1], Throw("synchronizer")
        PROVE  PairsAgree'
    <3>1. stop_requested' /\ first_failure' # None
      BY <2>3, ThrowMeans
    <3>2. /\ pairs'["synchronized"] = pairs["synchronized"] + 1 /\ Explained' = Explained
      BY <2>0, <2>3, PairIsExplained
    <3>3. PairsGivenOn'
      BY <3>1, Zenon DEF PairsGivenOn
    <3> QED
      BY <3>1, <3>2, <3>3, <2>a, <2>b
  <2>4. ASSUME synchronizer_returns PROVE FiguresInv'
    <3>1. at' = "idle" /\ UNCHANGED pairs
      BY <2>4, Zenon DEF synchronizer_returns, To
    <3> QED
      BY <3>1, <2>0, <1>6, <1>4 DEF frontend
  <2>5. ASSUME PairsAgree' PROVE FiguresInv'
    BY <1>6, <2>5, ImagesKept, Zenon DEF FiguresInv
  <2> HIDE DEF PairsAgree
  <2> QED
    BY <1>6, <2>1, <2>2, <2>3, <2>4, <2>5, Zenon DEF stereo_callback
<1>7. ASSUME on_frame, UNCHANGED <<parameters, frontend, timeout>> PROVE FiguresInv'
  <2>1. CASE stop_requested
    <3>1. stop_requested'
      BY <1>7, <2>1, ToMeans, Zenon DEF on_frame
    <3> QED
      BY <3>1, <1>2, <1>7, Zenon DEF frontend
  <2>2. CASE ~stop_requested
    <3>1. at = "frame" /\ at' = "enqueue"
      BY <1>7, <2>2, ToMeans, Zenon DEF on_frame
    <3>2. OnItsWay' = OnItsWay
      BY <3>1 DEF OnItsWay
    <3> QED
      BY <3>2, <1>2, <1>7, Zenon DEF frontend
  <2> QED
    BY <2>1, <2>2
<1>8. ASSUME enqueue, UNCHANGED <<parameters, stats, pairs, trace, first_stamp, setbacks, timeout>>
      PROVE  FiguresInv'
  <2>0. /\ \A s \in Sides : StampsKnown(s)' /\ StampFigures(s)'
        /\ trace'.events + trace'.dropped = stats'["left"].received + stats'["right"].received
    BY <1>8, ImagesKept, Zenon
  <2>1. Explained' = Explained
    BY <1>8, Zenon DEF Explained
  <2>2. first_failure # None => first_failure' # None
    BY GateStep
  <2>3. PairsGivenOn'
    <3>1. ASSUME enqueued' = enqueued + 1, To("synchronizer") PROVE PairsGivenOn'
      <4>1. OnItsWay = 1 /\ OnItsWay' = 0
        BY <1>8, <3>1, ToMeans DEF OnItsWay, enqueue
      <4>2. stop_requested' <=> stop_requested
        BY <3>1, ToMeans
      <4>3. pairs["converted"] = enqueued + 1 => pairs["converted"] = enqueued' + 0
        BY <3>1 DEF ReceptionTypeOK
      <4>4. pairs' = pairs
        BY <1>8
      <4> QED
        BY <4>1, <4>2, <4>3, <4>4, Zenon DEF PairsGivenOn, FiguresInv
    <3>2. ASSUME Throw("synchronizer") PROVE PairsGivenOn'
      BY <3>2, ThrowMeans, Zenon DEF PairsGivenOn
    <3> QED
      BY <1>8, <3>1, <3>2, Zenon DEF enqueue
  <2> QED
    BY <2>0, <2>1, <2>2, <2>3, <1>8 DEF FiguresInv
<1>9. ASSUME publish_timeout \/ log_timeout, UNCHANGED <<parameters, frontend, timeout>>
      PROVE  FiguresInv'
  <2>1. at \in {"publish", "log"} /\ at' \in {"cancel", "idle"}
    BY <1>9, Zenon DEF publish_timeout, log_timeout, To, Throw
  <2> QED
    BY <2>1, <1>4, <1>9
<1>10. ASSUME cancel_on_timeout,
              UNCHANGED <<parameters, frontend, idle, input_timeout_reported, silence, reports>>
       PROVE  FiguresInv'
  <2>1. at = "cancel" /\ at' = "log"
    BY <1>10, Zenon DEF cancel_on_timeout
  <2> QED
    BY <2>1, <1>4, <1>10
<1>11. ASSUME InputTimer PROVE FiguresInv'
  <2>1. at = "idle" /\ at' \in {"publish", "log"} /\ UNCHANGED frontend
    BY <1>11, Zenon DEF InputTimer, check_input_timeout, To
  <2> QED
    BY <2>1, <1>4
<1>12. ASSUME tick \/ OtherThreads \/ UNCHANGED allVars PROVE FiguresInv'
  BY <1>12, <1>3, Zenon DEF tick, OtherThreads, allVars, reception
<1> QED
  BY <1>1, <1>5, <1>6, <1>7, <1>8, <1>9, <1>10, <1>11, <1>12, Zenon DEF ReceptionNext, Reception

-----------------------------------------------------------------------------
(* The input timeout *)

LEMMA TimeoutInit == ReceptionInit => TimeoutInv
BY ReasonsAreSome DEF ReceptionInit, TimeoutInv, OneReportPerSilence, Init

(* Steps that touch neither the timeout nor a report's stop.                *)
LEMMA TimeoutKept ==
    ASSUME ReceptionTypeOK, TimeoutInv, UNCHANGED <<parameters, idle, input_timeout_reported,
                                                     silence, reports>>,
           stop_requested => stop_requested',
           first_stop' = "InputIdle" => first_stop = "InputIdle",
           at = "activity" \/ at = "publish" => at' = at,
           at' = "activity" \/ at' = "publish" => at' = at
    PROVE  TimeoutInv'
<1>1. input_timeout' = input_timeout /\ timeout_action' = timeout_action
  BY DEF parameters
<1> QED
  BY <1>1, Zenon DEF TimeoutInv, OneReportPerSilence

LEMMA TimeoutStep ==
    ASSUME ReceptionTypeOK, Inv, TimeoutInv, [ReceptionNext]_allVars PROVE TimeoutInv'
<1>0. /\ stop_requested => stop_requested'
      /\ first_stop # None => first_stop' = first_stop
      /\ stop_requested <=> first_stop # None
  BY GateStep, Zenon DEF Inv, CausesConsistent
<1>t. /\ Timeouts \subseteq Nat /\ input_timeout \in Nat
  BY ReceptionAssumption DEF ReceptionTypeOK
<1>1. ASSUME NEW s \in Sides, NEW stamp \in Stamps[s], image_received(s, stamp)
      PROVE  TimeoutInv'
  <2>1. /\ at' = "activity" /\ at = "idle" /\ silence' = 0 /\ reports' = 0
        /\ UNCHANGED <<parameters, idle, input_timeout_reported>>
        /\ first_stop' = first_stop
    BY <1>1, ToMeans, Zenon DEF image_received
  <2>2. silence' # None
    BY <2>1, ReasonsAreSome
  <2>3. idle' # None => input_timeout' > 0
    BY <2>1 DEF TimeoutInv, parameters
  <2>4. ~(reports' > 0)
    BY <2>1
  <2>5. first_stop' = "InputIdle" => input_timeout_reported' /\ timeout_action' = "shutdown"
    BY <2>1, Zenon DEF TimeoutInv, OneReportPerSilence, parameters
  <2>6. at' # "publish"
    BY <2>1
  <2> QED
    BY <2>1, <2>2, <2>3, <2>4, <2>5, <2>6, Zenon DEF TimeoutInv, OneReportPerSilence
<1>2. ASSUME on_input_activity,
             UNCHANGED <<parameters, frontend, input_timer, silence, reports>>
      PROVE  TimeoutInv'
  <2>1. at = "activity" /\ at' = "synchronizer"
    BY <1>2, Zenon DEF on_input_activity, To, Throw
  <2>2. silence \in Nat /\ silence' = silence /\ silence' # None
    BY <1>2, <2>1, ReasonsAreSome DEF TimeoutInv, ReceptionTypeOK
  <2>3. reports = 0 /\ reports' = 0 /\ ~(reports' > 0)
    BY <1>2, <2>1 DEF TimeoutInv
  <2>4. idle' # None => input_timeout' > 0
    BY <1>2 DEF on_input_activity, TimeoutInv, parameters
  <2>5. idle' # None /\ ~stop_requested' => idle' <= silence'
    <3>1. CASE input_timeout = 0
      BY <3>1, <2>4, <1>2 DEF parameters
    <3>2. CASE stop_requested
      BY <3>2, <1>0, Zenon
    <3>3. CASE input_timeout # 0 /\ ~stop_requested
      BY <3>3, <1>2, <2>2 DEF on_input_activity
    <3> QED
      BY <3>1, <3>2, <3>3
  <2>6. first_stop' = "InputIdle" => input_timeout_reported' /\ timeout_action' = "shutdown"
    <3>1. CASE stop_requested
      <4>1. first_stop' = first_stop
        BY <3>1, <1>0
      <4>2. input_timeout_reported' = input_timeout_reported /\ timeout_action' = timeout_action
        BY <3>1, <1>2, Zenon DEF on_input_activity, parameters
      <4> QED
        BY <4>1, <4>2, Zenon DEF TimeoutInv, OneReportPerSilence
    <3>2. CASE ~stop_requested
      <4>1. first_stop = None
        BY <3>2, <1>0, Zenon
      <4>2. first_stop' = None \/ first_stop' = "CallbackError"
        BY <1>2, <4>1, Zenon DEF on_input_activity, To, Throw, record_failure, control, KeepFirst
      <4> QED
        BY <4>2, ReasonsAreSome
    <3> QED
      BY <3>1, <3>2
  <2> QED
    BY <2>1, <2>2, <2>3, <2>4, <2>5, <2>6 DEF TimeoutInv, OneReportPerSilence
<1>3. ASSUME stereo_callback \/ synchronizer_returns \/ on_frame \/ enqueue \/ log_timeout,
             UNCHANGED <<parameters, timeout>>
      PROVE  TimeoutInv'
  <2>1. at \in {"synchronizer", "frame", "enqueue", "log"}
        /\ at' \in {"synchronizer", "frame", "enqueue", "idle"}
    BY <1>3, Zenon DEF stereo_callback, synchronizer_returns, on_frame, enqueue, log_timeout, To, Throw
  <2>2. UNCHANGED control \/ record_failure("CallbackError", TRUE, FALSE)
    BY <1>3, Zenon
    DEF stereo_callback, synchronizer_returns, on_frame, enqueue, log_timeout, To, Throw
  <2>3. first_stop' = "InputIdle" => first_stop = "InputIdle"
    <3>1. first_stop' = first_stop \/ first_stop' = "CallbackError"
      BY <2>2, Zenon DEF control, record_failure, KeepFirst
    <3> QED
      BY <3>1
  <2> QED
    BY <1>3, <2>1, <2>3, <1>0, TimeoutKept DEF timeout
<1>4. ASSUME publish_timeout, UNCHANGED <<parameters, frontend, timeout>> PROVE TimeoutInv'
  <2>1. at = "publish" /\ at' = "cancel" /\ stop_requested'
    BY <1>4, Zenon DEF publish_timeout, request_stop
  <2>2. /\ input_timeout' = input_timeout /\ timeout_action' = timeout_action
        /\ UNCHANGED <<idle, input_timeout_reported, silence, reports>>
    BY <1>4 DEF parameters, timeout
  <2>3. input_timeout_reported /\ timeout_action = "shutdown"
    BY <2>1 DEF TimeoutInv
  <2>4. at' # "activity" /\ at' # "publish" /\ at # "activity"
    BY <2>1
  <2> QED
    BY <2>1, <2>2, <2>3, <2>4, Zenon DEF TimeoutInv, OneReportPerSilence
<1>5. ASSUME cancel_on_timeout,
             UNCHANGED <<parameters, frontend, idle, input_timeout_reported, silence, reports>>
      PROVE  TimeoutInv'
  <2>1. at = "cancel" /\ at' = "log"
    BY <1>5, Zenon DEF cancel_on_timeout
  <2>2. first_stop' = first_stop \/ first_stop' = "CancelError"
    BY <1>5, Zenon DEF cancel_on_timeout, control, record_failure, KeepFirst
  <2>3. first_stop' = "InputIdle" => first_stop = "InputIdle"
    BY <2>2
  <2> QED
    BY <1>5, <2>1, <2>3, <1>0, TimeoutKept
<1>6. ASSUME InputTimer PROVE TimeoutInv'
  <2>1. /\ at = "idle" /\ idle # None /\ ~input_timeout_reported /\ ~stop_requested
        /\ idle >= input_timeout /\ input_timeout_reported' = TRUE /\ reports' = reports + 1
        /\ UNCHANGED <<idle, silence>>
    BY <1>6, Zenon DEF InputTimer, check_input_timeout, Due
  <2>2. at' = (IF timeout_action = "shutdown" THEN "publish" ELSE "log")
    BY <1>6, Zenon DEF InputTimer, check_input_timeout, To
  <2>3. first_stop' = first_stop /\ first_stop = None
    BY <1>6, <2>1, <1>0, Zenon DEF InputTimer, check_input_timeout, To, control
  <2>4. input_timeout' = input_timeout /\ timeout_action' = timeout_action
    BY <1>6, Zenon DEF InputTimer, parameters
  <2>5. input_timeout > 0 /\ silence # None /\ idle <= silence
    BY <2>1 DEF TimeoutInv
  <2>6. idle \in Nat /\ silence \in Nat /\ reports \in Nat
    BY <2>1, <2>5 DEF ReceptionTypeOK
  <2>7. reports = 0
    <3>1. ~(reports > 0)
      BY <2>1, Zenon DEF TimeoutInv
    <3> QED
      BY <3>1, <2>6
  <2>8. reports' = 1 /\ silence' >= input_timeout' /\ input_timeout' > 0
    BY <2>1, <2>4, <2>5, <2>6, <2>7, <1>t
  <2>9. first_stop' # "InputIdle"
    BY <2>3, ReasonsAreSome
  <2>10. timeout_action = "shutdown" <=> at' = "publish"
    BY <2>2
  <2>11. at' # "activity"
    BY <2>2
  <2> QED
    BY <2>1, <2>4, <2>5, <2>8, <2>9, <2>10, <2>11, Zenon DEF TimeoutInv, OneReportPerSilence
<1>7. ASSUME tick PROVE TimeoutInv'
  <2>1. /\ UNCHANGED <<input_timeout, timeout_action, at, input_timeout_reported, reports>>
        /\ first_stop' = first_stop /\ (stop_requested' <=> stop_requested)
        /\ idle' = Older(idle) /\ silence' = Older(silence)
    BY <1>7, Zenon DEF tick, parameters, control
  <2>2. /\ idle \in Nat \cup {None} /\ silence \in Nat \cup {None}
    BY DEF ReceptionTypeOK
  <2>3. /\ idle' # None => idle # None
        /\ silence # None => silence' # None /\ silence' \in Nat /\ silence <= silence'
    BY <2>1, <2>2, OlderTyped, ReasonsAreSome
  <2>4. idle # None /\ silence # None /\ idle <= silence => idle' <= silence'
    BY <2>1, <2>2, OlderMonotone
  <2>5. reports > 0 => silence' >= input_timeout
    <3>1. ASSUME reports > 0 PROVE silence \in Nat /\ silence >= input_timeout /\ silence # None
      BY <3>1, <2>2 DEF TimeoutInv, OneReportPerSilence
    <3> QED
      BY <3>1, <2>3, <1>t
  <2> QED
    BY <2>1, <2>3, <2>4, <2>5, Zenon DEF TimeoutInv, OneReportPerSilence
<1>8. ASSUME OtherThreads PROVE TimeoutInv'
  <2>1. /\ UNCHANGED <<parameters, idle, input_timeout_reported, silence, reports, at>>
    BY <1>8, Zenon DEF OtherThreads, reception, timeout
  <2>2. first_stop' = first_stop \/ first_stop' \in OtherReasons
    BY <1>8, Zenon DEF OtherThreads, request_stop, record_failure, begin_backend,
                       refuse_backend, control, KeepFirst
  <2>3. first_stop' = "InputIdle" => first_stop = "InputIdle"
    BY <2>2, ReceptionAssumption
  <2> QED
    BY <2>1, <2>3, <1>0, TimeoutKept
<1>9. ASSUME UNCHANGED allVars PROVE TimeoutInv'
  <2>1. UNCHANGED <<parameters, idle, input_timeout_reported, silence, reports, at, control>>
    BY <1>9, Zenon DEF allVars, reception, timeout
  <2> QED
    BY <2>1, <1>0, TimeoutKept, Zenon DEF control
<1> QED
  BY <1>1, <1>2, <1>3, <1>4, <1>5, <1>6, <1>7, <1>8, <1>9, Zenon DEF ReceptionNext, Reception

LEMMA ReceptionInvHolds == ReceptionSpec => []ReceptionInv
<1>1. ReceptionInit => ReceptionInv
  BY TypesInit, FiguresInit, TimeoutInit DEF ReceptionInv
<1>2. ReceptionInv /\ Inv /\ [ReceptionNext]_allVars => ReceptionInv'
  BY TypesStep, FiguresStep, TimeoutStep DEF ReceptionInv
<1>3. ReceptionSpec => []Inv
  BY ReceptionKeepsTheGate, InvInvariant, PTL
<1> QED
  BY <1>1, <1>2, <1>3, PTL DEF ReceptionSpec

(* The state of the reception group keeps its types: in particular the      *)
(* intervals, setbacks and figures never go below zero.                     *)
THEOREM ReceptionTypes == ReceptionSpec => []ReceptionTypeOK
<1>1. ReceptionInv => ReceptionTypeOK
  BY DEF ReceptionInv
<1> QED
  BY <1>1, ReceptionInvHolds, PTL

(* The statistics of the stereo frontend and of the evaluation agree with   *)
(* each other through clock resets, rejected pairs, exceptions and stops.   *)
THEOREM FiguresAlwaysAgree == ReceptionSpec => []FiguresAgree
<1>1. ReceptionInv => FiguresAgree
  <2> SUFFICES ASSUME ReceptionInv PROVE FiguresAgree
    OBVIOUS
  <2>1. pairs["converted"] > enqueued => at \in {"frame", "enqueue"} \/ stop_requested
    <3>1. pairs["converted"] \in Nat /\ enqueued \in Nat
      BY DEF ReceptionInv, ReceptionTypeOK
    <3>2. ASSUME at \notin {"frame", "enqueue"}, ~stop_requested
          PROVE  ~(pairs["converted"] > enqueued)
      BY <3>1, <3>2 DEF ReceptionInv, FiguresInv, PairsGivenOn, OnItsWay
    <3> QED
      BY <3>2
  <2> QED
    BY <2>1, Zenon DEF ReceptionInv, FiguresInv, FiguresAgree
<1> QED
  BY <1>1, ReceptionInvHolds, PTL

(* The input timer reports a silence once, only after the whole timeout,    *)
(* and only its report stops the process for a missing input.               *)
THEOREM SilencesReportedOnce == ReceptionSpec => []OneReportPerSilence
<1>1. ReceptionInv => OneReportPerSilence
  BY DEF ReceptionInv, TimeoutInv
<1> QED
  BY <1>1, ReceptionInvHolds, PTL

=============================================================================
