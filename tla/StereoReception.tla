-------------------------- MODULE StereoReception --------------------------
(***************************************************************************)
(* Image reception and the input timeout: the raw image callbacks and      *)
(* stereo_callback of src/frontend/stereo_frontend.cpp, with on_frame,     *)
(* on_input_activity and check_input_timeout of src/slam_node.cpp and the  *)
(* timestamp statistics of src/utils/evaluation_recorder.cpp.              *)
(*                                                                         *)
(* All of these run in the reception group, one callback at a time.  One   *)
(* callback goes through the labels of at:                                 *)
(*   idle -> activity -> synchronizer -> frame -> enqueue -> synchronizer  *)
(*        -> publish -> cancel -> log -> idle                              *)
(* The other threads act on the stop gate meanwhile, and time passes.      *)
(*                                                                         *)
(* The pairing of message_filters is external: it hands over a pair made   *)
(* of images received and not handed over before.  What follows a throwing *)
(* callback (cancel, fallback, report) is modelled in SlamProcess; here it *)
(* records its failure and returns.  Statistics are collected (evaluation) *)
(* and the trace is on; logging is left out but for the exceptions it may  *)
(* raise.                                                                  *)
(***************************************************************************)
EXTENDS StopControl, Integers

CONSTANTS OtherReasons,      \* stop reasons of the other threads
          Stamps,            \* stamps of the images of each side
          MaxGap,            \* stereo.max_gap_sec
          TraceCapacity,     \* of the diagnostic trace
          Timeouts,          \* values of slam.input_timeout_sec, 0 disables
          MaxImages          \* bound: images of each side

ASSUME ReceptionAssumption ==
    /\ None \notin Int
    /\ Stamps \in [{"left", "right"} -> SUBSET Int] /\ MaxImages \in [{"left", "right"} -> Nat]
    /\ OtherReasons \cup {"InputIdle", "CallbackError", "CancelError"} \subseteq Reasons
    /\ "InputIdle" \notin OtherReasons
    /\ {MaxGap, TraceCapacity} \subseteq Nat /\ Timeouts \subseteq Nat
    /\ \E t \in Timeouts : \A u \in Timeouts : u <= t

VARIABLES
    input_timeout, timeout_action,      \* parameters
    stats,                              \* ImageTimestampStats of each side
    pairs,                              \* StereoFrontendStats: counted pairs
    trace,                              \* DiagnosticTrace: stored and dropped events
    at,                                 \* where the reception group is
    idle,                               \* time since last_input_activity_, or None
    input_timeout_reported, input_timer,
    enqueued,                           \* external: frames the coordinator was given
    first_stamp,                        \* history: the first stamp of each side
    setbacks,                           \* history: sum of the backward intervals
    silence,                            \* history: time since the last raw image
    reports                             \* history: reports in this silence

parameters == <<input_timeout, timeout_action>>
frontend == <<stats, pairs, trace, enqueued, first_stamp, setbacks>>
timeout == <<idle, input_timeout_reported, input_timer, silence, reports>>
reception == <<parameters, frontend, timeout, at>>
allVars == <<control, reception>>

Sides == {"left", "right"}
Rejections == {"empty", "size_mismatch", "conversion_failed"}
Longest == CHOOSE t \in Timeouts : \A u \in Timeouts : u <= t

ReceptionInit ==
    /\ Init
    /\ input_timeout \in Timeouts /\ timeout_action \in {"warn", "shutdown"}
    /\ stats = [s \in Sides |->
                   [received |-> 0, duplicates |-> 0, backwards |-> 0, positive_intervals |-> 0,
                    interval_max |-> 0, interval_sum |-> 0, excessive_gaps |-> 0,
                    previous_ns |-> None]]
    /\ pairs = [c \in Rejections \cup {"synchronized", "converted"} |-> 0]
    /\ trace = [events |-> 0, dropped |-> 0]
    /\ at = "idle"
    /\ idle = None /\ input_timeout_reported = FALSE
    /\ input_timer = (input_timeout > 0)
    /\ enqueued = 0
    /\ first_stamp = [s \in Sides |-> None] /\ setbacks = [s \in Sides |-> 0]
    /\ silence = None /\ reports = 0

\* The callback goes on; or it throws, and its guard records the failure.
To(label) == at' = label /\ UNCHANGED control
Throw(label) == at' = label /\ record_failure("CallbackError", TRUE, FALSE)

-----------------------------------------------------------------------------
(* Raw images *)

Interval(old, stamp) == IF old.previous_ns = None THEN 0 ELSE stamp - old.previous_ns

Count(condition) == IF condition THEN 1 ELSE 0

\* "Compare successive callbacks, including a clock reset."
observe(old, stamp) ==
    LET interval == Interval(old, stamp)
        again == old.previous_ns # None
    IN  [received |-> old.received + 1,
         duplicates |-> old.duplicates + Count(again /\ interval = 0),
         backwards |-> old.backwards + Count(interval < 0),
         positive_intervals |-> old.positive_intervals + Count(interval > 0),
         interval_max |-> IF interval > old.interval_max THEN interval ELSE old.interval_max,
         interval_sum |-> old.interval_sum + IF interval > 0 THEN interval ELSE 0,
         excessive_gaps |-> old.excessive_gaps + Count(interval > MaxGap),
         previous_ns |-> stamp]

\* A full trace keeps its first events and counts the others.
trace_record ==
    trace' = IF trace.events = TraceCapacity THEN [trace EXCEPT !.dropped = @ + 1]
                                             ELSE [trace EXCEPT !.events = @ + 1]

image_received(s, stamp) ==
    /\ at = "idle" /\ stats[s].received < MaxImages[s]
    /\ stats' = [stats EXCEPT ![s] = observe(@, stamp)]
    /\ trace_record
    /\ first_stamp' = [first_stamp EXCEPT ![s] = IF @ = None THEN stamp ELSE @]
    /\ setbacks' = [setbacks EXCEPT ![s] =
                       @ + IF stats[s].previous_ns # None /\ stamp < stats[s].previous_ns
                           THEN stats[s].previous_ns - stamp ELSE 0]
    /\ silence' = 0 /\ reports' = 0
    /\ To("activity")
    /\ UNCHANGED <<parameters, pairs, enqueued, idle, input_timeout_reported, input_timer>>

\* Mutant of on_input_activity: a reported timeout is not armed again.
on_input_activity_once ==
    /\ at = "activity"
    /\ idle' = IF input_timeout = 0 \/ stop_requested THEN idle ELSE 0
    /\ To("synchronizer")
    /\ UNCHANGED input_timeout_reported

\* Logging the recovery may throw before the flag is reset.
on_input_activity ==
    /\ at = "activity"
    /\ \/ /\ input_timeout = 0 \/ stop_requested
          /\ To("synchronizer") /\ UNCHANGED <<idle, input_timeout_reported>>
       \/ /\ input_timeout > 0 /\ ~stop_requested
          /\ idle' = 0
          /\ \/ To("synchronizer") /\ input_timeout_reported' = FALSE
             \/ /\ input_timeout_reported
                /\ Throw("synchronizer") /\ UNCHANGED input_timeout_reported

-----------------------------------------------------------------------------
(* Pairs: after the raw callback, in the same callback of the executor *)

\* Mutant of Rejected: a pair is counted as converted before the conversion.
RejectedLate(outcome) ==
    pairs' = [pairs EXCEPT !["synchronized"] = @ + 1, ![outcome] = @ + 1,
                           !["converted"] = @ + Count(outcome = "conversion_failed")]

Rejected(outcome) == pairs' = [pairs EXCEPT !["synchronized"] = @ + 1, ![outcome] = @ + 1]

\* Downstream exceptions are the guard's; so are those of the conversion that
\* are not cv_bridge's.
stereo_callback ==
    /\ at = "synchronizer"
    /\ \A s \in Sides : pairs["synchronized"] < stats[s].received
    /\ \/ \E outcome \in Rejections : Rejected(outcome) /\ To("synchronizer")
       \/ /\ pairs' = [pairs EXCEPT !["synchronized"] = @ + 1, !["converted"] = @ + 1]
          /\ To("frame")
       \/ pairs' = [pairs EXCEPT !["synchronized"] = @ + 1] /\ Throw("synchronizer")

synchronizer_returns == at = "synchronizer" /\ To("idle") /\ UNCHANGED pairs

\* The stop is looked at first, the coordinator is called after.
on_frame ==
    /\ at = "frame"
    /\ IF stop_requested THEN To("synchronizer") ELSE To("enqueue")

enqueue ==
    /\ at = "enqueue"
    /\ \/ enqueued' = enqueued + 1 /\ To("synchronizer")
       \/ Throw("synchronizer") /\ UNCHANGED enqueued

-----------------------------------------------------------------------------
(* The input timer *)

\* Mutant of Due: the report is not remembered.
DueAgain == idle # None /\ ~stop_requested /\ idle >= input_timeout

Due == idle # None /\ ~input_timeout_reported /\ ~stop_requested /\ idle >= input_timeout

check_input_timeout ==
    /\ at = "idle" /\ input_timer
    /\ Due
    /\ input_timeout_reported' = TRUE /\ reports' = reports + 1
    /\ To(IF timeout_action = "shutdown" THEN "publish" ELSE "log")
    /\ UNCHANGED <<idle, input_timer, silence>>

\* "Publish the stop before cancellation or diagnostic logging can fail."
publish_timeout ==
    /\ at = "publish"
    /\ at' = "cancel" /\ request_stop("InputIdle")

cancel_on_timeout ==
    /\ at = "cancel"
    /\ at' = "log" /\ (UNCHANGED control \/ record_failure("CancelError", TRUE, FALSE))
    /\ input_timer' = FALSE

log_timeout == at = "log" /\ (To("idle") \/ Throw("idle"))

-----------------------------------------------------------------------------
\* Time, as far as it matters.
Older(t) == IF t = None \/ t > Longest THEN t ELSE t + 1
tick ==
    /\ idle' = Older(idle) /\ silence' = Older(silence)
    /\ UNCHANGED <<control, parameters, frontend, at, input_timeout_reported, input_timer, reports>>

\* No cleanup has begun while the reception group runs.
OtherThreads ==
    /\ \/ \E reason \in OtherReasons :
             request_stop(reason) \/ record_failure(reason, TRUE, FALSE)
       \/ backend_starts < MaxBackendStarts /\ begin_backend
       \/ refuse_backend
    /\ UNCHANGED reception

\* The steps that end a callback once it runs.
Reception ==
    \/ on_input_activity
       /\ UNCHANGED <<parameters, frontend, input_timer, silence, reports>>
    \/ (stereo_callback \/ synchronizer_returns)
       /\ UNCHANGED <<parameters, stats, trace, enqueued, first_stamp, setbacks, timeout>>
    \/ on_frame /\ UNCHANGED <<parameters, frontend, timeout>>
    \/ enqueue /\ UNCHANGED <<parameters, stats, pairs, trace, first_stamp, setbacks, timeout>>
    \/ (publish_timeout \/ log_timeout) /\ UNCHANGED <<parameters, frontend, timeout>>
    \/ cancel_on_timeout
       /\ UNCHANGED <<parameters, frontend, idle, input_timeout_reported, silence, reports>>

InputTimer == check_input_timeout /\ UNCHANGED <<parameters, frontend>>

ReceptionNext ==
    \/ \E s \in Sides : \E stamp \in Stamps[s] : image_received(s, stamp)
    \/ Reception \/ InputTimer
    \/ OtherThreads
    \/ tick

(* A callback that runs ends, time passes, and the executor runs the input  *)
(* timer: it fires every 100 ms, in a group whose callbacks all end.        *)
ReceptionSpec ==
    /\ ReceptionInit /\ [][ReceptionNext]_allVars
    /\ WF_allVars(Reception) /\ WF_allVars(InputTimer) /\ WF_allVars(tick)

-----------------------------------------------------------------------------
(* The figures of the evaluation agree with each other, through clock       *)
(* resets, rejected pairs and exceptions.  Each side's intervals add up to  *)
(* the distance from its first to its last stamp.  Until a stop every pair  *)
(* is accounted for and every converted pair was given to tracking: one     *)
(* that is missing is explained by the stop or a recorded failure.          *)
StampFigures(s) ==
    LET f == stats[s] IN
    /\ f.received = f.duplicates + f.backwards + f.positive_intervals + Count(f.received > 0)
    /\ f.received > 0 => f.previous_ns = first_stamp[s] + f.interval_sum - setbacks[s]
    /\ f.excessive_gaps > 0 <=> f.interval_max > MaxGap
Explained ==
    pairs["empty"] + pairs["size_mismatch"] + pairs["conversion_failed"] + pairs["converted"]
FiguresAgree ==
    /\ \A s \in Sides : StampFigures(s)
    /\ trace.events + trace.dropped = stats["left"].received + stats["right"].received
    /\ pairs["synchronized"] >= Explained
    /\ pairs["synchronized"] > Explained => first_failure # None
    /\ pairs["converted"] > enqueued => at \in {"frame", "enqueue"} \/ stop_requested

(* "warn logs once per silence and permits recovery": a silence is reported *)
(* at most once, and only when it has lasted for the whole timeout after a  *)
(* raw image of either side.  "shutdown" makes the report a stop, which     *)
(* nothing but such a silence requests.                                     *)
OneReportPerSilence ==
    /\ reports > 0 => reports = 1 /\ input_timeout > 0 /\ silence >= input_timeout
    /\ first_stop = "InputIdle" => input_timeout_reported /\ timeout_action = "shutdown"
    /\ reports > 0 /\ timeout_action = "shutdown" => at = "publish" \/ stop_requested

(* Every silence is reported, the first as well as one after a recovery,    *)
(* unless an image ends it or the process stops.                            *)
SilenceIsReported ==
    input_timeout > 0 /\ silence = 1 ~> reports = 1 \/ stop_requested \/ silence = 0
=============================================================================
