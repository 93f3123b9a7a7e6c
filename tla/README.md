# Specifications of gemini336_orbslam3

TLA+ models of the ROS 2 node that feeds stereo images and IMU samples of a Gemini 336 camera to
ORB-SLAM3, and of the tool that diagnoses the camera's timestamps, with TLC runs on small instances
and TLAPS proofs for every instance. Paths below are relative to `src/src/gemini336_orbslam3/`.

## The system

One process (`src/slam_node.cpp`) runs a two-thread `MultiThreadedExecutor` with two mutually
exclusive callback groups and a stop timer, next to the upstream Viewer thread, the signal handling
thread of rclcpp and the upstream worker threads.

```
 camera images -> StereoFrontend --on_frame--> TrackingCoordinator --track--> OrbSlam3Adapter -> ORB-SLAM3
                       |  (reception group)      |   (tracking group)               |
 IMU samples  -> ImuFrontend <---takeMeasurements+                             Viewer thread
                       |                         |                                  |
                       +------- StopControl: every stop and failure ----------------+
                                     |
                        main: spin -> SlamNode::shutdown -> finalize_process -> exit code
```

| Component (source) | State | Operations | Hard part |
|---|---|---|---|
| Stop gate (`common/stop_control.hpp`) | stop flag, first stop, first failure, cleanup evidence | request_stop, record_failure, try_begin_backend | called from every thread; a stop must exclude later backend calls |
| IMU frontend (`frontend/imu_frontend.cpp`) | bounded sample buffer, consumption boundary, counters | imu_callback, takeMeasurements, stop_receiving | overflow against consumption, boundary equality, stamps that merge as doubles |
| Stereo frontend (`frontend/stereo_frontend.cpp`) | synchronizer, counters | raw image callbacks, stereo_callback, stop_receiving | counters of a chain that may stop or throw at each link; the pairing is a library's |
| Frame queue (`slam/tracking_coordinator.cpp`, under `queue_mutex_`) | pending frames, one or two reservations, startup flag, accounting | enqueue_frame, reserve_*, discard_startup_first, completion, snapshot | shared capacity, eviction beside reserved work, the startup pair |
| Tracking coordinator (same file, the consumer) | work stages, wait deadline, failure flag | process_pending_frames and what it calls | stop checks and locks between steps, retries, exceptions after a commit |
| Adapter (`slam/orbslam3_adapter.cpp`) | accepted timestamps, shutdown state | track, shutdown, destructor, collectMapOutput, exportFinalTrajectories | a shutdown is attempted once, a failed call must not advance the timeline wrongly |
| Callback guard, Viewer notification, context registration (`common/`) | first failure, handles | run, cancel, fail; operator(); close | cancelling may fail, the fallback too; callbacks may throw |
| Process lifecycle (`slam_node.cpp` main, `process_finalization.hpp`, `process_evidence.hpp`) | executor, node, context, exit code | startup, spin, cleanup, exit | lost cancels, exceptions at every step, teardown beside the Viewer |
| Node finalization (`SlamNode::shutdown`) | teardown position, exports | 21 steps in order | each may fail, each has preconditions |
| Input timeout (`check_input_timeout`, `on_input_activity`) | last activity, reported flag | the two | report once per silence, rearm, stop, a throwing log call |
| Evaluation recorder and inputs (`utils/evaluation_*.cpp`) | bounded records, aggregates, files | record, write, write_evaluation_* | overflow, denominators of partial data, half-written files, the marker |
| Final trajectory export (`utils/evaluation_recorder.cpp`) | staging directory, result, manifest | write_evaluation_final_trajectory | an exporter that contradicts its files, a destination that appears meanwhile |
| Logging session (`utils/logging.cpp`) | asynchronous queue, writer, sinks, failure flag | get_logger, log, periodic flush, finish | what is lost by overload and by failing writes must reach the exit evidence |
| Diagnostic trace (`common/diagnostic_trace.hpp`) | bounded events, dropped counter | record, write | recorded from every thread |
| Timestamp diagnostic node (`../gemini336_slam_tools/src/timestamp_diagnostic_node.cpp`) | stream statistics, two stamp queues | image and IMU callbacks | FIFO pairing of streams with late, repeated, missing frames and clock resets |

The last one is a process of its own. What makes each of them correct is stated in the modules below; `PROJECT.json` lists the hazards
by line with the properties that cover them.

## Modules

| Module | Models | Kind |
|---|---|---|
| `StopControl` | the stop gate, an action per member function | component |
| `ImuDelivery` | what the IMU frontend promises: adjacent intervals answered from the complete history | abstract specification |
| `ImuFrontend` | buffer, validation, overflow, take; implements `ImuDelivery` | component |
| `ImuFrontend_proofs` | its invariants, and that it implements `ImuDelivery` | proofs |
| `FrameQueue` | all that `queue_mutex_` protects, an action per critical section | component, and the abstract specification of the coordinator |
| `FrameQueue_proofs` | types, accounting, capacity, frame order, startup protocol, reservations | proofs |
| `OrbSlam3Adapter` | input checks, accepted timeline, shutdown attempt | component, used through INSTANCE |
| `TrackingCoordinator` | reception thread, tracking thread and stop sources over the five above; implements `FrameQueue` | composition |
| `TrackingCoordinator_proofs` | its invariants, and that it implements `FrameQueue` and keeps to `ImuFrontend` | proofs, over instances of those two modules' proofs |
| `TrackingWait` | `TrackingCoordinator` with a clock that measures continuous waiting | observer |
| `Finalization` | SlamNode::shutdown over the stop gate and the adapter | component |
| `SlamProcess` | main, executor, callback guard, Viewer, context; extends `Finalization` | composition |
| `SlamProcess_proofs` | the invariants of `Finalization` and of the process, and its use of the gate | proofs |
| `StereoReception` | raw images, pairs, their hand-over, the input timer and the trace, over the stop gate; extends `StopControl` | composition |
| `StereoReception_proofs` | the gate's invariant and finality; figures, silences and the use of the gate by reception | proofs |
| `EvaluationRecorder` | what a call leaves in the recorder, and the figures of frames.csv and summary.csv | component; data against a reference definition |
| `FinalTrajectory` | staging, validation, manifest and publication of the trajectories | component |
| `EvaluationExport` | the export steps in their order; extends the two above | composition |
| `EvaluationExport_proofs` | what is published, the marker's figures, and that the recorder's figures are those of the run | proofs |
| `LoggingSession` | producers, queue, writer, flush and finish | component |
| `LoggingSession_proofs` | its evidence is truthful | proofs |
| `TimestampPairing` | stream statistics and stereo pairing of the diagnostic node | component |
| `TimestampPairing_proofs` | types, accounting and exact pairing | proofs |
| `MC*` | instances for TLC | |

### How code maps to model

- A critical section is one action; a callback or `process_pending_frames` is cut where it takes or
  releases a lock or reads the stop flag, and a program counter (`pc`, `reception`, `at`) says where it
  is. The names of the actions are the functions'.
- A frame is its timestamp and its enqueue sequence, a sample its timestamp in double seconds, an
  exception the reason it is recorded with. Pixels, poses, logs and timings are left out.
- `Seconds` takes an integer nanosecond stamp to the double it is stored as. It is monotone but not
  injective: the small instances let neighbouring stamps merge, as they do at epoch scale.
- A message of the IMU topic is what the checks look at (available, finite, normalized, stamp).
- An upstream call returns or throws. If it throws, the accepted timeline may or may not have advanced
  (the exception may come from reading the state after the call).
- In `Finalization` a step that fails may have written part of its export, except for the two files
  written beside their place and renamed.
- In `SlamProcess` what callbacks compute is left out: each returns, asks for a stop or throws.
  The executor is modelled from its use: `spin()` sets the flag it loops on, `cancel()` clears it,
  and both a cleared flag and an invalid context end the loop after the running callbacks. Only one
  callback per group runs; the groups overlap freely.
- In `StereoReception` a pair is one callback with one outcome: rejected, converted or an exception;
  which images the synchronizer matches is open. `silence` measures time since the last image as an
  observer would, `idle` is what the code computes from its own `last_input_activity_`.
- `EvaluationRecorder` computes every sum, extremum, count and percentile as the code does. One duration
  stands for the four timing columns, and what is a quotient of two of the figures is left out. A call's return is a
  record of what the figures tell apart.
- In `EvaluationExport` a file is absent, malformed (a write failed half-way) or what it says.
- In `LoggingSession` spdlog is modelled from its use: a bounded queue that replaces its oldest record,
  one writer, loggers that hold the pool weakly, sinks that handle their own errors. One
  sink stands for both: a failing console write is a noted failure that keeps the file's record.
- `TimestampPairing` does the pairing loop of one message in one step: the queues on entry never both
  hold stamps, so a message makes the loop drop what is too old on the other side and pair at most once.
- History variables (`arrived`, `delivered`, `fed`, `log`, `backend_starts`, `upstream_shutdowns`,
  `failed_steps`, `returned`, `posted`, `pairs` of `TimestampPairing`, `reports` and `silence`) are read by no action, except as bounds (`backend_starts`, the number of failed steps
  and of records) and for the number of the next record in `posted`.

Operators called *Mutant of X* in a comment are plausible bugs of the code. Replacing `X` by one makes
TLC report the property `PROJECT.json` names for it, which shows that the property depends on the code.

## Runs

| Run | Configuration | Question | Bounds |
|---|---|---|---|
| `imu_frontend` | `MCImuFrontend.cfg` | Does the bounded frontend deliver what `ImuDelivery` promises? | buffer 3, 5 messages, 8 stamps on 6 doubles, gap limit 2 |
| `queue_stereo_imu` | `MCFrameQueueStereoImu.cfg` | Accounting, capacity, order, startup and reservations of the queue on its own | capacity 2, 7 timestamps |
| `tracking_stereo_imu` | `MCTrackingStereoImu.cfg` | Does the composition keep the queue's protocol and every sample; does a stop bring tracking to rest, and does every reservation end? | capacity 2, buffer 3, 4 samples, 3 image times, wait limit 1 tick |
| `tracking_stereo` | `MCTrackingStereo.cfg` | Does the composition keep the queue's protocol in Stereo mode? | capacity 1 |
| `wait_is_continuous` | `TrackingWait.cfg` | Is the configured wait the continuous one its comment describes? (No.) | wait limit 2 |
| `finalization` | `MCFinalization.cfg` | Does teardown with failing steps keep preconditions, evidence and order? | 3 failing steps |
| `process` | `MCSlamProcess.cfg` | Quiescent teardown, one upstream shutdown, truthful exit code; does every stop end the process? | 1 failing teardown step, 2 failing cancels |
| `viewer_actions` | `MCSlamProcessViewer.cfg` | Is the executor the Viewer captured alive when it is used? (Not after a throwing shutdown.) | no failing cancels |
| `stereo_reception` | `MCStereoReception.cfg` | Do the input figures explain each other, is each silence reported exactly once, and does the gate stay consistent and closed under all of its callers? | 3 images of each camera, trace of 3, timeouts 0 (off) and 2 ticks, both actions |
| `evaluation` | `MCEvaluationExport.cfg` | Are the figures those of the run, does the marker certify them, and is a published trajectory complete? | 3 calls of 5 kinds into 2 records, files of 0 or 1 rows |
| `logging` | `MCLoggingSession.cfg` | Is the log that is reported the log that was written, and does finish return? | 2 producers, 4 records, queue of 2, 1 failing write or flush |
| `timestamp_pairing` | `MCTimestampPairing.cfg` | Is every stamp accounted for, and are exactly the right frames paired? | 3 images of each camera, 5 stamps, tolerance 1, windows of 2 |

Why the bounds are enough:

- Queue: a capacity of two is the smallest that admits a startup pair, and with it reserved work fills
  the capacity, so both eviction and dropped input happen. Seven timestamps allow two promotions
  followed by normal frames. Nothing in the code depends on a larger capacity, and the proofs cover it.
- IMU: an interval is decided by the anchor before it, its samples and the first one after it; a
  buffer of three holds just these, so each further sample overflows while an interval is still open.
  Five messages are enough to overflow twice around a take.
- Coordinator: four samples and three image times let startup complete and one normal frame follow,
  with a missing history, a gap, an overflow or a timeout on the way. A backward message is a stamp
  below the last one. `MCTrackingCoordinator` sends only well-formed messages, because the other
  rejections change a counter nobody reads there and have a run of their own.
- Finalization: the steps interact through three flags (`evaluation_written`, `inputs_written`,
  `backend_returned`); three failures meet each combination of these with one failure elsewhere.
- Reception: three images reach an interval after a setback; a trace of three overflows. An
  image after a report shows the rearming, and both are followed by a second silence.
- Evaluation: three calls overflow two records, and the five kinds are the cases `record` and the
  conversion tell apart (before the first tracked frame, lost, an unknown state, no snapshot, an
  invalid rotation, no inliers). The export of the trajectories reads nothing of the
  recorder, so the constraint `TrajectoryOnce` explores its own states after one run only; all earlier
  steps are explored for every run. One row more or less than the result says is the only thing the
  number of rows can be wrong by.
- Logging: with a queue of two and a record in the writer's hands the third record overflows; one
  failure is enough for the evidence, which only remembers that there was one.
- Timestamps: three frames of each camera are enough for a frame without a partner between two with
  one, an overflow of the window and a reset with stamps waiting.
- Process: two failing cancels let both an ordinary notifier and the stop timer fail.

Deadlock checking is off where the system really stops: after a stop, after the last timestamp of the
instance, or when the process has ended. It is on for the IMU frontend, which always accepts another call.

### Fairness

- `TrackingCoordinator!Fairness`: the tracking timer keeps firing and its callback keeps running
  (`MultiThreadedExecutor`, wall timer), a reception callback that holds the queue's lock finishes, the
  steady clock advances, and an upstream call returns or throws. Nothing is assumed about input.
- `SlamProcess!ProcessFairness`: main runs on, a callback or notification that started ends, the
  executor gets round to the stop timer, and an upstream shutdown returns or throws. Nobody has to stop
  and `spin()` does not have to fail. Weak fairness is enough everywhere: none of these
  steps is disabled again by another thread for as long as the system needs it.

- `StereoReception!ReceptionSpec`: a reception callback that runs ends, time passes, and the input timer,
  which fires every 100 ms in a group whose callbacks all end, is run. Weak fairness is enough: only a
  callback disables a due timer, it ends, and the image that began it has ended the silence.
- `LoggingSession!FairSpec`: the writer's thread and main run on (weak fairness); nothing is asked of the
  producers, so that one may rest in the middle of a log call.

The first two assume that upstream calls end. A hanging upstream shutdown hangs the process; the code exports
its evidence before that call for this reason.

### Findings

1. `wait_is_continuous`: `config/stereo_imu_slam.yaml` describes `stereo_imu.wait_timeout_sec` as
   "Continuous WaitingForData time, excluding queue residence and backend work". `prepare_imu_work`
   keeps the deadline when MissingHistory promotes F1 to F0, so the time until the next image arrives
   counts too although nothing is requested then. A comment in the function says the deadline is kept on
   purpose: what should change is probably the description.
2. `viewer_actions`: "Captured actions must remain valid until Viewer joins, including startup unwind"
   (`common/viewer_stop_notification.hpp`). main resets the executor also after a backend
   shutdown that threw, when the Viewer may not have joined. The model assumes that upstream can throw
   before joining the Viewer; the upstream source is a submodule and not part of the tree.

## Proofs

Everything is proved for arbitrary constants under the named assumptions of the modules; the bounds
of the models (`MaxRows`, `MaxFailures` and so on) are such constants too. `tlapm` checks 8 modules.

| Module | Theorem | States |
|---|---|---|
| `FrameQueue_proofs` | `TypeInvariant`, `Counting`, `CapacityKept` | types, `AccountingValid`, `CapacityRespected` |
| | `Ordering`, `StartupProtocol` | `FramesInOrder`, `StartupPairShape` |
| | `ReservationsStay` | the action property `ReservationsAreKept` |
| `ImuFrontend_proofs` | `TypeInvariant`, `BufferHoldsRecentHistory` | types, `BufferIsRecentHistory` |
| | `LostHistoryIsClassified`, `FinalAnswers` | `LostHistoryClassified`, the action property `AnswersAreFinal` |
| | `FrontendImplementsDelivery` | the refinement of `ImuDelivery` |
| | `DeliveryIsExactlyOnce`, `SamplesDeliveredExactlyOnce` | exactly-once delivery, abstract and detailed |
| `TrackingCoordinator_proofs` | `CoordinatorImplementsQueue` | the refinement of `FrameQueue` |
| | `CoordinatorImplementsImuFrontend` | the coordinator takes steps of `ImuFrontend` only |
| | `TypeInvariant` and six more | `NoInternalError`, `PermitsMatchCalls`, `SamplesConserved`, `BoundaryIsLastSampledFrame`, `FailuresStopTheProcess`, `WaitsBelongToWork` |
| `SlamProcess_proofs` | `StepsFindWhatTheyNeed`, `MarkerIsTruthful`, `EvidenceMatchesFailures`, `FailuresStayLocal` | the four invariants of `Finalization` |
| | `TeardownIsQuiescent`, `ShutDownOnce`, `ExitCodeIsTruthful` | the three invariants of the process |
| | `TeardownFindsWhatItNeeds`, `ProcessKeepsTheGate` | `StepPreconditions` inside the process; the refinement of `StopControl` |
| `StereoReception_proofs` | `CausesAreConsistent`, `GateFinality` | `CausesConsistent`, `GateOnlyCloses` of the gate on its own |
| | `ReceptionKeepsTheGate` and its corollaries `ReceptionCausesConsistent`, `ReceptionGateFinality` | the refinement of `StopControl`, and with it the gate's properties |
| | `ReceptionTypes`, `FiguresAlwaysAgree`, `SilencesReportedOnce` | types, `FiguresAgree`, `OneReportPerSilence` |
| `EvaluationExport_proofs` | `PublicationIsComplete`, `ExportPublishesComplete` | `PublishedComplete` of the exporter alone and of the whole export |
| | `MarkerIsAccurate` | `MarkerCertifiesFigures` |
| | `FiguresAreThoseOfTheRun` | `SummaryExact` |
| | `CertifiedSummaryIsExact` | the two together: beside a whole marker, `summary.csv` on disk is the exact account of the run |
| `LoggingSession_proofs` | `EvidenceIsTruthful` | `SessionEvidenceTruthful` |
| `TimestampPairing_proofs` | `TypeInvariant`, `FiguresAddUp`, `FifoPairingIsExact` | types, `Accounting`, `PairingExact` |

### The arguments

**Stop gate.** `Inv` adds the types to the property; each operation writes its causes in one critical
section. Reception and process are shown to take steps of the gate or leave it alone
(`ReceptionKeepsTheGate`, `ProcessKeepsTheGate`), so what is proved of the gate holds under all callers.

**Frame queue.** With the types, accounting and capacity are inductive: admission makes room before it adds, and
reservations only move frames. The startup protocol is not; `PairInv` adds
that nothing has been completed before a pair is whole, that both frames of a pair are sampled
together, and that F1 does not execute while F0 is there. `FramesInOrder` speaks of one sequence put
together from the log, the reservations and the queue, which no step changes as a whole: `OrderInv` looks at the four
places one by one and adds that the last tracked timestamp never passes the last received one, without which
a newly admitted frame might not come after it. `ReservationsStay` needs `UnsampledHoldsNoBatch`: discarding
F0 drops a work whose stage is Reserved, and the property allows that only without a batch.

**IMU frontend.** `IInv` ties the bounded buffer to the unbounded history: the buffer is its end
(`Retained`), what was removed was either evicted or left behind by a take that kept an anchor
(`RemovalsExplained`), and a granted interval lies below the newest sample (`BoundaryCovered`).
`upper_bound` is a `CHOOSE`, so `UpperBoundSplits` first shows that the
split it names exists, by a least counterexample (`LeastNatural`, from the well-foundedness of the
naturals, since induction over an operator is not available), and `UpperBoundShift` that a search in the
buffer and one in the history find the same sample. Then each take is an abstract delivery and each
accepted message an arrival. That the abstract specification delivers exactly once is a theorem about
it alone, with its own invariant (what was delivered is one run of what arrived), and `SamplesDeliveredExactlyOnce`
combines the two. `FinalAnswers` goes through the actions by the answer before the step.

**Tracking coordinator.** The invariants of the parts are not proved again: the module takes `FrameQueue_proofs`
and `ImuFrontend_proofs` as instances over its own variables (`QueueFacts`, `ImuFacts`) and uses their
step lemmas. The inductive `Inv` has five parts, in the order in which they depend on each other:
`ControlInv` (which stage the work has at which `pc`, what a failure has recorded, permits against calls); `QueueInv`
and `IInv` of the parts; `SampleInv` (where a batch may be, in which order its samples are, and that `delivered` is
`fed` followed by the batches in hand); `FrameInv` (every frame still to be tracked is newer than
upstream's last one). No internal error is reachable because each guard the code checks is a consequence of these: the frame order of the queue
gives the adapter's timeline, the interval of a batch gives its sample order. The refinements follow: at each `pc`
a step is one action of the queue, or one of the frontend, or neither.

**Teardown.** `TInv` says how far each release, export and the backend's shutdown is at each position of
the 21 steps, whichever of them failed before; `FInv` adds what holds of the teardown on its own, with the stop gate. `LifeInv`
places the teardown in main (not begun before finalization, over or never begun in the cleanup) and counts
upstream shutdowns by the adapter's state. `Quiescent` alone is inductive for the executor, because
`spin` returns only when its callbacks have. For the exit code, `EvidenceStep` shows that a failure flag of main
always comes with its cause in the gate, and `CausesStay` that a cause is not lost later.

**Reception.** `FiguresInv` counts the stamps seen against the intervals they make and the outcomes of the pairs
against what was synchronized, at each point where the callback may have stopped. `TimeoutInv` relates what the code computes
from `last_input_activity_` to the time an observer measures: only between an image and its bookkeeping
may `idle` exceed `silence`.

**Evaluation.** For the export, `Says` states what each file says if it is whole, `Already` which files are whole in which phase,
and `NotYet` which do not exist yet; with `FiguresInv` (retained and dropped frames are the
processed ones) this is inductive. For the trajectories, `StepsEstablish` says what each step has established before the
end, and someone else's steps disturb none of that.

`SummaryExact` compares the recorder, which updates each figure call by call, with definitions over the whole run.
It is not inductive, since percentiles and N/As forget what they are computed from; `TallyInv` is: every counter is
the cardinality of its set of calls, every sum that of its column, every extremum an element that bounds the others
(and nothing before the first sample), and the buffer holds the conversions of the first `Capacity` calls. The sets,
sums and extrema of a run with one call more (`Longer`) are those of the run with the new call joined
(`CallSetsGrow`, `SumsGrow`, `InliersGrow`), and each group of figures has its step lemma. Sums are a recursive function
(`SumOf`), so that the proof can show by a least counterexample (`CountingUp`) that the function exists, is the only
one and grows by what is appended. Percentiles are proved apart: `RankRoundsUp` shows for 50 and 95 that the rounded rank reaches
exactly the counts that are at least the percentage, and `NearestRank` that the value the code picks exists, is unique and
is the least one which enough of the calls do not exceed.

**Logging.** `InOrder` looks at file, buffer, writer and queue one by one: the order of records holds within each and from each to the next,
so that no hand-over can break it. `Everything` counts them together with the overruns as long as no
failure is noted; `Quiet` and `Ending` follow finish: once every producer had ended, the pool it let go of has joined before
the last flush, so that nothing is left between `posted` and the file but what was dropped.

**Timestamp pairing.** `FiguresAddUp` is inductive with the types. `FifoPairingIsExact` rests on two
invariants about the stamps since the last reset: `EpochInv` (a queue is the end of its stream's stamps, which
never go back) and `MatchInv` (a stamp that waits no more has met one of the other side that reaches up to it, and
the pairs are those within the tolerance). A stamp dropped as stale then cannot have a partner later, and the
spacing leaves it at most one. Spacing is assumed of adjacent stamps as in the code's comment; `SpacedApart`
extends it to all, and `StaleIsPrefix` shows that the loop drops exactly the stamps that are too old.

TLC confirms `PairInv` and `OrderInv`, `EpochInv` and `MatchInv`, `FiguresInv`, `ExportInv` and `TallyInv`
on the instances of their runs.

### The assumptions

- `FrameQueueAssumption`: a capacity of at least one, two in StereoImu mode (the node's parameter checks),
  natural timestamps; `PairingAssumption`, `SlamProcessAssumption`,
  `FinalizationAssumption`, `LoggingAssumption`: numbers are numbers, a queue has room for a record.
- `ImuFrontendAssumption`: a conversion to seconds is monotone, and nothing else; two stamps may merge.
- `CoordinatorAssumption`: those of the parts; `Batches` holds every increasing sequence of sample times that fits
  into the buffer, so that no batch is missing from the type of a work; the wait limit is positive.
- `ReceptionAssumption`: stamps are integers; the timeouts have a largest one, which only bounds the observer's clock.
- `ExportAssumption`, `TrajectoryAssumption`: a missing or malformed file is not mistaken for contents.
- Everywhere: `None` is not one of the values it stands in for.

### Only model-checked

- Liveness (`StopQuiesces`, `ReservedWorkProgresses`, `StopEndsProcess`, `SilenceIsReported`, `FinishReturns`): fairness and
  ENABLED are outside the prover.
- `TimeoutIsContinuousWait` and `CapturedActionsValid` are violated (see Findings).

## Not modelled

The upstream System, its Viewer and the executor (external; their outcomes are open choices), image
contents and the matching inside the synchronizer, map output and settings of the adapter, throughput
statistics and periodic reports (they read what is modelled), formatting of exports and logs, parameter
reading beyond success or failure, the construction of a logging session (its directory and the link
to the latest one), the trace records of the tracking thread, and the
printout of the diagnostic node. The Python tools are offline programs over recorded files without
concurrency or state of their own; `tools/imu_frontend_check_node.cpp` is a manual check of the IMU
frontend that adds nothing to it; containers, calibration and recorded results are data.

## Plan

1. Done: the modules and runs above and the theorems listed.
2. Model, where it still pays: the construction of a logging session (two sessions at once, the latest
   link, a failing rename), the adapter's map output after shutdown.
3. Prove: done for every safety invariant, action property and refinement that a run checks and that holds.
   What is left is liveness.
