----------------------------- MODULE SlamProcess -----------------------------
(***************************************************************************)
(* The life of the process: main in src/slam_node.cpp, the executor it     *)
(* spins, the callback guard, the Viewer and the context's shutdown        *)
(* notification, up to the exit code (finalize_process and                 *)
(* write_process_evidence).                                                *)
(*                                                                         *)
(* Main goes through the labels of pc:                                     *)
(*   init register registered    rclcpp::init, ContextStopRegistration     *)
(*   construct wire              SlamNode: the backend, then the rest      *)
(*   check enter spin joined     the stop check, executor->spin()          *)
(*   finalize                    finalize_process, SlamNode::shutdown      *)
(*   detach executor node context logging report     the other cleanups    *)
(*   exited, terminated          normal exit, _Exit without cleanup        *)
(*   crashed                     a released executor was called            *)
(*                                                                         *)
(* Each callback group runs at most one callback, the Viewer is a thread.  *)
(* What a callback computes is left out here: it returns, stops the        *)
(* process or throws.  The executor (rclcpp) and the Viewer are modelled   *)
(* from their use: cancel() clears the flag spin() loops on, spin() sets   *)
(* it on entry and returns after its workers, and the Viewer is joined by  *)
(* a backend shutdown that returns.                                        *)
(***************************************************************************)
EXTENDS Finalization

CONSTANTS ViewerEnabled,
          MaxCancelFailures    \* bound: how often cancelling fails

ASSUME SlamProcessAssumption == ViewerEnabled \in BOOLEAN /\ MaxCancelFailures \in Nat

VARIABLES
    pc,
    context,            \* "none", "valid" or "invalid"
    registration,       \* the shutdown notification is registered
    notifying,          \* it is running on the signal handling thread
    executor,           \* the executor object exists
    spinning,           \* the executor's own flag
    at,                 \* where each callback group, and the Viewer, is
    has_control,        \* StopControl was created
    logging,            \* the logging session was created
    node,               \* SlamNode was constructed and not yet released
    startup_failure,    \* main caught an exception
    failed,             \* finalize_process's own flag
    exit_code,
    cancel_failures     \* bound

life == <<pc, context, registration, notifying, executor, spinning, at, has_control,
          logging, node, startup_failure, failed, exit_code, cancel_failures>>
finalization == <<evaluation, position, held, artifacts, results, failed_steps>>
all_vars == <<vars, life>>

Groups == {"reception", "tracking", "stop_timer"}
Notifiers == Groups \cup {"viewer"}

ProcessInit ==
    /\ TeardownInit /\ Stop!Init /\ Adapter!Init
    /\ pc = "init"
    /\ context = "none"
    /\ registration = FALSE
    /\ notifying = FALSE
    /\ executor = FALSE
    /\ spinning = FALSE
    /\ at = [n \in Notifiers |-> "idle"]
    /\ has_control = FALSE
    /\ logging = FALSE
    /\ node = FALSE
    /\ startup_failure = FALSE
    /\ failed = FALSE
    /\ exit_code = None
    /\ cancel_failures = 0

\* Main reaches a label, or is caught by its handler before spin or after it.
To(label) == pc' = label /\ UNCHANGED startup_failure
Caught == pc' = "finalize" /\ startup_failure' = TRUE

-----------------------------------------------------------------------------
(* Main, up to the end of spin *)

rclcpp_init ==
    /\ pc = "init"
    /\ \/ context' = "valid" /\ has_control' = TRUE /\ To("register")
       \/ Caught /\ UNCHANGED <<context, has_control>>
    /\ UNCHANGED <<vars, registration, notifying, executor, spinning, at, logging, node, failed,
                   exit_code, cancel_failures>>

register ==
    /\ pc = "register"
    /\ \/ registration' = TRUE /\ To("registered")
       \/ Caught /\ UNCHANGED registration
    /\ UNCHANGED <<vars, context, notifying, executor, spinning, at, has_control, logging,
                   node, failed,
                   exit_code, cancel_failures>>

\* Registration does not replay an earlier shutdown.
registered ==
    /\ pc = "registered"
    /\ IF context = "invalid" THEN Stop!request_stop("ContextShutdown") ELSE UNCHANGED gate
    /\ To("construct")
    /\ UNCHANGED <<adapter, finalization, context, registration, notifying, executor, spinning,
                   at, has_control, logging, node, failed, exit_code, cancel_failures>>

\* The executor, then the node's constructor: the logging session, then the
\* backend, whose Viewer runs from here on.
construct ==
    /\ pc = "construct"
    /\ \/ context = "invalid" /\ To("finalize") /\ UNCHANGED <<executor, logging, at>>
       \/ context = "valid" /\ executor' = TRUE /\ logging' \in BOOLEAN /\ Caught
          /\ UNCHANGED at
       \/ /\ context = "valid" /\ executor' = TRUE /\ logging' = TRUE /\ To("wire")
          /\ at' = IF ViewerEnabled THEN [at EXCEPT !["viewer"] = "running"] ELSE at
    /\ UNCHANGED <<vars, context, registration, notifying, spinning, has_control, node, failed,
                   exit_code, cancel_failures>>

\* A backend shutdown that returns has joined the Viewer, which it finds
\* between two notifications; one that throws may leave it running.
ViewerJoins ==
    \/ at["viewer"] \in {"idle", "running"} /\ at' = [at EXCEPT !["viewer"] = "idle"]
    \/ shutdown_state' # "Returned" /\ UNCHANGED at

\* Frontends, coordinator and timers; an exception destroys the backend again.
wire ==
    /\ pc = "wire"
    /\ \/ To("check") /\ node' = TRUE /\ UNCHANGED <<adapter, at>>
       \/ Caught /\ Adapter!destroy /\ ViewerJoins /\ UNCHANGED node
    /\ UNCHANGED <<gate, finalization, context, registration, notifying, executor, spinning,
                   has_control, logging, failed, exit_code, cancel_failures>>

\* The node is added and the stop timer created, then the gate is looked at.
check ==
    /\ pc = "check"
    /\ \/ IF ~stop_requested /\ context = "valid" THEN To("enter") ELSE To("joined")
       \/ Caught
    /\ UNCHANGED <<vars, context, registration, notifying, executor, spinning, at, has_control,
                   logging, node, failed, exit_code, cancel_failures>>

\* spin() sets the flag: a cancel that came before is lost.
enter_spin ==
    /\ pc = "enter"
    /\ spinning' = TRUE
    /\ To("spin")
    /\ UNCHANGED <<vars, context, registration, notifying, executor, at, has_control, logging,
                   node, failed,
                   exit_code, cancel_failures>>

\* Returning, it joins the workers first.
spin_returns ==
    /\ pc = "spin"
    /\ ~spinning \/ context = "invalid"
    /\ \A g \in Groups : at[g] = "idle"
    /\ spinning' = FALSE
    /\ To("joined")
    /\ UNCHANGED <<vars, context, registration, notifying, executor, at, has_control, logging,
                   node, failed,
                   exit_code, cancel_failures>>

\* Mutant of spin_throws: the failure is handled like one of startup.
spin_throws_caught ==
    /\ pc = "spin"
    /\ Caught
    /\ UNCHANGED <<vars, context, registration, notifying, executor, spinning, at, has_control,
                   logging, node, failed, exit_code, cancel_failures>>

\* An executor failure does not establish that the workers have ended: _Exit.
spin_throws ==
    /\ pc = "spin"
    /\ To("terminated")
    /\ exit_code' = 1
    /\ UNCHANGED <<vars, context, registration, notifying, executor, spinning, at, has_control,
                   logging, node, failed, cancel_failures>>

cancel_stop_timer ==
    /\ pc = "joined"
    /\ To("finalize") \/ Caught
    /\ UNCHANGED <<vars, context, registration, notifying, executor, spinning, at, has_control,
                   logging, node, failed, exit_code, cancel_failures>>

-----------------------------------------------------------------------------
(* Stop sources *)

Unchanged == UNCHANGED <<adapter, finalization, pc, registration, executor, has_control,
                         logging, node, startup_failure, failed, exit_code>>
MoveTo(n, place) == at' = [at EXCEPT ![n] = place]

\* Signal handling: the context becomes invalid, then its callbacks run.
signal ==
    /\ context = "valid" /\ pc \notin {"exited", "terminated", "crashed"}
    /\ context' = "invalid"
    /\ notifying' = registration
    /\ UNCHANGED <<gate, spinning, at, cancel_failures>>
    /\ Unchanged

notify ==
    /\ notifying
    /\ notifying' = FALSE
    /\ Stop!request_stop("ContextShutdown")
    /\ UNCHANGED <<context, spinning, at, cancel_failures>>
    /\ Unchanged

dispatch(g) ==
    /\ pc = "spin" /\ spinning /\ context = "valid"
    /\ at[g] = "idle"
    /\ MoveTo(g, "running")
    /\ UNCHANGED <<gate, context, notifying, spinning, cancel_failures>>
    /\ Unchanged

\* Mutant of stop_timer_runs: there is no persistent look at the gate.
stop_timer_sleeps ==
    /\ at["stop_timer"] = "running"
    /\ MoveTo("stop_timer", "idle")
    /\ UNCHANGED gate

stop_timer_runs ==
    /\ at["stop_timer"] = "running"
    /\ IF stop_requested
       THEN Stop!request_stop("ViewerStop") /\ MoveTo("stop_timer", "notify")
       ELSE UNCHANGED gate /\ MoveTo("stop_timer", "idle")

\* The others return, or stop the process: the input timer asks for a stop
\* and cancels; a callback that throws is recorded, cancels and reports.
callback_runs(g) ==
    /\ at[g] = "running"
    /\ \/ UNCHANGED gate /\ MoveTo(g, "idle")
       \/ g = "reception" /\ ~stop_requested
          /\ Stop!request_stop("InputIdle") /\ MoveTo(g, "cancel")
       \/ Stop!record_failure("CallbackError", TRUE, FALSE) /\ MoveTo(g, "fail")

\* The Viewer window is closed, or its thread fails.
viewer_runs ==
    /\ at["viewer"] = "running"
    /\ \/ Stop!request_stop("ViewerStop")
       \/ Stop!record_failure("ViewerError", TRUE, FALSE)
    /\ MoveTo("viewer", "notify")

run(n) ==
    /\ \/ n = "stop_timer" /\ stop_timer_runs
       \/ n = "viewer" /\ viewer_runs
       \/ n \in {"reception", "tracking"} /\ callback_runs(n)
    /\ UNCHANGED <<context, notifying, spinning, cancel_failures>>
    /\ Unchanged

\* Where a notifier goes after cancelling: the input timer's callback goes on,
\* the callback guard reports, the others are done.
After(n) == CASE at[n] = "cancel" -> "running"
              [] at[n] = "fail"   -> "report"
              [] OTHER            -> "idle"

\* executor->cancel().  When it throws, the flag may have been cleared before.
cancel(n) ==
    /\ at[n] \in {"notify", "cancel", "fail"} /\ executor
    /\ \/ spinning' = FALSE /\ MoveTo(n, After(n)) /\ UNCHANGED <<gate, cancel_failures>>
       \/ /\ cancel_failures < MaxCancelFailures
          /\ cancel_failures' = cancel_failures + 1
          /\ spinning' \in {spinning, FALSE}
          /\ Stop!record_failure("CancelError", TRUE, FALSE)
          /\ MoveTo(n, "fallback")
    /\ UNCHANGED <<context, notifying>>
    /\ Unchanged

\* The fallback shuts the context down, notification included, or throws too.
fallback(n) ==
    /\ at[n] = "fallback"
    /\ \/ /\ context' = "invalid"
          /\ IF context = "valid" /\ registration THEN Stop!request_stop("ContextShutdown")
                                                  ELSE UNCHANGED gate
       \/ Stop!record_failure("ShutdownError", TRUE, FALSE) /\ UNCHANGED context
    /\ MoveTo(n, IF n \in {"reception", "tracking"} THEN "report" ELSE "idle")
    /\ UNCHANGED <<notifying, spinning, cancel_failures>>
    /\ Unchanged

\* A reporter that throws is a callback failure of its own.
report(n) ==
    /\ at[n] = "report"
    /\ UNCHANGED gate \/ Stop!record_failure("CallbackError", TRUE, FALSE)
    /\ MoveTo(n, "idle")
    /\ UNCHANGED <<context, notifying, spinning, cancel_failures>>
    /\ Unchanged

\* "Captured actions must remain valid until Viewer joins": calling a released
\* executor is undefined; the built program dereferences a null pointer.
cancel_released ==
    /\ at["viewer"] = "notify" /\ ~executor
    /\ pc' = "crashed"
    /\ UNCHANGED <<vars, context, registration, notifying, executor, spinning, at, has_control,
                   logging, node, startup_failure, failed, exit_code, cancel_failures>>

-----------------------------------------------------------------------------
(* finalize_process: every cleanup runs, whatever the others did *)

Record(reason, cleaning) ==
    /\ failed' = TRUE
    /\ IF has_control THEN Stop!record_failure(reason, TRUE, cleaning) ELSE UNCHANGED gate

NoFailureHere == UNCHANGED <<gate, failed>>

start_finalization ==
    /\ pc = "finalize"
    /\ \/ ~startup_failure /\ NoFailureHere
       \/ startup_failure /\ Record("CallbackError", FALSE)
    /\ To(IF node THEN "shutdown" ELSE "detach")
    /\ UNCHANGED <<adapter, finalization, context, registration, notifying, executor, spinning,
                   at, has_control, logging, node, exit_code, cancel_failures>>

\* finalize_node is SlamNode::shutdown.
finalize_node ==
    /\ pc = "shutdown"
    /\ \/ Next /\ To("shutdown")
          /\ IF upstream_shutdowns' = upstream_shutdowns THEN UNCHANGED at ELSE ViewerJoins
       \/ Done /\ To("detach") /\ UNCHANGED <<vars, at>>
    /\ UNCHANGED <<context, registration, notifying, executor, spinning, has_control, logging,
                   node, failed, exit_code, cancel_failures>>

\* The registration's handle is given up even if its removal fails.
detach_context ==
    /\ pc = "detach"
    /\ registration' = FALSE
    /\ NoFailureHere \/ (registration /\ Record("ShutdownError", TRUE))
    /\ To("executor")
    /\ UNCHANGED <<adapter, finalization, context, notifying, executor, spinning, at,
                   has_control, logging, node, exit_code, cancel_failures>>

release_executor ==
    /\ pc = "executor"
    /\ executor' = FALSE
    /\ To("node")
    /\ UNCHANGED <<vars, context, registration, notifying, spinning, at, has_control, logging,
                   node, failed, exit_code, cancel_failures>>

\* With the node go the parts it still holds.
release_node ==
    /\ pc = "node"
    /\ node' = FALSE
    /\ IF node THEN held' = {} ELSE UNCHANGED held
    /\ IF node /\ "backend" \in held
       THEN /\ Adapter!destroy
            /\ IF upstream_shutdowns' = upstream_shutdowns THEN UNCHANGED at ELSE ViewerJoins
       ELSE UNCHANGED <<adapter, at>>
    /\ To("context")
    /\ UNCHANGED <<gate, evaluation, position, artifacts, results, failed_steps, context,
                   registration, notifying, executor, spinning, has_control, logging, failed,
                   exit_code, cancel_failures>>

shutdown_context ==
    /\ pc = "context"
    /\ context' = IF context = "valid" THEN "invalid" ELSE context
    /\ NoFailureHere \/ (context = "valid" /\ Record("ShutdownError", TRUE))
    /\ To("logging")
    /\ UNCHANGED <<adapter, finalization, registration, notifying, executor, spinning, at,
                   has_control, logging, node, exit_code, cancel_failures>>

\* finish_logging and release_logging.
finish_logging ==
    /\ pc = "logging"
    /\ NoFailureHere \/ (logging /\ Record("ShutdownError", TRUE))
    /\ logging' = FALSE
    /\ To("report")
    /\ UNCHANGED <<adapter, finalization, context, registration, notifying, executor, spinning,
                   at, has_control, node, exit_code, cancel_failures>>

\* Mutant of Result: only what finalize_process caught itself.
ResultOfCleanup == IF failed THEN 1 ELSE 0

Result == IF failed \/ first_failure # None \/ cleanup_failed THEN 1 ELSE 0

\* write_process_evidence: a failing write is a failure of the process.
write_evidence ==
    /\ pc = "report"
    /\ \/ exit_code' = IF has_control \/ Result = 1 THEN Result ELSE 1
       \/ has_control /\ exit_code' = 1
    /\ To("exited")
    /\ UNCHANGED <<vars, context, registration, notifying, executor, spinning, at, has_control,
                   logging, node, failed, cancel_failures>>

-----------------------------------------------------------------------------
MainStep ==
    \/ rclcpp_init \/ register \/ registered \/ construct \/ wire \/ check \/ enter_spin
    \/ spin_returns \/ cancel_stop_timer
    \/ start_finalization \/ finalize_node \/ detach_context \/ release_executor
    \/ release_node \/ shutdown_context \/ finish_logging \/ write_evidence

NotifierStep(n) == run(n) \/ cancel(n) \/ fallback(n) \/ report(n)

ProcessRuns == pc \notin {"exited", "terminated", "crashed"}

ProcessNext ==
    \/ MainStep
    \/ spin_throws
    \/ /\ ProcessRuns
       /\ \/ \E n \in Notifiers : NotifierStep(n)
          \/ \E g \in Groups : dispatch(g)
          \/ notify \/ signal \/ cancel_released

ProcessSpec == ProcessInit /\ [][ProcessNext]_all_vars

(* Main runs, a backend shutdown ends, callbacks and notifications end, and *)
(* the executor gets round to the stop timer.  Nobody has to stop, and      *)
(* spin() does not have to fail.                                            *)
ProcessFairness ==
    /\ WF_all_vars(MainStep)
    /\ \A g \in Groups : WF_all_vars(ProcessRuns /\ NotifierStep(g))
    /\ \A n \in Notifiers : WF_all_vars(ProcessRuns /\ (cancel(n) \/ fallback(n) \/ report(n)))
    /\ WF_all_vars(ProcessRuns /\ dispatch("stop_timer"))

FairProcessSpec == ProcessSpec /\ ProcessFairness

-----------------------------------------------------------------------------
TypeOK ==
    /\ Stop!TypeOK
    /\ shutdown_state \in {"NotStarted", "Attempted", "Returned"}
    /\ position \in 0..(Len(Steps) + 1)
    /\ held \subseteq Components
    /\ artifacts \in [ExportSteps -> {"absent", "partial", "complete"}]
    /\ context \in {"none", "valid", "invalid"}
    /\ at \in [Notifiers -> {"idle", "running", "notify", "cancel", "fail", "fallback", "report"}]
    /\ {registration, notifying, executor, spinning, has_control, logging, node,
        startup_failure, failed} \subseteq BOOLEAN
    /\ exit_code \in {None, 0, 1}
    /\ cancel_failures \in 0..MaxCancelFailures

(* "Precondition: executor callbacks have finished": from the moment spin   *)
(* has returned, and in every cleanup, no executor callback is running, so  *)
(* none can touch what the teardown releases.                               *)
QuiescentTeardown ==
    pc \notin {"spin", "terminated", "crashed"} => \A g \in Groups : at[g] = "idle"

(* The exit code tells the truth.  Zero means that nothing failed anywhere, *)
(* and that an enabled evaluation is complete on disk; a failure that the   *)
(* process survived to report has left its cause in the stop gate.          *)
ExitCodeTruthful ==
    pc = "exited" =>
        /\ exit_code = 0 => /\ ~startup_failure /\ ~failed /\ failed_steps = {}
                            /\ first_failure = None /\ ~cleanup_failed
                            /\ Done /\ evaluation # "off" =>
                                  artifacts["evaluation_complete"] = "complete"
        /\ has_control /\ (startup_failure \/ failed \/ failed_steps # {}) => first_failure # None

(* "Never retry an upstream shutdown whose outcome is already known or      *)
(* uncertain": from the finalization step, the destructor and the unwinding *)
(* of a failed start together there is at most one call, and exactly one    *)
(* when a process that built a backend exits.                               *)
UpstreamShutDownOnce ==
    /\ upstream_shutdowns <= 1
    /\ pc = "exited" /\ position > 0 => upstream_shutdowns = 1
    /\ held = {} => upstream_shutdowns = 1

(* A stop, whoever asks for it and however it races with the start of spin, *)
(* a failing cancel or the registration, ends the process.                  *)
StopEndsProcess == stop_requested \/ context = "invalid" ~> ~ProcessRuns

(* "Captured actions must remain valid until Viewer joins, including        *)
(* startup unwind" (viewer_stop_notification.hpp): the Viewer's             *)
(* notification finds the executor it captured.  Main releases the executor *)
(* also after a backend shutdown that threw, which does not establish that  *)
(* the Viewer has joined.                                                   *)
CapturedActionsValid == at["viewer"] = "notify" => executor
=============================================================================
