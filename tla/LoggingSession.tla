--------------------------- MODULE LoggingSession ---------------------------
(***************************************************************************)
(* The logging session (src/utils/logging.cpp) from the first record to    *)
(* the evidence main prints about it: the asynchronous queue with its      *)
(* writer, the periodic flush, synchronous fatal records, and finish.      *)
(*                                                                         *)
(* spdlog is external: its thread pool keeps a bounded queue whose full    *)
(* state replaces the oldest record, its loggers hold the pool weakly, and *)
(* its destructor posts an end mark and joins the writer.  The two sinks   *)
(* are one file with a buffer in front of it; a failing console write is a *)
(* reported failure that keeps the file's record.                          *)
(*                                                                         *)
(* Producers end before finish, except those of Stragglers: threads of a   *)
(* backend whose shutdown failed.                                          *)
(***************************************************************************)
EXTENDS Naturals, Sequences

CONSTANTS Producers, Stragglers,
          QueueCapacity,
          MaxRecords,       \* bound: no call begins after as many records
          MaxFailures       \* bound: failing writes and flushes

ASSUME LoggingAssumption ==
    /\ Stragglers \subseteq Producers
    /\ QueueCapacity \in Nat \ {0} /\ MaxRecords \in Nat /\ MaxFailures \in Nat

VARIABLES
    active,          \* producers that have not ended
    loggers,         \* producers that obtained their logger
    holding,         \* producers inside log(), with the pool locked
    queue, overrun_counter,
    writing,         \* what the writer has dequeued: a sequence of at most one
    pool,            \* "running", "ending" (its destructor joins), "joined"
    buffer, file,    \* of the file sink
    write_failed,
    finished, final_dropped, finish_failure,
    at,              \* where finish is
    evidence,        \* LoggingEvidence of main
    quiescent,       \* history: no producer was active when finish began
    posted,          \* history: records in the order they were queued
    failures         \* history: failing writes and flushes

producers == <<active, loggers, holding>>
backend == <<queue, overrun_counter, writing, pool>>
sink == <<buffer, file, write_failed, failures>>
session == <<finished, final_dropped, finish_failure, at, evidence, quiescent>>
vars == <<producers, backend, sink, session, posted>>

\* A record is known by its place among those that were logged.
Records == [number : Nat \ {0}, fatal : BOOLEAN]

Init ==
    /\ active = Producers /\ loggers = {} /\ holding = {}
    /\ queue = <<>> /\ overrun_counter = 0 /\ writing = <<>> /\ pool = "running"
    /\ buffer = <<>> /\ file = <<>> /\ write_failed = FALSE /\ failures = 0
    /\ finished = FALSE /\ final_dropped = 0 /\ finish_failure = FALSE
    /\ at = "open" /\ quiescent = FALSE
    /\ evidence = [status |-> "unavailable", dropped |-> 0]
    /\ posted = <<>>

FailsOnce == failures < MaxFailures /\ failures' = failures + 1

-----------------------------------------------------------------------------
(* Producers.                                                               *)

\* "Logging session is finished" is the answer to a straggler.
get_logger(p) ==
    /\ p \in active \ loggers
    /\ ~finished
    /\ loggers' = loggers \cup {p}
    /\ UNCHANGED <<active, holding, backend, sink, session, posted>>

Record(fatal) == [number |-> Len(posted) + 1, fatal |-> fatal]

\* Where the session still owns the pool.
Owned == {"open", "count", "drain"}

\* Locking the pool: without one the error handler reports the record.
lock_pool(p) ==
    /\ p \in (active \cap loggers) \ holding
    /\ Len(posted) < MaxRecords
    /\ IF pool = "running" /\ (at \in Owned \/ holding # {})
       THEN holding' = holding \cup {p} /\ UNCHANGED write_failed
       ELSE write_failed' = TRUE /\ UNCHANGED holding
    /\ UNCHANGED <<active, loggers, backend, buffer, file, failures, session, posted>>

\* The last owner of a pool that finish has let go of ends it.
Released(p) == IF holding = {p} /\ at \notin Owned THEN "ending" ELSE pool

\* overrun_oldest: "Never block sensor producers on disk throughput".
post(p) ==
    /\ p \in holding
    /\ LET r == Record(FALSE)
           full == Len(queue) = QueueCapacity
       IN  /\ queue' = Append(IF full THEN Tail(queue) ELSE queue, r)
           /\ overrun_counter' = overrun_counter + (IF full THEN 1 ELSE 0)
           /\ posted' = Append(posted, r)
    /\ holding' = holding \ {p}
    /\ pool' = Released(p)
    /\ UNCHANGED <<active, loggers, writing, sink, session>>

\* A synchronous logger writes and flushes in the caller: the record passes
\* those that are queued, not those in the buffer.
log_synchronously(p) ==
    /\ p \in active \cap loggers /\ p \notin holding
    /\ Len(posted) < MaxRecords
    /\ LET r == Record(TRUE) IN
       /\ posted' = Append(posted, r)
       /\ \/ file' = file \o Append(buffer, r) /\ buffer' = <<>>
             /\ UNCHANGED <<write_failed, failures>>
          \/ /\ FailsOnce /\ write_failed' = TRUE
             /\ buffer' \in {buffer, Append(buffer, r)} /\ UNCHANGED file
    /\ UNCHANGED <<producers, backend, session>>

ends(p) ==
    /\ p \in active \ holding
    /\ active' = active \ {p}
    /\ UNCHANGED <<loggers, holding, backend, sink, session, posted>>

-----------------------------------------------------------------------------
(* The writer and the periodic flush.                                       *)

dequeue ==
    /\ pool \in {"running", "ending"} /\ writing = <<>> /\ queue # <<>>
    /\ writing' = <<Head(queue)>> /\ queue' = Tail(queue)
    /\ UNCHANGED <<producers, overrun_counter, pool, sink, session, posted>>

\* Mutant of write: an exception of a sink ends the writer.
write_or_end ==
    /\ writing # <<>> /\ pool # "dead"
    /\ writing' = <<>>
    /\ \/ buffer' = buffer \o writing /\ UNCHANGED <<pool, write_failed, failures>>
       \/ FailsOnce /\ write_failed' = TRUE /\ pool' = "dead" /\ UNCHANGED buffer
    /\ UNCHANGED <<producers, queue, overrun_counter, file, session, posted>>

\* Each sink handles its own error: only the file's loses the record.
write ==
    /\ writing # <<>>
    /\ writing' = <<>>
    /\ \/ buffer' = buffer \o writing /\ UNCHANGED <<write_failed, failures>>
       \/ /\ FailsOnce /\ write_failed' = TRUE
          /\ buffer' \in {buffer, buffer \o writing}
    /\ UNCHANGED <<producers, queue, overrun_counter, pool, file, session, posted>>

\* The writer ends at the mark behind the last record.
join_writer ==
    /\ pool = "ending" /\ queue = <<>> /\ writing = <<>>
    /\ pool' = "joined"
    /\ UNCHANGED <<producers, queue, overrun_counter, writing, sink, session, posted>>

\* A failing flush may lose what it had in the buffer.
Flush(reports) ==
    \/ file' = file \o buffer /\ buffer' = <<>> /\ UNCHANGED <<failures, write_failed>>
    \/ FailsOnce /\ buffer' \in {buffer, <<>>} /\ UNCHANGED file /\ write_failed' = reports

flusher ==
    /\ at = "open" /\ buffer # <<>>
    /\ Flush(TRUE)
    /\ UNCHANGED <<producers, backend, session, posted>>

-----------------------------------------------------------------------------
(* finish, called by main when the node is finalized.                       *)

reset_flusher ==
    /\ at = "open" /\ ~finished
    /\ active \subseteq Stragglers
    /\ finished' = TRUE /\ quiescent' = (active = {})
    /\ at' = "count" /\ evidence' = [evidence EXCEPT !.status = "failed"]
    /\ UNCHANGED <<producers, backend, sink, final_dropped, finish_failure, posted>>

count_dropped ==
    /\ at = "count"
    /\ final_dropped' = overrun_counter
    /\ at' = "drain"
    /\ UNCHANGED <<producers, backend, sink, finished, finish_failure, evidence, quiescent, posted>>

\* Mutant of reset_pool: the end mark is posted, and the writer not waited for.
reset_pool_without_join ==
    /\ at = "drain"
    /\ at' = "drained"
    /\ pool' = IF holding = {} THEN "ending" ELSE pool
    /\ UNCHANGED <<producers, queue, overrun_counter, writing, sink, finished, final_dropped,
                   finish_failure, evidence, quiescent, posted>>

\* pool.reset(): "Joins after draining", unless a straggler still owns the pool.
reset_pool ==
    /\ at = "drain"
    /\ \/ holding # {} /\ at' = "drained" /\ UNCHANGED pool
       \/ holding = {} /\ pool = "running" /\ pool' = "ending" /\ UNCHANGED at
       \/ pool = "joined" /\ at' = "drained" /\ UNCHANGED pool
    /\ UNCHANGED <<producers, queue, overrun_counter, writing, sink, finished, final_dropped,
                   finish_failure, evidence, quiescent, posted>>

flush_sinks ==
    /\ at = "drained"
    /\ Flush(write_failed)
    /\ IF failures' # failures
       THEN at' = "over" /\ finish_failure' = TRUE
            /\ evidence' = [status |-> "failed", dropped |-> final_dropped]
       ELSE at' = "flushed" /\ UNCHANGED <<finish_failure, evidence>>
    /\ UNCHANGED <<producers, backend, finished, final_dropped, quiescent, posted>>

check_failure ==
    /\ at = "flushed"
    /\ finish_failure' = write_failed
    /\ evidence' = [status |-> IF write_failed THEN "failed" ELSE "ok", dropped |-> final_dropped]
    /\ at' = "over"
    /\ UNCHANGED <<producers, backend, sink, finished, final_dropped, quiescent, posted>>

finish == reset_flusher \/ count_dropped \/ reset_pool \/ flush_sinks \/ check_failure

Next ==
    \/ \E p \in Producers :
          get_logger(p) \/ lock_pool(p) \/ post(p) \/ log_synchronously(p) \/ ends(p)
    \/ dequeue \/ write \/ join_writer \/ flusher
    \/ finish

Spec == Init /\ [][Next]_vars

\* The writer's and main's threads run; nothing is asked of the producers.
FairSpec == Spec /\ WF_vars(dequeue \/ write \/ join_writer) /\ WF_vars(finish)

-----------------------------------------------------------------------------
\* No record twice, and those that went through the queue in its order.
Precedes(r1, r2) ==
    r1.number # r2.number /\ (r1.fatal \/ r2.fatal \/ r1.number < r2.number)

(* What STOP_PROCESS says of the log is true: when the finish is reported   *)
(* "ok" and every producer had ended before, the file has every record that *)
(* was logged except as many as are reported dropped, each once, and the    *)
(* queued ones in the order they were queued; and a fatal record is in the  *)
(* file as soon as its call returns, unless a failure was noted.            *)
SessionEvidenceTruthful ==
    /\ evidence.status = "ok" /\ quiescent =>
          /\ Len(file) + evidence.dropped = Len(posted)
          /\ \A i \in 1..Len(file) :
                file[i].number \in 1..Len(posted) /\ posted[file[i].number] = file[i]
          /\ \A i, j \in 1..Len(file) : i < j => Precedes(file[i], file[j])
          /\ pool = "joined" /\ ~write_failed
    /\ ~write_failed =>
          \A i \in 1..Len(posted) : posted[i].fatal => \E j \in 1..Len(file) : file[j] = posted[i]

(* Main is not kept from its exit: a finish that has begun returns, with    *)
(* whatever result, though it waits for the writer to drain the queue and   *)
(* a straggler of a failed backend may sit in the middle of a log call.     *)
FinishReturns == finished ~> at = "over"
=============================================================================
