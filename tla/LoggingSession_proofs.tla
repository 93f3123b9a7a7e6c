----------------------- MODULE LoggingSession_proofs ------------------------
(***************************************************************************)
(* The evidence the logging session leaves is true, for every queue        *)
(* capacity, any producers and stragglers and any failing writes.          *)
(***************************************************************************)
EXTENDS LoggingSession, SequenceTheorems, TLAPS

-----------------------------------------------------------------------------
(* The inductive invariant *)

Types ==
    /\ active \subseteq Producers /\ holding \subseteq active
    /\ queue \in Seq(Records) /\ writing \in Seq(Records)
    /\ buffer \in Seq(Records) /\ file \in Seq(Records) /\ posted \in Seq(Records)
    /\ Len(queue) <= QueueCapacity /\ Len(writing) <= 1
    /\ overrun_counter \in Nat /\ final_dropped \in Nat /\ failures \in Nat
    /\ pool \in {"running", "ending", "joined"}
    /\ at \in {"open", "count", "drain", "drained", "flushed", "over"}
    /\ write_failed \in BOOLEAN /\ finish_failure \in BOOLEAN /\ quiescent \in BOOLEAN
    /\ evidence \in [status : {"unavailable", "failed", "ok"}, dropped : Nat]

\* A sequence of records keeps the order, one comes before another, and the
\* number of a record is its place in the history h.
Chain(s) == \A i, j \in 1..Len(s) : i < j => Precedes(s[i], s[j])
Across(s, t) == \A i \in 1..Len(s), j \in 1..Len(t) : Precedes(s[i], t[j])
Known(s, h) == \A i \in 1..Len(s) : s[i].number \in 1..Len(h) /\ h[s[i].number] = s[i]

\* On their way from the queue through the writer and the buffer to the file
\* records do not overtake each other.
InOrder(f, b, w, q, h) ==
    /\ Known(f, h) /\ Known(b, h) /\ Known(w, h) /\ Known(q, h)
    /\ Chain(f) /\ Chain(b) /\ Chain(w) /\ Chain(q)
    /\ Across(f, b) /\ Across(f, w) /\ Across(f, q)
    /\ Across(b, w) /\ Across(b, q) /\ Across(w, q)

\* Without a noted failure every record is somewhere or counted as dropped.
Conserved(f, b, w, q, h, lost) ==
    Len(h) = lost + Len(q) + Len(w) + Len(b) + Len(f)
Everything ==
    ~write_failed /\ ~finish_failure =>
        Conserved(file, buffer, writing, queue, posted, overrun_counter)

FatalInFile ==
    ~write_failed =>
        \A i \in 1..Len(posted) : posted[i].fatal => \E j \in 1..Len(file) : file[j] = posted[i]

\* Where finish is, once every producer had ended before it.
Quiet ==
    quiescent =>
        /\ active = {} /\ at # "open"
        /\ at # "count" => final_dropped = overrun_counter
        /\ at \in {"drained", "flushed", "over"} => pool = "joined"
        /\ at = "flushed" => buffer = <<>>
        /\ evidence.status = "ok" =>
              /\ ~write_failed /\ ~finish_failure /\ buffer = <<>>
              /\ evidence.dropped = final_dropped

Ending ==
    /\ pool # "running" => holding = {}
    /\ pool = "joined" => queue = <<>> /\ writing = <<>>
    /\ at # "over" => ~finish_failure /\ evidence.status # "ok"

LogInv ==
    /\ Types
    /\ InOrder(file, buffer, writing, queue, posted)
    /\ Everything /\ FatalInFile /\ Quiet /\ Ending

-----------------------------------------------------------------------------
(* The order of records *)

(* Joining two sequences keeps what holds of both, and between them.        *)
LEMMA Joined ==
  ASSUME NEW s \in Seq(Records), NEW t \in Seq(Records)
  PROVE  /\ Len(s \o t) = Len(s) + Len(t) /\ s \o t \in Seq(Records)
         /\ Chain(s) /\ Chain(t) /\ Across(s, t) => Chain(s \o t)
         /\ \A u : Across(s, u) /\ Across(t, u) => Across(s \o t, u)
         /\ \A u : Across(u, s) /\ Across(u, t) => Across(u, s \o t)
         /\ \A h : Known(s, h) /\ Known(t, h) => Known(s \o t, h)
<1> DEFINE c == s \o t
<1>1. /\ c \in Seq(Records) /\ Len(c) = Len(s) + Len(t)
      /\ \A i \in 1..Len(s) : c[i] = s[i]
      /\ \A i \in 1..Len(t) : c[Len(s) + i] = t[i]
      /\ Len(s) \in Nat /\ Len(t) \in Nat
  OBVIOUS
<1> HIDE DEF c
<1>2. \A i \in 1..Len(c) : \/ i \in 1..Len(s) /\ c[i] = s[i]
                           \/ \E k \in 1..Len(t) : i = Len(s) + k /\ c[i] = t[k]
  <2> SUFFICES ASSUME NEW i \in 1..Len(c), i \notin 1..Len(s)
               PROVE  \E k \in 1..Len(t) : i = Len(s) + k /\ c[i] = t[k]
    BY <1>1
  <2>1. PICK k \in 1..Len(t) : k = i - Len(s)
    <3>1. i \in 1..(Len(s) + Len(t))
      BY <1>1
    <3>2. i - Len(s) \in 1..Len(t)
      BY <1>1, <3>1
    <3> QED
      BY <3>2
  <2>2. i = Len(s) + k
    BY <1>1, <2>1
  <2> QED
    BY <1>1, <2>2
<1>3. ASSUME Chain(s), Chain(t), Across(s, t)
      PROVE  Chain(c)
  <2> SUFFICES ASSUME NEW i \in 1..Len(c), NEW j \in 1..Len(c), i < j
               PROVE  Precedes(c[i], c[j])
    BY DEF Chain
  <2>1. CASE i \in 1..Len(s) /\ j \in 1..Len(s)
    BY <1>1, <1>3, <2>1 DEF Chain
  <2>2. CASE i \in 1..Len(s) /\ j \notin 1..Len(s)
    BY <1>1, <1>2, <1>3, <2>2 DEF Across
  <2>3. CASE i \notin 1..Len(s)
    <3>1. PICK k \in 1..Len(t) : i = Len(s) + k /\ c[i] = t[k]
      BY <1>2, <2>3
    <3>2. j \notin 1..Len(s)
      BY <1>1, <3>1
    <3>3. PICK m \in 1..Len(t) : j = Len(s) + m /\ c[j] = t[m]
      BY <1>2, <3>2
    <3>4. k < m
      BY <1>1, <3>1, <3>3
    <3> QED
      BY <1>3, <3>1, <3>3, <3>4 DEF Chain
  <2> QED
    BY <2>1, <2>2, <2>3
<1>4. ASSUME NEW u, Across(s, u), Across(t, u) PROVE Across(c, u)
  BY <1>2, <1>4, Zenon DEF Across
<1>5. ASSUME NEW u, Across(u, s), Across(u, t) PROVE Across(u, c)
  BY <1>2, <1>5, Zenon DEF Across
<1>6. ASSUME NEW h, Known(s, h), Known(t, h) PROVE Known(c, h)
  <2> SUFFICES ASSUME NEW i \in 1..Len(c)
               PROVE  c[i].number \in 1..Len(h) /\ h[c[i].number] = c[i]
    BY Zenon DEF Known
  <2>1. CASE i \in 1..Len(s) /\ c[i] = s[i]
    BY <1>6, <2>1, Zenon DEF Known
  <2>2. CASE \E k \in 1..Len(t) : i = Len(s) + k /\ c[i] = t[k]
    <3>1. PICK k \in 1..Len(t) : c[i] = t[k]
      BY <2>2, Zenon
    <3> QED
      BY <1>6, <3>1, Zenon DEF Known
  <2> QED
    BY <1>2, <2>1, <2>2, Zenon
<1> QED
  BY <1>1, <1>3, <1>4, <1>5, <1>6 DEF c

(* What holds of a sequence holds of its head and of its tail.              *)
LEMMA Shortened ==
  ASSUME NEW s \in Seq(Records), s # <<>>
  PROVE  /\ Chain(<<Head(s)>>)
         /\ Head(s) \in Records /\ Tail(s) \in Seq(Records) /\ Len(Tail(s)) + 1 = Len(s)
         /\ Chain(s) => Chain(Tail(s)) /\ Across(<<Head(s)>>, Tail(s))
         /\ \A u : Across(s, u) => Across(<<Head(s)>>, u) /\ Across(Tail(s), u)
         /\ \A u : Across(u, s) => Across(u, <<Head(s)>>) /\ Across(u, Tail(s))
         /\ \A h : Known(s, h) => Known(<<Head(s)>>, h) /\ Known(Tail(s), h)
<1> DEFINE t == Tail(s)
           w == <<Head(s)>>
<1>1. /\ t \in Seq(Records) /\ Len(s) \in Nat \ {0} /\ Len(t) \in Nat /\ Len(t) + 1 = Len(s)
      /\ \A i \in 1..Len(t) : i + 1 \in 1..Len(s) /\ t[i] = s[i + 1]
      /\ Len(w) = 1 /\ w[1] = s[1] /\ 1 \in 1..Len(s) /\ Head(s) \in Records
  OBVIOUS
<1> HIDE DEF t, w
<1>2. \A i \in 1..Len(w) : i = 1 /\ w[i] = s[1]
  BY <1>1
<1>7. Chain(w)
  BY <1>2 DEF Chain
<1>3. ASSUME Chain(s) PROVE Chain(t) /\ Across(w, t)
  <2>1. Chain(t)
    <3> SUFFICES ASSUME NEW i \in 1..Len(t), NEW j \in 1..Len(t), i < j
                 PROVE  Precedes(t[i], t[j])
      BY DEF Chain
    <3>1. i + 1 < j + 1
      OBVIOUS
    <3> QED
      BY <1>1, <1>3, <3>1 DEF Chain
  <2>2. Across(w, t)
    <3> SUFFICES ASSUME NEW j \in 1..Len(t) PROVE Precedes(s[1], t[j])
      BY <1>2 DEF Across
    <3>1. 1 < j + 1
      OBVIOUS
    <3> QED
      BY <1>1, <1>3, <3>1 DEF Chain
  <2> QED
    BY <2>1, <2>2
<1>4. ASSUME NEW u, Across(s, u) PROVE Across(w, u) /\ Across(t, u)
  BY <1>1, <1>2, <1>4, Zenon DEF Across
<1>5. ASSUME NEW u, Across(u, s) PROVE Across(u, w) /\ Across(u, t)
  BY <1>1, <1>2, <1>5, Zenon DEF Across
<1>6. ASSUME NEW h, Known(s, h) PROVE Known(w, h) /\ Known(t, h)
  BY <1>1, <1>2, <1>6, Zenon DEF Known
<1> QED
  BY <1>1, <1>3, <1>4, <1>5, <1>6, <1>7 DEF t, w

(* An empty sequence is in order with every other.                          *)
LEMMA Nothing ==
  /\ <<>> \in Seq(Records) /\ Len(<<>>) = 0 /\ Chain(<<>>)
  /\ \A u : Across(<<>>, u) /\ Across(u, <<>>) /\ Known(<<>>, u)
<1>1. Len(<<>>) = 0 /\ 1..0 = {}
  OBVIOUS
<1> QED
  BY <1>1 DEF Chain, Across, Known

-----------------------------------------------------------------------------
(* Types *)

LEMMA LogInit == Init => LogInv
<1> SUFFICES ASSUME Init PROVE LogInv
  OBVIOUS
<1>1. /\ active = Producers /\ holding = {}
      /\ queue = <<>> /\ writing = <<>> /\ buffer = <<>> /\ file = <<>> /\ posted = <<>>
      /\ overrun_counter = 0 /\ final_dropped = 0 /\ pool = "running" /\ at = "open"
      /\ write_failed = FALSE /\ failures = 0 /\ finish_failure = FALSE /\ quiescent = FALSE
      /\ evidence = [status |-> "unavailable", dropped |-> 0]
  BY DEF Init
<1>2. Types
  <2>1. evidence \in [status : {"unavailable", "failed", "ok"}, dropped : Nat]
    BY <1>1
  <2>2. <<>> \in Seq(Records) /\ Len(<<>>) <= QueueCapacity /\ Len(<<>>) <= 1
    BY Nothing, LoggingAssumption
  <2>3. 0 \in Nat
    OBVIOUS
  <2> QED
    BY <1>1, <2>1, <2>2, <2>3, Zenon DEF Types
<1>3. InOrder(file, buffer, writing, queue, posted)
  BY <1>1, Nothing, Zenon DEF InOrder
<1>4. Everything
  BY <1>1 DEF Everything, Conserved
<1>5. FatalInFile
  BY <1>1 DEF FatalInFile
<1>6. Quiet /\ Ending
  BY <1>1 DEF Quiet, Ending
<1> QED
  BY <1>2, <1>3, <1>4, <1>5, <1>6 DEF LogInv

(* What the actions do to the sequences, in the provers' terms.             *)
LEMMA AppendJoins ==
  ASSUME NEW s \in Seq(Records), NEW r \in Records
  PROVE  Append(s, r) = s \o <<r>> /\ Append(s, r) \in Seq(Records)
         /\ Len(Append(s, r)) = Len(s) + 1
OBVIOUS

LEMMA AppendKeeps ==
  ASSUME NEW s \in Seq(Records), NEW r \in Records
  PROVE  /\ Append(s, r)[Len(s) + 1] = r
         /\ \A i \in 1..Len(s) : Append(s, r)[i] = s[i]
OBVIOUS

(* A new record comes after all that are known.                             *)
LEMMA NewRecord ==
  ASSUME Types, NEW fatal \in BOOLEAN
  PROVE  LET r == Record(fatal)
             h == Append(posted, r)
         IN  /\ r \in Records /\ <<r>> \in Seq(Records) /\ Len(<<r>>) = 1
             /\ h \in Seq(Records) /\ Len(h) = Len(posted) + 1
             /\ Chain(<<r>>) /\ Known(<<r>>, h)
             /\ \A s \in Seq(Records) : Known(s, posted) => Known(s, h) /\ Across(s, <<r>>)
             /\ fatal => \A s \in Seq(Records) : Known(s, posted) => Across(<<r>>, s)
<1> DEFINE r == Record(fatal)
           k == Append(posted, r)
<1>1. /\ Len(posted) \in Nat /\ r \in Records /\ k \in Seq(Records) /\ Len(k) = Len(posted) + 1
      /\ \A i \in 1..Len(posted) : k[i] = posted[i]
      /\ k[Len(posted) + 1] = r
      /\ r.number = Len(posted) + 1 /\ r.fatal = fatal
  BY DEF Record, Records, Types
<1>2. Len(<<r>>) = 1 /\ <<r>>[1] = r /\ <<r>> \in Seq(Records)
  BY <1>1
<1> HIDE DEF k, r
<1>3. Chain(<<r>>)
  BY <1>2 DEF Chain
<1>4. Known(<<r>>, k)
  <2>1. r.number \in 1..Len(k) /\ k[r.number] = r
    BY <1>1
  <2> QED
    BY <1>2, <2>1 DEF Known
<1>5. ASSUME NEW s \in Seq(Records), Known(s, posted)
      PROVE  Known(s, k) /\ Across(s, <<r>>) /\ (fatal => Across(<<r>>, s))
  <2>1. ASSUME NEW i \in 1..Len(s)
        PROVE  /\ s[i].number \in 1..Len(k) /\ k[s[i].number] = s[i]
               /\ Precedes(s[i], r) /\ (fatal => Precedes(r, s[i]))
    <3>1. s[i].number \in 1..Len(posted) /\ posted[s[i].number] = s[i]
      BY <1>5 DEF Known
    <3>2. s[i].number \in 1..Len(k) /\ k[s[i].number] = s[i]
      BY <1>1, <3>1
    <3>3. s[i].number < r.number /\ s[i].number # r.number
      BY <1>1, <3>1
    <3> QED
      BY <1>1, <3>2, <3>3, Zenon DEF Precedes
  <2> QED
    BY <1>2, <2>1 DEF Known, Across
<1> QED
  BY <1>1, <1>2, <1>3, <1>4, <1>5 DEF k, r

LEMMA TypesStep == ASSUME Types, [Next]_vars PROVE Types'
<1> USE LoggingAssumption DEF Types
<1> USE DEF producers, backend, sink, session
<1>1. ASSUME NEW p \in Producers, get_logger(p) PROVE Types'
  BY <1>1 DEF get_logger
<1>2. ASSUME NEW p \in Producers, lock_pool(p) PROVE Types'
  BY <1>2 DEF lock_pool
<1>3. ASSUME NEW p \in Producers, post(p) PROVE Types'
  <2>1. PICK r, q : /\ r = Record(FALSE)
                    /\ q = IF Len(queue) = QueueCapacity THEN Tail(queue) ELSE queue
                    /\ queue' = Append(q, r) /\ posted' = Append(posted, r)
                    /\ overrun_counter' = overrun_counter
                                            + (IF Len(queue) = QueueCapacity THEN 1 ELSE 0)
    BY <1>3 DEF post
  <2>2. r \in Records /\ posted' \in Seq(Records)
    BY <2>1, NewRecord, Zenon
  <2>3. q \in Seq(Records) /\ Len(q) + 1 <= QueueCapacity
    <3>1. CASE Len(queue) = QueueCapacity
      <4>1. queue # <<>>
        BY <3>1, Nothing
      <4> QED
        BY <2>1, <3>1, <4>1, Shortened
    <3>2. CASE Len(queue) # QueueCapacity
      BY <2>1, <3>2, LenProperties
    <3> QED
      BY <3>1, <3>2
  <2>4. queue' \in Seq(Records) /\ Len(queue') <= QueueCapacity
    BY <2>1, <2>2, <2>3, AppendJoins
  <2>5. overrun_counter' \in Nat
    BY <2>1
  <2>6. pool' \in {"running", "ending", "joined"} /\ holding' \subseteq active'
        /\ UNCHANGED <<active, writing, buffer, file, write_failed, failures, session>>
    BY <1>3 DEF post, Released
  <2> QED
    BY <2>2, <2>4, <2>5, <2>6
<1>4. ASSUME NEW p \in Producers, log_synchronously(p) PROVE Types'
  <2>1. PICK r : /\ r = Record(TRUE) /\ posted' = Append(posted, r)
                 /\ \/ file' = file \o Append(buffer, r) /\ buffer' = <<>>
                    \/ buffer' \in {buffer, Append(buffer, r)} /\ file' = file
    BY <1>4 DEF log_synchronously
  <2>2. r \in Records /\ posted' \in Seq(Records)
    BY <2>1, NewRecord, Zenon
  <2>3. file' \in Seq(Records) /\ buffer' \in Seq(Records)
    <3>1. Append(buffer, r) \in Seq(Records)
      BY <2>2, AppendJoins
    <3>2. file \o Append(buffer, r) \in Seq(Records)
      BY <3>1, Joined
    <3> QED
      BY <2>1, <3>1, <3>2, Nothing
  <2>4. write_failed' \in BOOLEAN /\ UNCHANGED <<producers, backend, session>>
    BY <1>4, Zenon DEF log_synchronously
  <2>5. failures' \in Nat
    <3>1. failures' = failures \/ failures' = failures + 1
      BY <1>4, Zenon DEF log_synchronously, FailsOnce
    <3> QED
      BY <3>1
  <2> QED
    BY <2>2, <2>3, <2>4, <2>5
<1>5. ASSUME NEW p \in Producers, ends(p) PROVE Types'
  BY <1>5 DEF ends
<1>6. CASE dequeue
  <2>1. /\ queue # <<>> /\ writing' = <<Head(queue)>> /\ queue' = Tail(queue)
        /\ UNCHANGED <<producers, overrun_counter, pool, sink, session, posted>>
    BY <1>6 DEF dequeue
  <2>2. Len(writing') = 1 /\ writing' \in Seq(Records)
    BY <2>1, Shortened
  <2>3. queue' \in Seq(Records) /\ Len(queue') <= QueueCapacity
    BY <2>1, Shortened, LenProperties
  <2> QED
    BY <2>1, <2>2, <2>3
<1>7. CASE write
  <2>1. /\ writing' = <<>> /\ buffer' \in {buffer, buffer \o writing} /\ write_failed' \in BOOLEAN
        /\ UNCHANGED <<producers, queue, overrun_counter, pool, file, session, posted>>
    BY <1>7, Zenon DEF write
  <2>3. failures' \in Nat
    BY <1>7 DEF write, FailsOnce
  <2>2. buffer' \in Seq(Records)
    BY <2>1, Joined
  <2> QED
    BY <2>1, <2>2, <2>3, Nothing
<1>8. CASE join_writer
  BY <1>8 DEF join_writer
<1>9. ASSUME NEW reports \in BOOLEAN, Flush(reports)
      PROVE  /\ file' \in Seq(Records) /\ buffer' \in Seq(Records) /\ write_failed' \in BOOLEAN
             /\ failures' \in Nat
  <2>1. /\ failures' = failures \/ failures' = failures + 1
        /\ write_failed' = write_failed \/ write_failed' = reports
    BY <1>9, Zenon DEF Flush, FailsOnce
  <2>2. file' \in Seq(Records) /\ buffer' \in Seq(Records)
    BY <1>9, Joined, Nothing DEF Flush
  <2>3. failures' \in Nat
    BY <2>1
  <2>4. write_failed' \in BOOLEAN
    BY <1>9, <2>1, Zenon
  <2> QED
    BY <2>2, <2>3, <2>4
<1>10. CASE flusher
  BY <1>9, <1>10 DEF flusher
<1>11. CASE reset_flusher
  BY <1>11 DEF reset_flusher
<1>12. CASE count_dropped
  BY <1>12 DEF count_dropped
<1>13. CASE reset_pool
  BY <1>13 DEF reset_pool
<1>14. CASE flush_sinks
  <2>1. /\ file' \in Seq(Records) /\ buffer' \in Seq(Records) /\ write_failed' \in BOOLEAN
        /\ failures' \in Nat
    BY <1>9, <1>14 DEF flush_sinks
  <2>2. /\ at' \in {"flushed", "over"} /\ finish_failure' \in BOOLEAN
        /\ UNCHANGED <<producers, backend, finished, final_dropped, quiescent, posted>>
    BY <1>14 DEF flush_sinks
  <2>3. evidence' = evidence \/ evidence' = [status |-> "failed", dropped |-> final_dropped]
    BY <1>14 DEF flush_sinks
  <2>4. evidence' \in [status : {"unavailable", "failed", "ok"}, dropped : Nat]
    BY <2>3
  <2> QED
    BY <2>1, <2>2, <2>4
<1>15. CASE check_failure
  BY <1>15 DEF check_failure
<1>16. CASE UNCHANGED vars
  BY <1>16 DEF vars
<1> QED
  BY <1>1, <1>2, <1>3, <1>4, <1>5, <1>6, <1>7, <1>8, <1>10, <1>11, <1>12, <1>13, <1>14, <1>15,
     <1>16, Zenon DEF Next, finish

-----------------------------------------------------------------------------
(* The order of records, step by step *)

InOrderNow == InOrder(file, buffer, writing, queue, posted)

(* The steps that move no record.                                           *)
LEMMA NothingMoves ==
  ASSUME InOrderNow, UNCHANGED <<file, buffer, writing, queue, posted>>
  PROVE  InOrderNow'
BY Zenon DEF InOrderNow, InOrder, Known, Chain, Across

LEMMA PostOrder ==
  ASSUME Types, InOrderNow, NEW p, post(p)
  PROVE  InOrderNow'
<1>1. PICK r, q : /\ r = Record(FALSE)
                  /\ q = IF Len(queue) = QueueCapacity THEN Tail(queue) ELSE queue
                  /\ queue' = Append(q, r) /\ posted' = Append(posted, r)
                  /\ UNCHANGED <<file, buffer, writing>>
  BY DEF post, sink
<1>2. /\ r \in Records /\ <<r>> \in Seq(Records)
      /\ Chain(<<r>>) /\ Known(<<r>>, posted')
      /\ \A s \in Seq(Records) : Known(s, posted) => Known(s, posted') /\ Across(s, <<r>>)
  BY <1>1, NewRecord, Zenon
<1>3. /\ file \in Seq(Records) /\ buffer \in Seq(Records)
      /\ writing \in Seq(Records) /\ queue \in Seq(Records)
  BY Zenon DEF Types
<1>4. /\ q \in Seq(Records) /\ Chain(q) /\ Known(q, posted)
      /\ Across(file, q) /\ Across(buffer, q) /\ Across(writing, q)
  <2>1. CASE q = queue
    BY <1>3, <2>1, Zenon DEF InOrderNow, InOrder
  <2>2. CASE queue # <<>> /\ q = Tail(queue)
    BY <1>3, <2>2, Shortened, Zenon DEF InOrderNow, InOrder
  <2>3. Len(queue) = QueueCapacity => queue # <<>>
    BY Nothing, LoggingAssumption
  <2> QED
    BY <1>1, <2>1, <2>2, <2>3
<1>5. queue' = q \o <<r>>
  BY <1>1, <1>2, <1>4, AppendJoins
<1>6. Chain(queue') /\ Known(queue', posted')
  BY <1>2, <1>4, <1>5, Joined, Zenon
<1>7. /\ Known(file, posted') /\ Known(buffer, posted') /\ Known(writing, posted')
      /\ Across(file, <<r>>) /\ Across(buffer, <<r>>) /\ Across(writing, <<r>>)
  BY <1>2, <1>3, Zenon DEF InOrderNow, InOrder
<1>8. Across(file, queue') /\ Across(buffer, queue') /\ Across(writing, queue')
  BY <1>2, <1>4, <1>5, <1>7, Joined, Zenon
<1>9. InOrder(file, buffer, writing, queue', posted')
  BY <1>6, <1>7, <1>8, Zenon DEF InOrderNow, InOrder
<1>10. InOrder(file', buffer', writing', queue', posted')
  BY <1>1, <1>9
<1> QED
  BY <1>10, Zenon DEF InOrderNow, InOrder, Known, Chain, Across

LEMMA SynchronousOrder ==
  ASSUME Types, InOrderNow, NEW p, log_synchronously(p)
  PROVE  InOrderNow'
<1>1. PICK r : /\ r = Record(TRUE) /\ posted' = Append(posted, r)
               /\ \/ file' = file \o Append(buffer, r) /\ buffer' = <<>>
                  \/ buffer' \in {buffer, Append(buffer, r)} /\ file' = file
               /\ UNCHANGED <<writing, queue>>
  BY DEF log_synchronously, backend
<1>2. /\ r \in Records /\ <<r>> \in Seq(Records)
      /\ Chain(<<r>>) /\ Known(<<r>>, posted')
      /\ \A s \in Seq(Records) :
            Known(s, posted) => Known(s, posted') /\ Across(s, <<r>>) /\ Across(<<r>>, s)
  BY <1>1, NewRecord, Zenon
<1>3. /\ file \in Seq(Records) /\ buffer \in Seq(Records)
      /\ writing \in Seq(Records) /\ queue \in Seq(Records)
  BY Zenon DEF Types
<1>4. /\ Known(file, posted') /\ Known(buffer, posted') /\ Known(writing, posted')
      /\ Known(queue, posted')
      /\ Across(file, <<r>>) /\ Across(buffer, <<r>>)
      /\ Across(<<r>>, writing) /\ Across(<<r>>, queue)
  BY <1>2, <1>3, Zenon DEF InOrderNow, InOrder
<1>5. PICK b : b = buffer \o <<r>>
  OBVIOUS
<1>6. b = Append(buffer, r) /\ b \in Seq(Records)
  BY <1>2, <1>3, <1>5, AppendJoins
<1>7. /\ Chain(b) /\ Known(b, posted')
      /\ Across(file, b) /\ Across(b, writing) /\ Across(b, queue)
  BY <1>2, <1>3, <1>4, <1>5, Joined, Zenon DEF InOrderNow, InOrder
<1>8. InOrder(file, b, writing, queue, posted')
  BY <1>4, <1>7, Zenon DEF InOrderNow, InOrder
<1>9. InOrder(file \o b, <<>>, writing, queue, posted')
  <2>1. /\ Chain(file \o b) /\ Known(file \o b, posted')
        /\ Across(file \o b, writing) /\ Across(file \o b, queue)
    BY <1>3, <1>6, <1>8, Joined, Zenon DEF InOrder
  <2> QED
    BY <1>8, <2>1, Nothing, Zenon DEF InOrder
<1>10. InOrder(file, buffer, writing, queue, posted')
  BY <1>4, Zenon DEF InOrderNow, InOrder
<1>11. InOrder(file', buffer', writing, queue, posted')
  BY <1>1, <1>6, <1>8, <1>9, <1>10
<1>12. InOrder(file', buffer', writing', queue', posted')
  BY <1>1, <1>11
<1> QED
  BY <1>12, Zenon DEF InOrderNow, InOrder, Known, Chain, Across

LEMMA DequeueOrder ==
  ASSUME Types, InOrderNow, dequeue
  PROVE  InOrderNow'
<1>1. /\ queue # <<>> /\ writing' = <<Head(queue)>> /\ queue' = Tail(queue)
      /\ UNCHANGED <<file, buffer, posted>>
  BY DEF dequeue, sink
<1>2. queue \in Seq(Records)
  BY Zenon DEF Types
<1>3. InOrder(file, buffer, writing', queue', posted)
  BY <1>1, <1>2, Shortened, Zenon DEF InOrderNow, InOrder
<1>4. InOrder(file', buffer', writing', queue', posted')
  BY <1>1, <1>3
<1> QED
  BY <1>4, Zenon DEF InOrderNow, InOrder, Known, Chain, Across

LEMMA WriteOrder ==
  ASSUME Types, InOrderNow, write
  PROVE  InOrderNow'
<1>1. /\ writing' = <<>> /\ buffer' \in {buffer, buffer \o writing}
      /\ UNCHANGED <<file, queue, posted>>
  BY Zenon DEF write
<1>2. buffer \in Seq(Records) /\ writing \in Seq(Records)
  BY Zenon DEF Types
<1>3. InOrder(file, buffer \o writing, <<>>, queue, posted)
  BY <1>2, Joined, Nothing, Zenon DEF InOrderNow, InOrder
<1>4. InOrder(file, buffer, <<>>, queue, posted)
  BY Nothing, Zenon DEF InOrderNow, InOrder
<1>5. InOrder(file, buffer', writing', queue, posted)
  BY <1>1, <1>3, <1>4
<1>6. InOrder(file', buffer', writing', queue', posted')
  BY <1>1, <1>5
<1> QED
  BY <1>6, Zenon DEF InOrderNow, InOrder, Known, Chain, Across

LEMMA FlushOrder ==
  ASSUME Types, InOrderNow, NEW reports, Flush(reports), UNCHANGED <<writing, queue, posted>>
  PROVE  InOrderNow'
<1>1. \/ file' = file \o buffer /\ buffer' = <<>>
      \/ file' = file /\ buffer' \in {buffer, <<>>}
  BY DEF Flush
<1>2. buffer \in Seq(Records) /\ file \in Seq(Records)
  BY Zenon DEF Types
<1>3. InOrder(file \o buffer, <<>>, writing, queue, posted)
  BY <1>2, Joined, Nothing, Zenon DEF InOrderNow, InOrder
<1>4. InOrder(file, <<>>, writing, queue, posted)
  BY Nothing, Zenon DEF InOrderNow, InOrder
<1>5. InOrder(file', buffer', writing, queue, posted)
  BY <1>1, <1>3, <1>4 DEF InOrderNow
<1>6. InOrder(file', buffer', writing', queue', posted')
  BY <1>5
<1> QED
  BY <1>6, Zenon DEF InOrderNow, InOrder, Known, Chain, Across

LEMMA OrderStep ==
  ASSUME Types, InOrderNow, [Next]_vars
  PROVE  InOrderNow'
<1> USE DEF producers, backend, sink, session
<1>1. ASSUME NEW p \in Producers, get_logger(p) \/ lock_pool(p) \/ ends(p)
      PROVE  UNCHANGED <<file, buffer, writing, queue, posted>>
  BY <1>1, Zenon DEF get_logger, lock_pool, ends
<1>2. ASSUME join_writer \/ reset_flusher \/ count_dropped \/ reset_pool \/ check_failure
      PROVE  UNCHANGED <<file, buffer, writing, queue, posted>>
  BY <1>2, Zenon DEF join_writer, reset_flusher, count_dropped, reset_pool, check_failure
<1>3. ASSUME UNCHANGED vars PROVE UNCHANGED <<file, buffer, writing, queue, posted>>
  BY <1>3 DEF vars
<1>4. ASSUME flusher \/ flush_sinks PROVE InOrderNow'
  <2>1. /\ \E reports : Flush(reports)
        /\ UNCHANGED <<writing, queue, posted>>
    BY <1>4, Zenon DEF flusher, flush_sinks
  <2> QED
    BY <2>1, FlushOrder, Zenon
<1> QED
  BY <1>1, <1>2, <1>3, <1>4, NothingMoves, PostOrder, SynchronousOrder, DequeueOrder, WriteOrder,
     Zenon DEF Next, finish

-----------------------------------------------------------------------------
(* No record is lost without a note *)

LEMMA SameCounts ==
  ASSUME Everything,
         UNCHANGED <<file, buffer, writing, queue, posted, overrun_counter>>,
         ~write_failed' /\ ~finish_failure' => ~write_failed /\ ~finish_failure
  PROVE  Everything'
BY Zenon DEF Everything, Conserved

LEMMA Lengths ==
  ASSUME Types
  PROVE  /\ Len(queue) \in Nat /\ Len(writing) \in Nat /\ Len(buffer) \in Nat
         /\ Len(file) \in Nat /\ Len(posted) \in Nat /\ overrun_counter \in Nat
BY DEF Types

LEMMA PostCounts ==
  ASSUME Types, Everything, NEW p, post(p)
  PROVE  Everything'
<1>1. PICK r, q : /\ r = Record(FALSE)
                  /\ q = IF Len(queue) = QueueCapacity THEN Tail(queue) ELSE queue
                  /\ queue' = Append(q, r) /\ posted' = Append(posted, r)
                  /\ overrun_counter' = overrun_counter
                                          + (IF Len(queue) = QueueCapacity THEN 1 ELSE 0)
  BY DEF post
<1>2. UNCHANGED <<file, buffer, writing, write_failed, finish_failure>>
  BY DEF post, sink, session
<1>3. r \in Records /\ Len(posted') = Len(posted) + 1
  BY <1>1, NewRecord, Zenon
<1>4. /\ q \in Seq(Records) /\ Len(q) \in Nat /\ overrun_counter' \in Nat
      /\ overrun_counter' + Len(q) = overrun_counter + Len(queue)
  <2>1. queue \in Seq(Records)
    BY Zenon DEF Types
  <2>2. CASE Len(queue) = QueueCapacity
    <3>1. queue # <<>>
      BY <2>2, Nothing, LoggingAssumption
    <3>2. q \in Seq(Records) /\ Len(q) + 1 = Len(queue)
      BY <1>1, <2>1, <2>2, <3>1, Shortened
    <3>3. overrun_counter' = overrun_counter + 1
      BY <1>1, <2>2
    <3>4. overrun_counter \in Nat /\ Len(queue) \in Nat /\ Len(q) \in Nat
      BY <3>2, Lengths, LenProperties
    <3> QED
      BY <3>2, <3>3, <3>4
  <2>3. CASE Len(queue) # QueueCapacity
    BY <1>1, <2>1, <2>3, Lengths
  <2> QED
    BY <2>2, <2>3
<1>5. Len(queue') = Len(q) + 1
  BY <1>1, <1>3, <1>4, AppendJoins
<1> SUFFICES ASSUME ~write_failed', ~finish_failure' PROVE Everything'
  BY Zenon DEF Everything
<1>6. Conserved(file, buffer, writing, queue, posted, overrun_counter)
  BY <1>2, Zenon DEF Everything
<1>7. Conserved(file, buffer, writing, queue', posted', overrun_counter')
  <2>1. PICK h, o, n, w, b, f :
           /\ h = Len(posted) /\ o = overrun_counter /\ n = Len(queue)
           /\ w = Len(writing) /\ b = Len(buffer) /\ f = Len(file)
    OBVIOUS
  <2>2. PICK k, l : k = Len(q) /\ l = overrun_counter'
    OBVIOUS
  <2>3. /\ h \in Nat /\ o \in Nat /\ n \in Nat /\ w \in Nat /\ b \in Nat /\ f \in Nat
        /\ k \in Nat /\ l \in Nat
    BY <1>4, <2>1, <2>2, Lengths
  <2>4. h = o + n + w + b + f /\ l + k = o + n
    BY <1>4, <1>6, <2>1, <2>2 DEF Conserved
  <2>5. h + 1 = l + (k + 1) + w + b + f
    BY <2>3, <2>4
  <2> QED
    BY <1>3, <1>5, <2>1, <2>2, <2>5 DEF Conserved
<1> QED
  BY <1>2, <1>7 DEF Everything, Conserved

LEMMA SynchronousCounts ==
  ASSUME Types, Everything, NEW p, log_synchronously(p)
  PROVE  Everything'
<1> SUFFICES ASSUME ~write_failed', ~finish_failure' PROVE Everything'
  BY Zenon DEF Everything
<1>1. PICK r : /\ r = Record(TRUE) /\ posted' = Append(posted, r)
               /\ file' = file \o Append(buffer, r) /\ buffer' = <<>>
               /\ UNCHANGED <<write_failed, writing, queue, overrun_counter, finish_failure>>
  BY DEF log_synchronously, backend, session
<1>2. r \in Records /\ Len(posted') = Len(posted) + 1
  BY <1>1, NewRecord, Zenon
<1>3. buffer \in Seq(Records) /\ file \in Seq(Records)
  BY Zenon DEF Types
<1>4. Append(buffer, r) \in Seq(Records) /\ Len(Append(buffer, r)) = Len(buffer) + 1
  BY <1>2, <1>3, AppendJoins
<1>5. Len(file') = Len(file) + (Len(buffer) + 1)
  BY <1>1, <1>3, <1>4, Joined
<1>6. Conserved(file, buffer, writing, queue, posted, overrun_counter)
  BY <1>1, Zenon DEF Everything
<1>7. Conserved(file', <<>>, writing, queue, posted', overrun_counter)
  <2>1. PICK h, o, n, w, b, f :
           /\ h = Len(posted) /\ o = overrun_counter /\ n = Len(queue)
           /\ w = Len(writing) /\ b = Len(buffer) /\ f = Len(file)
    OBVIOUS
  <2>2. /\ h \in Nat /\ o \in Nat /\ n \in Nat /\ w \in Nat /\ b \in Nat /\ f \in Nat
        /\ h = o + n + w + b + f
    BY <1>6, <2>1, Lengths DEF Conserved
  <2>3. Len(posted') = h + 1 /\ Len(file') = f + (b + 1) /\ Len(<<>>) = 0
    BY <1>2, <1>5, <2>1, Nothing
  <2>4. h + 1 = o + n + w + 0 + (f + (b + 1))
    BY <2>2
  <2> QED
    BY <2>1, <2>3, <2>4 DEF Conserved
<1> QED
  BY <1>1, <1>7 DEF Everything, Conserved

LEMMA DequeueCounts ==
  ASSUME Types, Everything, dequeue
  PROVE  Everything'
<1>1. /\ writing = <<>> /\ queue # <<>> /\ queue \in Seq(Records)
      /\ writing' = <<Head(queue)>> /\ queue' = Tail(queue)
      /\ UNCHANGED <<file, buffer, posted, overrun_counter, write_failed, finish_failure>>
  BY Zenon DEF dequeue, sink, session, Types
<1>2. Len(queue') + 1 = Len(queue) /\ Len(writing') = 1 /\ Len(writing) = 0
  BY <1>1, Shortened
<1>3. Len(queue') \in Nat
  BY <1>1, Shortened, LenProperties
<1> SUFFICES ASSUME ~write_failed', ~finish_failure' PROVE Everything'
  BY Zenon DEF Everything
<1>4. Conserved(file, buffer, writing, queue, posted, overrun_counter)
  BY <1>1, Zenon DEF Everything
<1>5. Conserved(file, buffer, writing', queue', posted, overrun_counter)
  <2>1. PICK h, o, n, w, b, f :
           /\ h = Len(posted) /\ o = overrun_counter /\ n = Len(queue)
           /\ w = Len(writing) /\ b = Len(buffer) /\ f = Len(file)
    OBVIOUS
  <2>2. /\ h \in Nat /\ o \in Nat /\ n \in Nat /\ w \in Nat /\ b \in Nat /\ f \in Nat
        /\ h = o + n + w + b + f
    BY <1>4, <2>1, Lengths DEF Conserved
  <2>3. PICK k \in Nat : k = Len(queue')
    BY <1>3
  <2>4. k + 1 = n /\ w = 0
    BY <1>2, <2>1, <2>3
  <2>5. h = o + k + 1 + b + f
    BY <2>2, <2>4
  <2> QED
    BY <1>2, <2>1, <2>3, <2>5 DEF Conserved
<1> QED
  BY <1>1, <1>5 DEF Everything, Conserved

LEMMA WriteCounts ==
  ASSUME Types, Everything, write
  PROVE  Everything'
<1> SUFFICES ASSUME ~write_failed', ~finish_failure' PROVE Everything'
  BY Zenon DEF Everything
<1>1. /\ writing' = <<>> /\ buffer' = buffer \o writing
      /\ UNCHANGED <<file, queue, posted, overrun_counter, write_failed, finish_failure>>
      /\ buffer \in Seq(Records) /\ writing \in Seq(Records)
  BY Zenon DEF write, session, Types
<1>2. Len(buffer') = Len(buffer) + Len(writing)
  BY <1>1, Joined
<1>3. Conserved(file, buffer, writing, queue, posted, overrun_counter)
  BY <1>1, Zenon DEF Everything
<1>4. Conserved(file, buffer', <<>>, queue, posted, overrun_counter)
  <2>1. PICK h, o, n, w, b, f :
           /\ h = Len(posted) /\ o = overrun_counter /\ n = Len(queue)
           /\ w = Len(writing) /\ b = Len(buffer) /\ f = Len(file)
    OBVIOUS
  <2>2. /\ h \in Nat /\ o \in Nat /\ n \in Nat /\ w \in Nat /\ b \in Nat /\ f \in Nat
        /\ h = o + n + w + b + f
    BY <1>3, <2>1, Lengths DEF Conserved
  <2>3. Len(buffer') = b + w /\ Len(<<>>) = 0
    BY <1>2, <2>1, Nothing
  <2>4. h = o + n + 0 + (b + w) + f
    BY <2>2
  <2> QED
    BY <2>1, <2>3, <2>4 DEF Conserved
<1> QED
  BY <1>1, <1>4 DEF Everything, Conserved

(* A flush that ends well moves the buffer into the file.                   *)
LEMMA FlushCounts ==
  ASSUME Types, Everything, UNCHANGED <<writing, queue, posted, overrun_counter>>,
         ~write_failed' /\ ~finish_failure' =>
            /\ file' = file \o buffer /\ buffer' = <<>>
            /\ ~write_failed /\ ~finish_failure
  PROVE  Everything'
<1> SUFFICES ASSUME ~write_failed', ~finish_failure' PROVE Everything'
  BY Zenon DEF Everything
<1>1. file' = file \o buffer /\ buffer' = <<>>
  OBVIOUS
<1>2. buffer \in Seq(Records) /\ file \in Seq(Records)
  BY Zenon DEF Types
<1>3. Len(file') = Len(file) + Len(buffer)
  BY <1>1, <1>2, Joined
<1>4. Conserved(file, buffer, writing, queue, posted, overrun_counter)
  BY Zenon DEF Everything
<1>5. Conserved(file', <<>>, writing, queue, posted, overrun_counter)
  <2>1. PICK h, o, n, w, b, f :
           /\ h = Len(posted) /\ o = overrun_counter /\ n = Len(queue)
           /\ w = Len(writing) /\ b = Len(buffer) /\ f = Len(file)
    OBVIOUS
  <2>2. /\ h \in Nat /\ o \in Nat /\ n \in Nat /\ w \in Nat /\ b \in Nat /\ f \in Nat
        /\ h = o + n + w + b + f
    BY <1>4, <2>1, Lengths DEF Conserved
  <2>3. Len(file') = f + b /\ Len(<<>>) = 0
    BY <1>3, <2>1, Nothing
  <2>4. h = o + n + w + 0 + (f + b)
    BY <2>2
  <2> QED
    BY <2>1, <2>3, <2>4 DEF Conserved
<1> QED
  BY <1>1, <1>5 DEF Everything, Conserved

LEMMA CountsStep ==
  ASSUME Types, Ending, Everything, [Next]_vars
  PROVE  Everything'
<1> USE DEF producers, backend, sink, session
<1>1. ASSUME NEW p \in Producers, get_logger(p) \/ lock_pool(p) \/ ends(p)
      PROVE  Everything'
  <2>1. /\ UNCHANGED <<file, buffer, writing, queue, posted, overrun_counter, finish_failure>>
        /\ write_failed' = write_failed \/ write_failed' = TRUE
    BY <1>1, Zenon DEF get_logger, lock_pool, ends
  <2>2. ~write_failed' /\ ~finish_failure' => ~write_failed /\ ~finish_failure
    <3>1. finish_failure' = finish_failure
      BY <2>1, Zenon
    <3>2. write_failed => write_failed'
      BY <2>1, Zenon
    <3> QED
      BY <3>1, <3>2, Zenon
  <2> QED
    BY <2>1, <2>2, SameCounts, Zenon
<1>2. ASSUME join_writer \/ reset_flusher \/ count_dropped \/ reset_pool \/ check_failure
      PROVE  Everything'
  <2>1. /\ UNCHANGED <<file, buffer, writing, queue, posted, overrun_counter, write_failed>>
        /\ finish_failure' = finish_failure \/ check_failure
    BY <1>2, Zenon DEF join_writer, reset_flusher, count_dropped, reset_pool, check_failure
  <2>2. check_failure => ~finish_failure
    <3>1. check_failure => at # "over"
      BY DEF check_failure
    <3> QED
      BY <3>1, Zenon DEF Ending
  <2>3. ~finish_failure' => ~finish_failure
    BY <2>1, <2>2, Zenon
  <2> QED
    BY <2>1, <2>3, SameCounts, Zenon
<1>3. CASE UNCHANGED vars
  <2>1. UNCHANGED <<file, buffer, writing, queue, posted, overrun_counter, write_failed,
                    finish_failure>>
    BY <1>3 DEF vars
  <2> QED
    BY <2>1, SameCounts, Zenon
<1>4. CASE flusher
  <2>1. /\ UNCHANGED <<writing, queue, posted, overrun_counter, finish_failure>>
        /\ \/ file' = file \o buffer /\ buffer' = <<>> /\ write_failed' = write_failed
           \/ write_failed' = TRUE
    BY <1>4, Zenon DEF flusher, Flush
  <2>2. ASSUME ~write_failed', ~finish_failure'
        PROVE  /\ file' = file \o buffer /\ buffer' = <<>>
               /\ ~write_failed /\ ~finish_failure
    <3>1. finish_failure' = finish_failure
      BY <2>1, Zenon
    <3>2. file' = file \o buffer /\ buffer' = <<>> /\ write_failed' = write_failed
      BY <2>1, <2>2, Zenon
    <3> QED
      BY <2>2, <3>1, <3>2, Zenon
  <2> QED
    BY <2>1, <2>2, FlushCounts, Zenon
<1>5. CASE flush_sinks
  <2>1. UNCHANGED <<writing, queue, posted, overrun_counter>>
    BY <1>5, Zenon DEF flush_sinks
  <2>2. CASE FailsOnce
    <3>1. failures' # failures
      BY <2>2 DEF FailsOnce, Types
    <3>2. finish_failure' = TRUE
      BY <1>5, <3>1, Zenon DEF flush_sinks
    <3> QED
      BY <2>1, <3>2, FlushCounts, Zenon
  <2>3. CASE ~FailsOnce
    <3>1. file' = file \o buffer /\ buffer' = <<>> /\ failures' = failures
          /\ write_failed' = write_failed
      BY <1>5, <2>3, Zenon DEF flush_sinks, Flush
    <3>2. finish_failure' = finish_failure
      BY <1>5, <3>1, Zenon DEF flush_sinks
    <3> QED
      BY <2>1, <3>1, <3>2, FlushCounts, Zenon
  <2> QED
    BY <2>2, <2>3
<1> QED
  BY <1>1, <1>2, <1>3, <1>4, <1>5, PostCounts, SynchronousCounts, DequeueCounts, WriteCounts,
     Zenon DEF Next, finish

-----------------------------------------------------------------------------
(* Fatal records *)

(* Both parts of a joined sequence are still in it.                         *)
LEMMA StillThere ==
  ASSUME NEW s \in Seq(Records), NEW t \in Seq(Records)
  PROVE  /\ \A i \in 1..Len(s) : \E j \in 1..Len(s \o t) : (s \o t)[j] = s[i]
         /\ \A i \in 1..Len(t) : \E j \in 1..Len(s \o t) : (s \o t)[j] = t[i]
<1> DEFINE c == s \o t
<1>1. /\ Len(c) = Len(s) + Len(t) /\ Len(s) \in Nat /\ Len(t) \in Nat
      /\ \A i \in 1..Len(s) : c[i] = s[i]
      /\ \A i \in 1..Len(t) : c[Len(s) + i] = t[i]
  OBVIOUS
<1> HIDE DEF c
<1>2. ASSUME NEW i \in 1..Len(s) PROVE \E j \in 1..Len(c) : c[j] = s[i]
  <2>1. i \in 1..Len(c)
    BY <1>1
  <2> QED
    BY <1>1, <2>1
<1>3. ASSUME NEW i \in 1..Len(t) PROVE \E j \in 1..Len(c) : c[j] = t[i]
  <2>1. Len(s) + i \in 1..Len(c)
    BY <1>1
  <2> QED
    BY <1>1, <2>1
<1> QED
  BY <1>2, <1>3 DEF c

LEMMA FatalKept ==
  ASSUME Types, FatalInFile, posted' = posted, ~write_failed' => ~write_failed,
         file' = file \/ file' = file \o buffer
  PROVE  FatalInFile'
<1> SUFFICES ASSUME ~write_failed', NEW i \in 1..Len(posted), posted[i].fatal
             PROVE  \E j \in 1..Len(file') : file'[j] = posted[i]
  BY Zenon DEF FatalInFile
<1>1. PICK j \in 1..Len(file) : file[j] = posted[i]
  BY Zenon DEF FatalInFile
<1>2. file \in Seq(Records) /\ buffer \in Seq(Records)
  BY Zenon DEF Types
<1> QED
  BY <1>1, <1>2, StillThere

LEMMA PostFatal ==
  ASSUME Types, FatalInFile, NEW p, post(p)
  PROVE  FatalInFile'
<1>1. PICK r : r = Record(FALSE) /\ posted' = Append(posted, r)
  BY DEF post
<1>2. UNCHANGED <<file, write_failed>> /\ posted \in Seq(Records)
  BY DEF post, sink, Types
<1>3. r.fatal = FALSE
  BY <1>1 DEF Record
<1> SUFFICES ASSUME ~write_failed', NEW i \in 1..Len(posted'), posted'[i].fatal
             PROVE  \E j \in 1..Len(file') : file'[j] = posted'[i]
  BY Zenon DEF FatalInFile
<1>4. i \in 1..Len(posted) /\ posted'[i] = posted[i]
  <2>1. Len(posted) \in Nat /\ Len(posted') = Len(posted) + 1
        /\ posted'[Len(posted) + 1] = r /\ \A k \in 1..Len(posted) : posted'[k] = posted[k]
    <3>1. r \in Records
      BY <1>1, NewRecord, Zenon
    <3> QED
      BY <1>1, <1>2, <3>1, AppendJoins, AppendKeeps, LenProperties
  <2>2. i # Len(posted) + 1
    BY <1>3, <2>1
  <2>3. i \in 1..Len(posted)
    BY <2>1, <2>2
  <2> QED
    BY <2>1, <2>3
<1> QED
  BY <1>2, <1>4, Zenon DEF FatalInFile

LEMMA SynchronousFatal ==
  ASSUME Types, FatalInFile, NEW p, log_synchronously(p)
  PROVE  FatalInFile'
<1> SUFFICES ASSUME ~write_failed', NEW i \in 1..Len(posted'), posted'[i].fatal
             PROVE  \E j \in 1..Len(file') : file'[j] = posted'[i]
  BY Zenon DEF FatalInFile
<1>1. PICK r : /\ r = Record(TRUE) /\ posted' = Append(posted, r)
               /\ file' = file \o Append(buffer, r) /\ write_failed' = write_failed
  BY DEF log_synchronously
<1>2. file \in Seq(Records) /\ buffer \in Seq(Records) /\ posted \in Seq(Records)
  BY Zenon DEF Types
<1>3. r \in Records
  BY <1>1, NewRecord, Zenon
<1>4. PICK b : b = Append(buffer, r)
  OBVIOUS
<1>5. b \in Seq(Records) /\ Len(buffer) + 1 \in 1..Len(b) /\ b[Len(buffer) + 1] = r
  BY <1>2, <1>3, <1>4
<1>6. /\ \A k \in 1..Len(file) : \E j \in 1..Len(file') : file'[j] = file[k]
      /\ \A k \in 1..Len(b) : \E j \in 1..Len(file') : file'[j] = b[k]
  <2>1. file' = file \o b
    BY <1>1, <1>4
  <2> QED
    <3>1. /\ \A k \in 1..Len(file) : \E j \in 1..Len(file \o b) : (file \o b)[j] = file[k]
          /\ \A k \in 1..Len(b) : \E j \in 1..Len(file \o b) : (file \o b)[j] = b[k]
      <4>1. file \in Seq(Records) /\ b \in Seq(Records)
        BY <1>2, <1>5
      <4> QED
        BY <4>1, StillThere, Zenon
    <3> QED
      BY <2>1, <3>1, Zenon
<1>7. /\ Len(posted) \in Nat /\ Len(posted') = Len(posted) + 1
      /\ posted'[Len(posted) + 1] = r /\ \A k \in 1..Len(posted) : posted'[k] = posted[k]
  BY <1>1, <1>2, <1>3, AppendJoins, AppendKeeps, LenProperties
<1>8. CASE i = Len(posted) + 1
  BY <1>5, <1>6, <1>7, <1>8
<1>9. CASE i # Len(posted) + 1
  <2>1. i \in 1..Len(posted)
    BY <1>7, <1>9
  <2>2. posted'[i] = posted[i] /\ posted[i].fatal
    BY <1>7, <2>1
  <2>3. PICK k \in 1..Len(file) : file[k] = posted[i]
    BY <1>1, <2>1, <2>2, Zenon DEF FatalInFile
  <2> QED
    BY <1>6, <2>2, <2>3
<1> QED
  BY <1>8, <1>9

LEMMA FatalStep ==
  ASSUME Types, FatalInFile, Ending, [Next]_vars
  PROVE  FatalInFile'
<1> USE DEF producers, backend, sink, session
<1>1. ASSUME NEW p \in Producers, get_logger(p) \/ lock_pool(p) \/ ends(p)
      PROVE  FatalInFile'
  <2>1. /\ posted' = posted /\ file' = file
        /\ write_failed' = write_failed \/ write_failed' = TRUE
    BY <1>1, Zenon DEF get_logger, lock_pool, ends
  <2>2. ~write_failed' => ~write_failed
    BY <2>1, Zenon
  <2> QED
    BY <2>1, <2>2, FatalKept, Zenon
<1>2. ASSUME \/ dequeue \/ join_writer
             \/ reset_flusher \/ count_dropped \/ reset_pool \/ check_failure
      PROVE  FatalInFile'
  <2>1. posted' = posted /\ file' = file /\ write_failed' = write_failed
    BY <1>2, Zenon DEF dequeue, join_writer, reset_flusher, count_dropped, reset_pool,
                       check_failure
  <2>2. ~write_failed' => ~write_failed
    BY <2>1, Zenon
  <2> QED
    BY <2>1, <2>2, FatalKept, Zenon
<1>3. CASE UNCHANGED vars
  <2>1. posted' = posted /\ file' = file /\ write_failed' = write_failed
    BY <1>3 DEF vars
  <2>2. ~write_failed' => ~write_failed
    BY <2>1, Zenon
  <2> QED
    BY <2>1, <2>2, FatalKept, Zenon
<1>4. CASE write
  <2>1. /\ posted' = posted /\ file' = file
        /\ write_failed' = write_failed \/ write_failed' = TRUE
    BY <1>4, Zenon DEF write
  <2>2. ~write_failed' => ~write_failed
    BY <2>1, Zenon
  <2> QED
    BY <2>1, <2>2, FatalKept, Zenon
<1>5. CASE flusher \/ flush_sinks
  <2>1. /\ posted' = posted /\ (file' = file \/ file' = file \o buffer)
        /\ write_failed' = write_failed \/ write_failed' = TRUE
    BY <1>5, Zenon DEF flusher, flush_sinks, Flush
  <2>2. ~write_failed' => ~write_failed
    BY <2>1, Zenon
  <2> QED
    BY <2>1, <2>2, FatalKept, Zenon
<1> QED
  BY <1>1, <1>2, <1>3, <1>4, <1>5, PostFatal, SynchronousFatal, Zenon DEF Next, finish

-----------------------------------------------------------------------------
(* The end of the session *)

LEMMA EndingStep ==
  ASSUME Types, Ending, [Next]_vars
  PROVE  Ending'
<1> USE DEF producers, backend, sink, session
<1>1. ASSUME NEW p \in Producers, get_logger(p) PROVE Ending'
  BY <1>1, Zenon DEF get_logger, Ending
<1>2. ASSUME NEW p \in Producers, lock_pool(p) PROVE Ending'
  <2>1. /\ UNCHANGED <<pool, queue, writing, at, finish_failure, evidence>>
        /\ pool # "running" => holding' = holding
    BY <1>2, Zenon DEF lock_pool
  <2> QED
    BY <2>1, Zenon DEF Ending
<1>3. ASSUME NEW p \in Producers, post(p) PROVE Ending'
  <2>1. /\ p \in holding /\ holding' = holding \ {p}
        /\ pool' = IF holding = {p} /\ at \notin Owned THEN "ending" ELSE pool
        /\ UNCHANGED <<at, finish_failure, evidence>>
    BY <1>3, Zenon DEF post, Released
  <2>2. pool = "running"
    BY <2>1 DEF Ending
  <2>3. pool' # "running" => holding' = {}
    BY <2>1, <2>2
  <2>4. pool' # "joined"
    BY <2>1, <2>2
  <2> QED
    BY <2>1, <2>3, <2>4, Zenon DEF Ending
<1>4. ASSUME NEW p \in Producers, log_synchronously(p) \/ ends(p) PROVE Ending'
  <2>1. UNCHANGED <<holding, pool, queue, writing, at, finish_failure, evidence>>
    BY <1>4, Zenon DEF log_synchronously, ends
  <2> QED
    BY <2>1, Zenon DEF Ending
<1>5. CASE dequeue
  <2>1. pool \in {"running", "ending"} /\ UNCHANGED <<holding, pool, at, finish_failure, evidence>>
    BY <1>5, Zenon DEF dequeue
  <2> QED
    BY <2>1 DEF Ending
<1>6. CASE write
  <2>1. /\ writing' = <<>>
        /\ UNCHANGED <<holding, pool, queue, at, finish_failure, evidence>>
    BY <1>6, Zenon DEF write
  <2> QED
    BY <2>1, Zenon DEF Ending
<1>7. CASE join_writer
  <2>1. /\ pool = "ending" /\ queue = <<>> /\ writing = <<>>
        /\ UNCHANGED <<holding, queue, writing, at, finish_failure, evidence>>
    BY <1>7, Zenon DEF join_writer
  <2>2. holding = {}
    BY <2>1 DEF Ending
  <2> QED
    BY <2>1, <2>2, Zenon DEF Ending
<1>8. CASE flusher
  <2>1. UNCHANGED <<holding, pool, queue, writing, at, finish_failure, evidence>>
    BY <1>8, Zenon DEF flusher
  <2> QED
    BY <2>1, Zenon DEF Ending
<1>9. CASE reset_flusher
  <2>1. /\ at = "open" /\ at' = "count" /\ evidence' = [evidence EXCEPT !.status = "failed"]
        /\ UNCHANGED <<holding, pool, queue, writing, finish_failure>>
    BY <1>9, Zenon DEF reset_flusher
  <2>2. evidence'.status = "failed"
    BY <2>1 DEF Types
  <2> QED
    BY <2>1, <2>2 DEF Ending
<1>10. CASE count_dropped
  <2>1. /\ at = "count" /\ at' = "drain"
        /\ UNCHANGED <<holding, pool, queue, writing, finish_failure, evidence>>
    BY <1>10, Zenon DEF count_dropped
  <2> QED
    BY <2>1 DEF Ending
<1>11. CASE reset_pool
  <2>1. /\ at = "drain" /\ at' \in {"drain", "drained"}
        /\ UNCHANGED <<holding, queue, writing, finish_failure, evidence>>
        /\ pool' = pool \/ (holding = {} /\ pool' = "ending")
    BY <1>11 DEF reset_pool
  <2> QED
    BY <2>1 DEF Ending
<1>12. CASE flush_sinks
  <2>1. /\ at = "drained"
        /\ UNCHANGED <<holding, pool, queue, writing>>
        /\ at' = "over" \/ UNCHANGED <<finish_failure, evidence>>
    BY <1>12, Zenon DEF flush_sinks
  <2> QED
    BY <2>1 DEF Ending
<1>13. CASE check_failure
  <2>1. at' = "over" /\ UNCHANGED <<holding, pool, queue, writing>>
    BY <1>13, Zenon DEF check_failure
  <2> QED
    BY <2>1, Zenon DEF Ending
<1>14. CASE UNCHANGED vars
  BY <1>14, Zenon DEF vars, Ending
<1> QED
  BY <1>1, <1>2, <1>3, <1>4, <1>5, <1>6, <1>7, <1>8, <1>9, <1>10, <1>11, <1>12, <1>13, <1>14,
     Zenon DEF Next, finish

LEMMA QuietStep ==
  ASSUME Types, Ending, Quiet, [Next]_vars
  PROVE  Quiet'
<1> USE DEF producers, backend, sink, session
<1> SUFFICES ASSUME quiescent'
             PROVE  /\ active' = {} /\ at' # "open"
                    /\ at' # "count" => final_dropped' = overrun_counter'
                    /\ at' \in {"drained", "flushed", "over"} => pool' = "joined"
                    /\ at' = "flushed" => buffer' = <<>>
                    /\ evidence'.status = "ok" =>
                          /\ ~write_failed' /\ ~finish_failure' /\ buffer' = <<>>
                          /\ evidence'.dropped = final_dropped'
  BY Zenon DEF Quiet
\* After reset_flusher the session is as it was left, and no producer steps.
<1> DEFINE Before == quiescent /\ active = {} /\ holding = {} /\ at # "open"
<1>1. quiescent => Before
  <2>1. quiescent => active = {} /\ at # "open"
    BY Zenon DEF Quiet
  <2>2. holding \subseteq active
    BY Zenon DEF Types
  <2> QED
    BY <2>1, <2>2
<1>2. ASSUME NEW p \in Producers,
             get_logger(p) \/ lock_pool(p) \/ post(p) \/ log_synchronously(p) \/ ends(p)
      PROVE  FALSE
  <2>1. quiescent' = quiescent /\ (p \in active \/ p \in holding)
    BY <1>2, Zenon DEF get_logger, lock_pool, post, log_synchronously, ends
  <2> QED
    BY <1>1, <2>1
<1>3. CASE reset_flusher
  <2>1. /\ quiescent' = (active = {}) /\ active' = active /\ at' = "count"
        /\ evidence' = [evidence EXCEPT !.status = "failed"]
    BY <1>3, Zenon DEF reset_flusher
  <2>2. evidence'.status = "failed"
    BY <2>1 DEF Types
  <2> QED
    BY <2>1, <2>2
<1>4. CASE dequeue \/ join_writer
  <2>1. /\ UNCHANGED <<active, at, final_dropped, overrun_counter, buffer, evidence, write_failed,
                       finish_failure, quiescent>>
        /\ pool # "joined" \/ pool' = pool
    BY <1>4, Zenon DEF dequeue, join_writer
  <2>2. pool' = pool \/ pool' = "joined"
    BY <1>4, Zenon DEF dequeue, join_writer
  <2> QED
    BY <2>1, <2>2, Zenon DEF Quiet
<1>5. CASE write
  <2>1. /\ UNCHANGED <<active, at, final_dropped, overrun_counter, pool, evidence, quiescent>>
        /\ writing # <<>>
    BY <1>5, Zenon DEF write
  <2>2. pool # "joined"
    BY <2>1 DEF Ending
  <2>3. at \notin {"drained", "flushed", "over"}
    BY <2>1, <2>2, Zenon DEF Quiet
  <2>4. evidence.status # "ok"
    BY <2>3 DEF Ending
  <2> QED
    BY <2>1, <2>3, <2>4, Zenon DEF Quiet
<1>6. CASE flusher
  <2>1. quiescent' = quiescent /\ at = "open"
    BY <1>6, Zenon DEF flusher
  <2> QED
    BY <1>1, <2>1, Zenon
<1>7. CASE count_dropped
  <2>1. /\ at = "count" /\ at' = "drain" /\ final_dropped' = overrun_counter
        /\ UNCHANGED <<active, overrun_counter, evidence, quiescent>>
    BY <1>7, Zenon DEF count_dropped
  <2>2. evidence.status # "ok"
    BY <2>1 DEF Ending
  <2> QED
    BY <1>1, <2>1, <2>2
<1>8. CASE reset_pool
  <2>1. /\ at = "drain"
        /\ \/ holding # {}
           \/ at' = "drain"
           \/ at' = "drained" /\ pool = "joined" /\ pool' = pool
        /\ UNCHANGED <<active, overrun_counter, final_dropped, evidence, quiescent>>
    BY <1>8, Zenon DEF reset_pool
  <2>2. evidence.status # "ok" /\ at # "count" /\ Before
    BY <1>1, <2>1 DEF Ending
  <2>3. final_dropped = overrun_counter
    BY <2>2, Zenon DEF Quiet
  <2> QED
    BY <2>1, <2>2, <2>3
<1>9. CASE flush_sinks
  <2>1. /\ at = "drained"
        /\ UNCHANGED <<active, overrun_counter, final_dropped, pool, quiescent>>
    BY <1>9, Zenon DEF flush_sinks
  <2>2. /\ evidence.status # "ok" /\ Before
        /\ final_dropped = overrun_counter /\ pool = "joined"
    BY <1>1, <2>1 DEF Ending, Quiet
  <2>3. \/ at' = "over" /\ evidence' = [status |-> "failed", dropped |-> final_dropped]
        \/ at' = "flushed" /\ evidence' = evidence /\ failures' = failures
    BY <1>9, Zenon DEF flush_sinks
  <2>4. failures' = failures => buffer' = <<>>
    BY <1>9 DEF flush_sinks, Flush, FailsOnce, Types
  <2> QED
    BY <2>1, <2>2, <2>3, <2>4
<1>10. CASE check_failure
  <2>1. /\ at = "flushed" /\ at' = "over"
        /\ UNCHANGED <<active, overrun_counter, final_dropped, pool, quiescent, buffer>>
        /\ write_failed' = write_failed /\ finish_failure' = write_failed
    BY <1>10, Zenon DEF check_failure
  <2>2. /\ Before /\ final_dropped = overrun_counter /\ pool = "joined" /\ buffer = <<>>
    BY <1>1, <2>1 DEF Quiet
  <2>3. evidence' = [status |-> IF write_failed THEN "failed" ELSE "ok", dropped |-> final_dropped]
    BY <1>10, Zenon DEF check_failure
  <2>4. /\ evidence'.status = "ok" => ~write_failed
        /\ evidence'.dropped = final_dropped
    BY <2>3
  <2>5. evidence'.status = "ok" => ~write_failed' /\ ~finish_failure'
    BY <2>1, <2>4, Zenon
  <2> QED
    BY <2>1, <2>2, <2>4, <2>5, Zenon
<1>11. CASE UNCHANGED vars
  BY <1>11, Zenon DEF vars, Quiet
<1> QED
  BY <1>2, <1>3, <1>4, <1>5, <1>6, <1>7, <1>8, <1>9, <1>10, <1>11, Zenon DEF Next, finish

-----------------------------------------------------------------------------
(* The evidence *)

LEMMA LogInvStep == LogInv /\ [Next]_vars => LogInv'
<1> SUFFICES ASSUME LogInv, [Next]_vars PROVE LogInv'
  OBVIOUS
<1>1. Types /\ InOrderNow /\ Everything /\ FatalInFile /\ Quiet /\ Ending
  BY Zenon DEF LogInv, InOrderNow
<1>2. Types' /\ InOrderNow' /\ Everything' /\ FatalInFile' /\ Quiet' /\ Ending'
  BY <1>1, TypesStep, OrderStep, CountsStep, FatalStep, QuietStep, EndingStep
<1> QED
  BY <1>2, Zenon DEF LogInv, InOrderNow

(* When finish has reported "ok" and nobody logs any more, the pool has     *)
(* joined and the buffer is flushed: what is not dropped is in the file.    *)
LEMMA EvidenceMeans == LogInv => SessionEvidenceTruthful
<1> SUFFICES ASSUME LogInv PROVE SessionEvidenceTruthful
  OBVIOUS
<1>1. ASSUME evidence.status = "ok", quiescent
      PROVE  /\ Len(file) + evidence.dropped = Len(posted)
             /\ \A i \in 1..Len(file) :
                   file[i].number \in 1..Len(posted) /\ posted[file[i].number] = file[i]
             /\ \A i, j \in 1..Len(file) : i < j => Precedes(file[i], file[j])
             /\ pool = "joined" /\ ~write_failed
  <2>1. at = "over"
    BY <1>1 DEF LogInv, Ending
  <2>2. /\ final_dropped = overrun_counter /\ pool = "joined" /\ buffer = <<>>
        /\ ~write_failed /\ ~finish_failure /\ evidence.dropped = final_dropped
    BY <1>1, <2>1 DEF LogInv, Quiet
  <2>3. queue = <<>> /\ writing = <<>>
    BY <2>2 DEF LogInv, Ending
  <2>4. Conserved(file, buffer, writing, queue, posted, overrun_counter)
    BY <2>2, Zenon DEF LogInv, Everything
  <2>5. Len(posted) = overrun_counter + Len(file)
    <3>1. Len(buffer) = 0 /\ Len(writing) = 0 /\ Len(queue) = 0
      BY <2>2, <2>3, Nothing
    <3>2. overrun_counter \in Nat /\ Len(file) \in Nat
      BY Lengths DEF LogInv
    <3> QED
      BY <2>4, <3>1, <3>2 DEF Conserved
  <2>6. Len(file) + evidence.dropped = Len(posted)
    <3>1. overrun_counter \in Nat /\ Len(file) \in Nat
      BY Lengths DEF LogInv
    <3> QED
      BY <2>2, <2>5, <3>1
  <2>7. Known(file, posted) /\ Chain(file)
    BY Zenon DEF LogInv, InOrder
  <2> QED
    BY <2>2, <2>6, <2>7, Zenon DEF Known, Chain
<1>2. ~write_failed =>
          \A i \in 1..Len(posted) : posted[i].fatal => \E j \in 1..Len(file) : file[j] = posted[i]
  BY Zenon DEF LogInv, FatalInFile
<1> QED
  BY <1>1, <1>2, Zenon DEF SessionEvidenceTruthful

(* What STOP_PROCESS says of the log is true, for every queue capacity, any *)
(* producers and stragglers and any failing writes: a finish reported "ok"  *)
(* means a complete file but for the records reported dropped, each once    *)
(* and in order, and a fatal record is in the file when its call returns.   *)
THEOREM EvidenceIsTruthful == Spec => []SessionEvidenceTruthful
<1>1. Spec => []LogInv
  BY LogInit, LogInvStep, PTL DEF Spec
<1> QED
  BY <1>1, EvidenceMeans, PTL
=============================================================================
