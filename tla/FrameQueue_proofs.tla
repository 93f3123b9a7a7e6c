------------------------- MODULE FrameQueue_proofs --------------------------
(***************************************************************************)
(* What the frame queue guarantees for every capacity, every timestamp and *)
(* both tracking modes: its types, its accounting and its capacity, the    *)
(* startup protocol and the order of the frames.                           *)
(***************************************************************************)
EXTENDS FrameQueue, SequenceTheorems, TLAPS

(* A startup pair takes the two front entries of the queue.                 *)
LEMMA TwoFromFront ==
  ASSUME NEW S, NEW s \in Seq(S), Len(s) >= 2
  PROVE  /\ s[1] \in S /\ s[2] \in S
         /\ Tail(Tail(s)) \in Seq(S)
         /\ Len(Tail(Tail(s))) = Len(s) - 2
         /\ \A i \in 1..(Len(s) - 2) : Tail(Tail(s))[i] = s[i + 2]
<1>1. Len(s) \in Nat /\ s # <<>>
  BY LenProperties, EmptySeq
<1>2. \A t \in Seq(S) : Len(t) >= 1 =>
        /\ Tail(t) \in Seq(S)
        /\ Len(Tail(t)) = Len(t) - 1
        /\ \A i \in 1..(Len(t) - 1) : Tail(t)[i] = t[i + 1]
  <2> SUFFICES ASSUME NEW t \in Seq(S), Len(t) >= 1
               PROVE  /\ Tail(t) \in Seq(S)
                      /\ Len(Tail(t)) = Len(t) - 1
                      /\ \A i \in 1..(Len(t) - 1) : Tail(t)[i] = t[i + 1]
    OBVIOUS
  <2>1. t # <<>>
    BY EmptySeq
  <2> QED
    BY <2>1, HeadTailProperties
<1>3. s[1] \in S /\ s[2] \in S
  BY <1>1, ElementOfSeq
<1> DEFINE u == Tail(s)
<1>4. /\ u \in Seq(S) /\ Len(u) = Len(s) - 1
      /\ \A i \in 1..(Len(s) - 1) : u[i] = s[i + 1]
  BY <1>1, <1>2
<1> HIDE DEF u
<1>5. /\ Tail(u) \in Seq(S) /\ Len(Tail(u)) = Len(s) - 2
      /\ \A i \in 1..(Len(s) - 2) : Tail(u)[i] = s[i + 2]
  <2>1. Len(u) >= 1
    BY <1>1, <1>4
  <2>2. /\ Tail(u) \in Seq(S) /\ Len(Tail(u)) = Len(u) - 1
        /\ \A i \in 1..(Len(u) - 1) : Tail(u)[i] = u[i + 1]
    BY <1>2, <1>4, <2>1
  <2> QED
    BY <1>1, <1>4, <2>2
<1> QED
  BY <1>3, <1>5 DEF u

(* The empty queue is well-typed.                                           *)
LEMMA TypesInit == Init => TypeOK
<1>1. Init => startup_complete \in BOOLEAN
  BY Zenon DEF Init
<1> QED
  BY <1>1 DEF Init, TypeOK, Optional

(* Every critical section keeps the queue's state well-typed: entries keep  *)
(* a positive enqueue sequence, and a reservation stays a work item.        *)
LEMMA TypesStep == TypeOK /\ [Next]_vars => TypeOK'
<1> SUFFICES ASSUME TypeOK, [Next]_vars PROVE TypeOK'
  OBVIOUS
<1> USE FrameQueueAssumption DEF TypeOK, Optional, counters, timestamps
<1>1. ASSUME NEW timestamp \in Times, discard_incoming(timestamp)
      PROVE  TypeOK'
  BY <1>1 DEF discard_incoming
<1>2. ASSUME NEW timestamp \in Times, admit(timestamp)
      PROVE  TypeOK'
  <2> DEFINE entry    == [timestamp |-> timestamp, enqueue_sequence |-> NextSequence]
             retained == IF Full THEN Tail(pending_frames) ELSE pending_frames
  <2>1. entry \in PendingFrame
    BY DEF PendingFrame, NextSequence
  <2>2. retained \in Seq(PendingFrame)
    BY <1>2, HeadTailProperties DEF admit
  <2>3. pending_frames' \in Seq(PendingFrame)
    BY <1>2, <2>1, <2>2, AppendProperties DEF admit
  <2>4. Len(retained) \in Nat /\ in_flight \in Nat /\ Evicted \in Nat
    BY <2>2, LenProperties DEF in_flight, Evicted
  <2>5. outstanding_frames_peak' \in Nat /\ overload_discarded_frames' \in Nat
    BY <1>2, <2>4 DEF admit
  <2> QED
    BY <1>2, <2>3, <2>5 DEF admit
<1>3. CASE reserve_tracking_work
  BY <1>3 DEF reserve_tracking_work, Reserve, TrackingWork, Stages
<1>4. CASE reserve_startup_pair
  <2>1. \A entry \in PendingFrame : Reserve(entry) \in TrackingWork
    BY DEF Reserve, TrackingWork, Stages
  <2>2. pending_frames' \in Seq(PendingFrame)
    <3>1. ASSUME Len(pending_frames) >= 2, pending_frames' = Tail(Tail(pending_frames))
          PROVE  pending_frames' \in Seq(PendingFrame)
      BY <3>1, TwoFromFront
    <3>2. ASSUME pending_frames # <<>>, pending_frames' = Tail(pending_frames)
          PROVE  pending_frames' \in Seq(PendingFrame)
      BY <3>2, HeadTailProperties
    <3> QED
      BY <1>4, <3>1, <3>2 DEF reserve_startup_pair
  <2>3. tracking_work' \in Optional(TrackingWork)
    BY <1>4, <2>1, TwoFromFront DEF reserve_startup_pair
  <2>4. startup_next_work' \in TrackingWork
    BY <1>4, <2>1, HeadTailProperties, TwoFromFront DEF reserve_startup_pair
  <2>5. UNCHANGED <<timestamps, startup_complete, counters, log>>
    BY <1>4 DEF reserve_startup_pair
  <2> QED
    BY <2>2, <2>3, <2>4, <2>5
<1>5. CASE discard_startup_first
  BY <1>5 DEF discard_startup_first
<1>6. ASSUME NEW batch \in Optional(Batches), make_ready(batch)
      PROVE  TypeOK'
  BY <1>6 DEF make_ready, Unsampled, startup, TrackingWork, Stages
<1>7. CASE begin_primary
  BY <1>7 DEF begin_primary, TrackingWork, Stages
<1>8. CASE begin_startup_next
  BY <1>8 DEF begin_startup_next, TrackingWork, Stages
<1>9. CASE complete_primary
  BY <1>9 DEF complete_primary, Complete, TrackingWork, PendingFrame
<1>10. CASE complete_startup_next
  BY <1>10 DEF complete_startup_next, Complete, TrackingWork, PendingFrame
<1>11. CASE UNCHANGED vars
  BY <1>11 DEF vars
<1> QED
  BY <1>1, <1>2, <1>3, <1>4, <1>5, <1>6, <1>7, <1>8, <1>9, <1>10, <1>11 DEF Next

(* The queue's state stays well-typed for every capacity, mode and batch.   *)
THEOREM TypeInvariant == Spec => []TypeOK
BY TypesInit, TypesStep, PTL DEF Spec

-----------------------------------------------------------------------------
(* A reservation stays one when its work advances: no record is None.       *)
LEMMA WorkIsSome ==
  /\ \A entry \in PendingFrame : Reserve(entry) \in TrackingWork
  /\ \A work \in TrackingWork, stage \in Stages : [work EXCEPT !.stage = stage] \in TrackingWork
  /\ \A work \in TrackingWork, stage \in Stages, batch \in Optional(Batches) :
        [work EXCEPT !.stage = stage, !.imu_batch = batch] \in TrackingWork
  /\ \A work \in TrackingWork : work # None
  /\ \A entry \in PendingFrame : Reserve(entry) # None
<1>1. \A entry \in PendingFrame : Reserve(entry) \in TrackingWork
  BY DEF Reserve, TrackingWork, Stages
<1>2. \A work \in TrackingWork, stage \in Stages : [work EXCEPT !.stage = stage] \in TrackingWork
  BY DEF TrackingWork
<1>3. \A work \in TrackingWork, stage \in Stages, batch \in Optional(Batches) :
        [work EXCEPT !.stage = stage, !.imu_batch = batch] \in TrackingWork
  BY DEF TrackingWork, Optional
<1> QED
  BY <1>1, <1>2, <1>3, FrameQueueAssumption

CountInv == AccountingValid /\ CapacityRespected

(* The two counting facts are inductive together with the types: admission  *)
(* is the only step that adds a frame, and it makes room first.             *)
LEMMA CountStep ==
  ASSUME TypeOK, TypeOK', CountInv, [Next]_vars
  PROVE  CountInv'
<1> USE DEF CountInv, AccountingValid, CapacityRespected, outstanding, counters
<1>t. /\ Len(pending_frames) \in Nat /\ in_flight \in Nat
      /\ enqueued_frames \in Nat /\ processed_frames \in Nat
      /\ startup_discarded_frames \in Nat /\ overload_discarded_frames \in Nat
      /\ outstanding_frames_peak \in Nat /\ Capacity \in Nat \ {0}
  <2>1. in_flight \in Nat
    BY DEF in_flight
  <2>2. pending_frames \in Seq(PendingFrame)
    BY DEF TypeOK
  <2>3. Len(pending_frames) \in Nat
    BY <2>2, LenProperties
  <2>4. Capacity \in Nat \ {0}
    BY FrameQueueAssumption
  <2> QED
    BY <2>1, <2>3, <2>4 DEF TypeOK
<1>w. /\ tracking_work # None => tracking_work \in TrackingWork
      /\ startup_next_work # None => startup_next_work \in TrackingWork
  BY DEF TypeOK, Optional
<1>tail. pending_frames # <<>> =>
            /\ Len(Tail(pending_frames)) = Len(pending_frames) - 1
            /\ Head(pending_frames) \in PendingFrame
  BY HeadTailProperties DEF TypeOK
<1>1. ASSUME NEW timestamp \in Times, discard_incoming(timestamp)
      PROVE  CountInv'
  BY <1>1 DEF discard_incoming, in_flight
<1>2. ASSUME NEW timestamp \in Times, admit(timestamp)
      PROVE  CountInv'
  <2> DEFINE entry    == [timestamp |-> timestamp, enqueue_sequence |-> NextSequence]
             retained == IF Full THEN Tail(pending_frames) ELSE pending_frames
  <2>1. Full <=> Len(pending_frames) + in_flight >= Capacity
    BY DEF Full
  <2>2. /\ retained \in Seq(PendingFrame)
        /\ Len(retained) = IF Full THEN Len(pending_frames) - 1 ELSE Len(pending_frames)
    BY <1>2, <1>tail, HeadTailProperties DEF admit, TypeOK
  <2>3. entry \in PendingFrame
    BY <1>t DEF PendingFrame, NextSequence
  <2> HIDE DEF retained, entry
  <2>4. Len(Append(retained, entry)) = Len(retained) + 1
    BY <2>2, <2>3, AppendProperties
  <2>5. /\ Len(pending_frames') = Len(retained) + 1
        /\ overload_discarded_frames' = overload_discarded_frames + (IF Full THEN 1 ELSE 0)
        /\ enqueued_frames' = enqueued_frames + 1
        /\ outstanding_frames_peak' = IF outstanding_frames_peak < Len(retained) + 1 + in_flight
                                      THEN Len(retained) + 1 + in_flight
                                      ELSE outstanding_frames_peak
        /\ UNCHANGED <<tracking_work, startup_next_work, processed_frames,
                       startup_discarded_frames>>
    BY <1>2, <2>4 DEF admit, Evicted, NextSequence, retained, entry
  <2>6. in_flight' = in_flight
    BY <2>5 DEF in_flight
  <2>7. Len(retained) \in Nat
    BY <2>2, LenProperties
  <2>8. AccountingValid'
    BY <1>t, <2>2, <2>5, <2>6, <2>7
  <2>9. CapacityRespected'
    BY <1>t, <2>1, <2>2, <2>5, <2>6, <2>7
  <2> QED
    BY <2>8, <2>9
<1>3. CASE reserve_tracking_work
  <2>1. in_flight' = in_flight + 1
    <3>1. tracking_work = None /\ tracking_work' # None
      BY <1>3, <1>tail, WorkIsSome DEF reserve_tracking_work
    <3> QED
      BY <1>3, <3>1 DEF reserve_tracking_work, in_flight
  <2>2. Len(pending_frames') = Len(pending_frames) - 1
    BY <1>3, <1>tail DEF reserve_tracking_work
  <2> QED
    BY <1>3, <1>t, <2>1, <2>2 DEF reserve_tracking_work
<1>4. CASE reserve_startup_pair
  <2>1. CASE tracking_work = None
    <3>1. /\ Len(pending_frames) >= 2 /\ pending_frames \in Seq(PendingFrame)
          /\ pending_frames' = Tail(Tail(pending_frames))
          /\ tracking_work' = Reserve(pending_frames[1])
          /\ startup_next_work' = Reserve(pending_frames[2])
      BY <1>4, <2>1 DEF reserve_startup_pair, TypeOK
    <3>2. /\ Len(pending_frames') = Len(pending_frames) - 2
          /\ pending_frames[1] \in PendingFrame /\ pending_frames[2] \in PendingFrame
      BY <3>1, TwoFromFront
    <3>3. in_flight' = in_flight + 2
      <4>1. tracking_work' # None /\ startup_next_work' # None
        BY <3>1, <3>2, WorkIsSome
      <4> QED
        BY <1>4, <2>1, <4>1 DEF reserve_startup_pair, in_flight
    <3> QED
      BY <1>4, <1>t, <3>2, <3>3 DEF reserve_startup_pair
  <2>2. CASE tracking_work # None
    <3>1. in_flight' = in_flight + 1
      <4>1. startup_next_work' # None
        BY <1>4, <2>2, <1>tail, WorkIsSome DEF reserve_startup_pair
      <4> QED
        BY <1>4, <2>2, <4>1 DEF reserve_startup_pair, in_flight
    <3>2. Len(pending_frames') = Len(pending_frames) - 1
      BY <1>4, <2>2, <1>tail DEF reserve_startup_pair
    <3> QED
      BY <1>4, <1>t, <3>1, <3>2 DEF reserve_startup_pair
  <2> QED
    BY <2>1, <2>2
<1>5. CASE discard_startup_first
  <2>1. in_flight' = in_flight - 1
    BY <1>5 DEF discard_startup_first, in_flight
  <2> QED
    BY <1>5, <1>t, <2>1 DEF discard_startup_first
<1>6. ASSUME NEW batch \in Optional(Batches), make_ready(batch)
      PROVE  CountInv'
  <2>1. tracking_work # None /\ tracking_work' # None
    BY <1>6, <1>w, WorkIsSome DEF make_ready, Unsampled, Stages, Optional
  <2>2. startup_next_work # None <=> startup_next_work' # None
    BY <1>6, <1>w, WorkIsSome DEF make_ready, Unsampled, Stages
  <2>3. in_flight' = in_flight
    BY <2>1, <2>2 DEF in_flight
  <2> QED
    BY <1>6, <1>t, <2>3 DEF make_ready
<1>7. CASE begin_primary
  <2>1. in_flight' = in_flight
    BY <1>7, <1>w, WorkIsSome DEF begin_primary, Stages, in_flight
  <2> QED
    BY <1>7, <1>t, <2>1 DEF begin_primary
<1>8. CASE begin_startup_next
  <2>1. in_flight' = in_flight
    BY <1>8, <1>w, WorkIsSome DEF begin_startup_next, Stages, in_flight
  <2> QED
    BY <1>8, <1>t, <2>1 DEF begin_startup_next
<1>9. CASE complete_primary
  <2>1. in_flight' = in_flight - 1
    BY <1>9 DEF complete_primary, Complete, in_flight
  <2> QED
    BY <1>9, <1>t, <2>1 DEF complete_primary, Complete
<1>10. CASE complete_startup_next
  <2>1. in_flight' = in_flight - 1
    BY <1>10 DEF complete_startup_next, Complete, in_flight
  <2> QED
    BY <1>10, <1>t, <2>1 DEF complete_startup_next, Complete
<1>11. CASE UNCHANGED vars
  BY <1>11 DEF vars, in_flight
<1> QED
  BY <1>1, <1>2, <1>3, <1>4, <1>5, <1>6, <1>7, <1>8, <1>9, <1>10, <1>11 DEF Next

(* The final report's accounting check holds in every state, and queued and *)
(* reserved frames together never exceed pending_frames_capacity_.          *)
THEOREM Counting == Spec => [](AccountingValid /\ CapacityRespected)
<1>1. Init => CountInv
  BY FrameQueueAssumption, EmptySeq
     DEF Init, CountInv, AccountingValid, CapacityRespected, outstanding, in_flight
<1>2. TypeOK /\ TypeOK' /\ CountInv /\ [Next]_vars => CountInv'
  BY CountStep
<1> QED
  BY <1>1, <1>2, TypeInvariant, PTL DEF Spec, CountInv

(* Queued and reserved frames share one capacity, whatever its value.       *)
THEOREM CapacityKept == Spec => []CapacityRespected
BY Counting, PTL

-----------------------------------------------------------------------------
(* StartupPairShape alone is not inductive: a pair advances in step, its    *)
(* second frame starts only after the first completed, and nothing has been *)
(* completed before a pair is whole.                                        *)
PairInv ==
    /\ StartupPairShape
    /\ startup /\ startup_next_work = None => log = <<>>
    /\ tracking_work # None /\ startup_next_work # None =>
          /\ startup_next_work.stage # "Executing"
          /\ tracking_work.stage = "Reserved" <=> startup_next_work.stage = "Reserved"

(* The facts a step may change, with nothing but the pair in view.          *)
LEMMA PairStep ==
  ASSUME TypeOK, PairInv, [Next]_vars
  PROVE  PairInv'
<1> USE DEF PairInv, StartupPairShape, startup
<1>w. /\ tracking_work # None => tracking_work \in TrackingWork
      /\ startup_next_work # None => startup_next_work \in TrackingWork
  BY DEF TypeOK, Optional
<1>l. log \in Seq(Nat \ {0}) /\ Len(<<>>) = 0
  BY EmptySeq DEF TypeOK
<1>1. ASSUME NEW timestamp \in Times, discard_incoming(timestamp)
      PROVE  PairInv'
  BY <1>1 DEF discard_incoming
<1>2. ASSUME NEW timestamp \in Times, admit(timestamp)
      PROVE  PairInv'
  BY <1>2 DEF admit
<1>3. CASE reserve_tracking_work
  BY <1>3 DEF reserve_tracking_work, timestamps
<1>4. CASE reserve_startup_pair
  <2>1. \A entry : Reserve(entry).stage = "Reserved" /\ Reserve(entry).imu_batch = None
    BY DEF Reserve
  <2>2. startup_next_work' # None /\ tracking_work' # None
    <3>1. CASE tracking_work = None
      <4>1. pending_frames[1] \in PendingFrame /\ pending_frames[2] \in PendingFrame
        BY <1>4, <3>1, TwoFromFront DEF reserve_startup_pair, TypeOK
      <4> QED
        BY <1>4, <3>1, <4>1, WorkIsSome DEF reserve_startup_pair
    <3>2. CASE tracking_work # None
      <4>1. Head(pending_frames) \in PendingFrame
        BY <1>4, <3>2, HeadTailProperties DEF reserve_startup_pair, TypeOK
      <4> QED
        BY <1>4, <3>2, <4>1, WorkIsSome DEF reserve_startup_pair
    <3> QED
      BY <3>1, <3>2
  <2> QED
    BY <1>4, <2>1, <2>2 DEF reserve_startup_pair, timestamps
<1>5. CASE discard_startup_first
  BY <1>5 DEF discard_startup_first
<1>6. ASSUME NEW batch \in Optional(Batches), make_ready(batch)
      PROVE  PairInv'
  <2>1. CASE startup
    <3>1. /\ tracking_work \in TrackingWork /\ startup_next_work \in TrackingWork
          /\ tracking_work.stage = "Reserved" /\ startup_next_work.stage = "Reserved"
      BY <1>6, <1>w, <2>1 DEF make_ready, Unsampled
    <3>2. /\ tracking_work' = [tracking_work EXCEPT !.stage = "Ready"]
          /\ startup_next_work' = [startup_next_work EXCEPT !.stage = "Ready", !.imu_batch = batch]
          /\ UNCHANGED <<log, startup_complete, last_tracked_frame_timestamp>>
      BY <1>6, <2>1 DEF make_ready, timestamps
    <3>3. batch # None
      BY <1>6, <2>1 DEF make_ready
    <3>4. /\ tracking_work' # None /\ startup_next_work' # None
          /\ tracking_work'.stage = "Ready" /\ startup_next_work'.stage = "Ready"
          /\ tracking_work'.imu_batch = None /\ startup_next_work'.imu_batch # None
      BY <2>1, <3>1, <3>2, <3>3, WorkIsSome DEF Stages, TrackingWork
    <3> QED
      BY <2>1, <3>1, <3>2, <3>4
  <2>2. CASE ~startup
    BY <1>6, <1>w, <2>2, WorkIsSome DEF make_ready, Unsampled, timestamps
  <2> QED
    BY <2>1, <2>2
<1>7. CASE begin_primary
  BY <1>7, <1>w, WorkIsSome DEF begin_primary, Stages, TrackingWork, timestamps
<1>8. CASE begin_startup_next
  BY <1>8, <1>w, WorkIsSome DEF begin_startup_next, Stages, TrackingWork, timestamps
<1>9. CASE complete_primary
  <2> DEFINE frame == tracking_work.pending
  <2>1. /\ tracking_work # None /\ tracking_work.stage = "Executing"
        /\ tracking_work' = None
        /\ UNCHANGED <<startup_next_work, startup_complete>>
        /\ log' = Append(log, frame.enqueue_sequence)
        /\ last_tracked_frame_timestamp' = IF Mode = "StereoImu" THEN frame.timestamp
                                            ELSE last_tracked_frame_timestamp
    BY <1>9 DEF complete_primary, Complete
  <2>2. frame.enqueue_sequence \in Nat \ {0} /\ frame.timestamp # None
    BY <1>w, <2>1, FrameQueueAssumption DEF TrackingWork, PendingFrame
  <2>3. log = <<>> => Len(log') = 1
    BY <1>l, <2>1, <2>2, AppendProperties
  <2>4. startup => log = <<>> /\ startup_next_work # None /\ startup_next_work.stage = "Ready"
    BY <2>1
  <2> QED
    BY <2>1, <2>2, <2>3, <2>4
<1>10. CASE complete_startup_next
  <2>1. /\ Mode = "StereoImu" /\ startup_next_work' = None /\ startup_complete' = TRUE
        /\ last_tracked_frame_timestamp' = startup_next_work.pending.timestamp
    BY <1>10 DEF complete_startup_next, Complete
  <2>2. startup_next_work.pending.timestamp # None
    BY <1>10, <1>w, FrameQueueAssumption
       DEF complete_startup_next, Complete, TrackingWork, PendingFrame
  <2> QED
    BY <2>1, <2>2
<1>11. CASE UNCHANGED vars
  BY <1>11 DEF vars, timestamps
<1> QED
  BY <1>1, <1>2, <1>3, <1>4, <1>5, <1>6, <1>7, <1>8, <1>9, <1>10, <1>11 DEF Next

(* The startup protocol of F0 and F1 for every capacity and every batch.    *)
THEOREM StartupProtocol == Spec => []StartupPairShape
<1>1. Init => PairInv
  <2> SUFFICES ASSUME Init PROVE PairInv
    OBVIOUS
  <2>1. startup_complete = FALSE /\ log = <<>> /\ tracking_work = None
        /\ startup_next_work = None
    BY DEF Init
  <2> QED
    BY <2>1 DEF PairInv, StartupPairShape
<1>2. TypeOK /\ PairInv /\ [Next]_vars => PairInv'
  BY PairStep
<1>3. PairInv => StartupPairShape
  BY DEF PairInv
<1> QED
  BY <1>1, <1>2, <1>3, TypeInvariant, PTL DEF Spec

-----------------------------------------------------------------------------
(* FramesInOrder speaks of one sequence put together from four places.  Its *)
(* inductive form looks at the places one by one: the completed frames come *)
(* before the owned ones, the reservations before the queue, F0 before F1;  *)
(* and the last tracked timestamp never passes the last received one.       *)
Before(entry, later) ==
    entry.enqueue_sequence < later.enqueue_sequence /\ entry.timestamp < later.timestamp

InOrder(entries) == \A i, j \in 1..Len(entries) : i < j => Before(entries[i], entries[j])
Precedes(entry, entries) == \A i \in 1..Len(entries) : Before(entry, entries[i])

\* An owned frame comes after everything completed, and not after the newest.
Owed(entry) ==
    /\ \A i \in 1..Len(log) : log[i] < entry.enqueue_sequence
    /\ entry.enqueue_sequence <= enqueued_frames
    /\ last_received_frame_timestamp # None
    /\ entry.timestamp <= last_received_frame_timestamp
    /\ last_tracked_frame_timestamp # None => last_tracked_frame_timestamp < entry.timestamp

LogInOrder ==
    /\ \A i, j \in 1..Len(log) : i < j => log[i] < log[j]
    /\ \A i \in 1..Len(log) : log[i] <= enqueued_frames

TrackedBeforeReceived ==
    last_tracked_frame_timestamp # None =>
        /\ last_received_frame_timestamp # None
        /\ last_tracked_frame_timestamp <= last_received_frame_timestamp

QueueInOrder == InOrder(pending_frames) /\ \A i \in 1..Len(pending_frames) : Owed(pending_frames[i])

WorkInOrder(work) ==
    work # None => Owed(work.pending) /\ Precedes(work.pending, pending_frames)

PairInOrder ==
    tracking_work # None /\ startup_next_work # None =>
        Before(tracking_work.pending, startup_next_work.pending)

OrderInv ==
    /\ LogInOrder
    /\ TrackedBeforeReceived
    /\ QueueInOrder
    /\ WorkInOrder(tracking_work)
    /\ WorkInOrder(startup_next_work)
    /\ PairInOrder

(* Taking the front of the queue keeps the rest in order behind it.         *)
LEMMA FrontInOrder ==
  ASSUME NEW entries \in Seq(PendingFrame), entries # <<>>, InOrder(entries)
  PROVE  /\ Head(entries) \in PendingFrame /\ Head(entries) = entries[1]
         /\ Tail(entries) \in Seq(PendingFrame)
         /\ 1 \in 1..Len(entries)
         /\ \A i \in 1..Len(Tail(entries)) :
               i + 1 \in 1..Len(entries) /\ Tail(entries)[i] = entries[i + 1]
         /\ InOrder(Tail(entries))
         /\ Precedes(Head(entries), Tail(entries))
<1>1. /\ Head(entries) \in PendingFrame /\ Tail(entries) \in Seq(PendingFrame)
      /\ Len(Tail(entries)) = Len(entries) - 1
      /\ \A i \in 1..Len(Tail(entries)) : Tail(entries)[i] = entries[i + 1]
  BY HeadTailProperties
<1>2. Len(entries) \in Nat /\ Len(entries) # 0
  BY LenProperties, EmptySeq
<1>3. Head(entries) = entries[1]
  OBVIOUS
<1>4. 1 \in 1..Len(entries) /\ \A i \in 1..Len(Tail(entries)) : i + 1 \in 1..Len(entries)
  BY <1>1, <1>2
<1>5. InOrder(Tail(entries))
  BY <1>1, <1>2, <1>4 DEF InOrder
<1>6. Precedes(Head(entries), Tail(entries))
  BY <1>1, <1>2, <1>3, <1>4 DEF InOrder, Precedes
<1> QED
  BY <1>1, <1>3, <1>4, <1>5, <1>6

LEMMA OrderStep ==
  ASSUME TypeOK, TypeOK', PairInv, OrderInv, [Next]_vars
  PROVE  OrderInv'
<1> USE DEF OrderInv
<1>n. /\ Times \subseteq Nat /\ None \notin Nat
      /\ enqueued_frames \in Nat
      /\ last_received_frame_timestamp \in Times \cup {None}
      /\ last_tracked_frame_timestamp \in Times \cup {None}
      /\ log \in Seq(Nat \ {0}) /\ pending_frames \in Seq(PendingFrame)
  BY FrameQueueAssumption DEF TypeOK, Optional
<1>w. /\ tracking_work # None => tracking_work \in TrackingWork
      /\ startup_next_work # None => startup_next_work \in TrackingWork
  BY DEF TypeOK, Optional
<1>p. /\ \A entry \in PendingFrame : entry.timestamp \in Nat /\ entry.enqueue_sequence \in Nat
      /\ \A work \in TrackingWork : work.pending \in PendingFrame
      /\ \A i \in 1..Len(pending_frames) : pending_frames[i] \in PendingFrame
  BY <1>n, ElementOfSeq DEF PendingFrame, TrackingWork
<1>l. \A i \in 1..Len(log) : log[i] \in Nat
  BY <1>n, ElementOfSeq
<1>r. \A entry : Reserve(entry).pending = entry
  BY DEF Reserve
<1>1. ASSUME NEW timestamp \in Times, discard_incoming(timestamp)
      PROVE  OrderInv'
  <2>1. /\ UNCHANGED <<pending_frames, tracking_work, startup_next_work, enqueued_frames, log,
                       last_tracked_frame_timestamp>>
        /\ last_received_frame_timestamp' = timestamp
        /\ timestamp \in Nat
        /\ last_received_frame_timestamp # None => last_received_frame_timestamp < timestamp
    BY <1>1, <1>n DEF discard_incoming, Stale
  <2>2. LogInOrder' /\ PairInOrder'
    BY <2>1 DEF LogInOrder, PairInOrder
  <2>3. TrackedBeforeReceived'
    BY <1>n, <2>1 DEF TrackedBeforeReceived
  <2>4. QueueInOrder'
    BY <1>n, <1>p, <2>1 DEF QueueInOrder, InOrder, Owed
  <2>5. WorkInOrder(tracking_work)'
    BY <1>n, <1>p, <1>w, <2>1 DEF WorkInOrder, Precedes, Owed
  <2>6. WorkInOrder(startup_next_work)'
    BY <1>n, <1>p, <1>w, <2>1 DEF WorkInOrder, Precedes, Owed
  <2> QED
    BY <2>2, <2>3, <2>4, <2>5, <2>6
<1>2. ASSUME NEW timestamp \in Times, admit(timestamp)
      PROVE  OrderInv'
  <2> DEFINE retained == IF Full THEN Tail(pending_frames) ELSE pending_frames
  <2>0. PICK entry \in PendingFrame :
           entry = [timestamp |-> timestamp, enqueue_sequence |-> NextSequence]
    <3>1. enqueued_frames + 1 \in Nat \ {0}
      BY <1>n
    <3>2. [timestamp |-> timestamp, enqueue_sequence |-> NextSequence] \in PendingFrame
      BY <3>1 DEF PendingFrame, NextSequence
    <3> QED
      BY <3>2
  <2>1. /\ UNCHANGED <<tracking_work, startup_next_work, log, last_tracked_frame_timestamp>>
        /\ pending_frames' = Append(retained, entry)
        /\ last_received_frame_timestamp' = timestamp
        /\ enqueued_frames' = enqueued_frames + 1
        /\ timestamp \in Nat
        /\ last_received_frame_timestamp # None => last_received_frame_timestamp < timestamp
        /\ Full => pending_frames # <<>>
    BY <1>2, <1>n, <2>0 DEF admit, Stale
  <2>2. /\ entry \in PendingFrame
        /\ entry.enqueue_sequence = enqueued_frames + 1 /\ entry.timestamp = timestamp
    BY <2>0 DEF NextSequence
  <2>3. /\ retained \in Seq(PendingFrame) /\ InOrder(retained)
        /\ \A i \in 1..Len(retained) :
              \E k \in 1..Len(pending_frames) : retained[i] = pending_frames[k]
    BY <1>n, <2>1, FrontInOrder DEF QueueInOrder
  <2> HIDE DEF retained
  <2>4. /\ Len(pending_frames') = Len(retained) + 1 /\ Len(retained) \in Nat
        /\ \A i \in 1..Len(retained) : pending_frames'[i] = retained[i]
        /\ pending_frames'[Len(retained) + 1] = entry
    BY <2>1, <2>2, <2>3, AppendProperties, LenProperties
  <2>5. ASSUME NEW old \in PendingFrame, Owed(old)
        PROVE  Owed(old)' /\ Before(old, entry)
    <3>1. /\ old.timestamp \in Nat /\ old.enqueue_sequence \in Nat
          /\ old.enqueue_sequence <= enqueued_frames
          /\ last_received_frame_timestamp \in Nat
          /\ old.timestamp <= last_received_frame_timestamp
          /\ last_received_frame_timestamp < timestamp
      BY <1>n, <1>p, <2>1, <2>5 DEF Owed
    <3>2. Before(old, entry)
      BY <1>n, <2>1, <2>2, <3>1 DEF Before
    <3>3. Owed(old)'
      BY <1>n, <2>1, <2>5, <3>1 DEF Owed
    <3> QED
      BY <3>2, <3>3
  <2>6. \A i \in 1..Len(retained) :
           /\ retained[i] \in PendingFrame /\ Owed(retained[i])
           /\ Before(retained[i], entry)
    <3> SUFFICES ASSUME NEW i \in 1..Len(retained)
                 PROVE  /\ retained[i] \in PendingFrame /\ Owed(retained[i])
                        /\ Before(retained[i], entry)
      OBVIOUS
    <3>1. PICK k \in 1..Len(pending_frames) : retained[i] = pending_frames[k]
      BY <2>3
    <3>2. retained[i] \in PendingFrame /\ Owed(retained[i])
      BY <1>p, <3>1 DEF QueueInOrder
    <3> QED
      BY <2>5, <3>2
  <2>7. Owed(entry)'
    BY <1>n, <1>l, <2>1, <2>2 DEF Owed, LogInOrder, TrackedBeforeReceived
  <2>8. QueueInOrder'
    <3>1. InOrder(pending_frames)'
      BY <2>3, <2>4, <2>6 DEF InOrder
    <3>2. \A i \in 1..Len(pending_frames') : Owed(pending_frames[i])'
      <4> SUFFICES ASSUME NEW i \in 1..Len(pending_frames') PROVE Owed(pending_frames[i])'
        OBVIOUS
      <4>1. CASE i \in 1..Len(retained)
        <5>1. pending_frames'[i] = retained[i]
          BY <2>4, <4>1
        <5>2. Owed(retained[i]) /\ retained[i] \in PendingFrame
          BY <2>6, <4>1
        <5> QED
          BY <2>5, <5>1, <5>2 DEF Owed
      <4>2. CASE i = Len(retained) + 1
        BY <2>4, <2>7, <4>2 DEF Owed
      <4> QED
        BY <2>4, <4>1, <4>2
    <3> QED
      BY <3>1, <3>2 DEF QueueInOrder
  <2>9. ASSUME NEW work \in TrackingWork, Owed(work.pending),
               Precedes(work.pending, pending_frames)
        PROVE  /\ Owed(work.pending)'
               /\ \A i \in 1..Len(pending_frames') : Before(work.pending, pending_frames'[i])
    <3>1. Before(work.pending, entry) /\ Owed(work.pending)'
      BY <1>p, <2>5, <2>9
    <3>2. \A i \in 1..Len(retained) : Before(work.pending, retained[i])
      BY <2>3, <2>9 DEF Precedes
    <3> QED
      BY <2>4, <3>1, <3>2
  <2>10. WorkInOrder(tracking_work)'
    BY <1>w, <2>1, <2>9 DEF WorkInOrder, Precedes, Owed
  <2>11. WorkInOrder(startup_next_work)'
    BY <1>w, <2>1, <2>9 DEF WorkInOrder, Precedes, Owed
  <2>12. LogInOrder'
    BY <1>n, <1>l, <2>1 DEF LogInOrder
  <2>13. TrackedBeforeReceived' /\ PairInOrder'
    BY <1>n, <2>1 DEF TrackedBeforeReceived, PairInOrder
  <2> QED
    BY <2>8, <2>10, <2>11, <2>12, <2>13
<1>3. CASE reserve_tracking_work
  <2>1. /\ tracking_work' = Reserve(Head(pending_frames))
        /\ pending_frames # <<>> /\ pending_frames' = Tail(pending_frames)
        /\ UNCHANGED <<log, enqueued_frames, last_received_frame_timestamp,
                       last_tracked_frame_timestamp, startup_next_work>>
        /\ startup_next_work = None
    BY <1>3 DEF reserve_tracking_work, timestamps, counters, PairInv, StartupPairShape
  <2>2. /\ InOrder(Tail(pending_frames)) /\ Precedes(Head(pending_frames), Tail(pending_frames))
        /\ Owed(Head(pending_frames))
        /\ \A i \in 1..Len(Tail(pending_frames)) : Owed(Tail(pending_frames)[i])
    BY <1>n, <2>1, FrontInOrder DEF QueueInOrder
  <2>3. LogInOrder' /\ TrackedBeforeReceived' /\ PairInOrder'
    BY <2>1 DEF LogInOrder, TrackedBeforeReceived, PairInOrder
  <2>4. QueueInOrder'
    BY <2>1, <2>2 DEF QueueInOrder, InOrder, Owed
  <2>5. WorkInOrder(tracking_work)'
    BY <1>r, <2>1, <2>2 DEF WorkInOrder, Precedes, Owed
  <2>6. WorkInOrder(startup_next_work)'
    BY <2>1 DEF WorkInOrder
  <2> QED
    BY <2>3, <2>4, <2>5, <2>6
<1>4. CASE reserve_startup_pair
  <2>0. UNCHANGED <<log, enqueued_frames, last_received_frame_timestamp,
                    last_tracked_frame_timestamp>>
    BY <1>4 DEF reserve_startup_pair, timestamps, counters
  <2>l. LogInOrder' /\ TrackedBeforeReceived'
    BY <2>0 DEF LogInOrder, TrackedBeforeReceived
  <2>1. CASE tracking_work = None
    <3>1. /\ Len(pending_frames) >= 2
          /\ pending_frames' = Tail(Tail(pending_frames))
          /\ tracking_work' = Reserve(pending_frames[1])
          /\ startup_next_work' = Reserve(pending_frames[2])
      BY <1>4, <2>1 DEF reserve_startup_pair
    <3>2. /\ Len(pending_frames') = Len(pending_frames) - 2
          /\ \A i \in 1..Len(pending_frames') :
                i + 2 \in 1..Len(pending_frames) /\ pending_frames'[i] = pending_frames[i + 2]
          /\ 1 \in 1..Len(pending_frames) /\ 2 \in 1..Len(pending_frames)
          /\ Len(pending_frames) \in Nat
      BY <1>n, <3>1, TwoFromFront, LenProperties
    <3>3. QueueInOrder'
      <4>1. InOrder(pending_frames)'
        BY <3>2 DEF QueueInOrder, InOrder
      <4>2. \A i \in 1..Len(pending_frames') : Owed(pending_frames[i])'
        BY <2>0, <3>2 DEF QueueInOrder, Owed
      <4> QED
        BY <4>1, <4>2 DEF QueueInOrder
    <3>4. WorkInOrder(tracking_work)'
      BY <1>r, <2>0, <3>1, <3>2 DEF WorkInOrder, QueueInOrder, InOrder, Precedes, Owed
    <3>5. WorkInOrder(startup_next_work)'
      BY <1>r, <2>0, <3>1, <3>2 DEF WorkInOrder, QueueInOrder, InOrder, Precedes, Owed
    <3>6. PairInOrder'
      BY <1>r, <3>1, <3>2 DEF PairInOrder, QueueInOrder, InOrder
    <3> QED
      BY <2>l, <3>3, <3>4, <3>5, <3>6
  <2>2. CASE tracking_work # None
    <3>1. /\ startup_next_work' = Reserve(Head(pending_frames))
          /\ pending_frames # <<>> /\ pending_frames' = Tail(pending_frames)
          /\ tracking_work' = tracking_work
      BY <1>4, <2>2 DEF reserve_startup_pair
    <3>2. /\ InOrder(Tail(pending_frames))
          /\ Precedes(Head(pending_frames), Tail(pending_frames))
          /\ Owed(Head(pending_frames)) /\ Head(pending_frames) = pending_frames[1]
          /\ 1 \in 1..Len(pending_frames)
          /\ \A i \in 1..Len(Tail(pending_frames)) :
                /\ i + 1 \in 1..Len(pending_frames)
                /\ Tail(pending_frames)[i] = pending_frames[i + 1]
                /\ Owed(Tail(pending_frames)[i])
      BY <1>n, <3>1, FrontInOrder DEF QueueInOrder
    <3>3. QueueInOrder'
      BY <2>0, <3>1, <3>2 DEF QueueInOrder, InOrder, Owed
    <3>4. WorkInOrder(tracking_work)'
      BY <2>0, <3>1, <3>2 DEF WorkInOrder, Precedes, Owed
    <3>5. WorkInOrder(startup_next_work)'
      BY <1>r, <2>0, <3>1, <3>2 DEF WorkInOrder, Precedes, Owed
    <3>6. PairInOrder'
      BY <1>r, <2>2, <3>1, <3>2 DEF PairInOrder, WorkInOrder, Precedes
    <3> QED
      BY <2>l, <3>3, <3>4, <3>5, <3>6
  <2> QED
    BY <2>1, <2>2
<1>5. CASE discard_startup_first
  BY <1>5 DEF discard_startup_first, timestamps, LogInOrder, TrackedBeforeReceived, QueueInOrder,
              InOrder, WorkInOrder, Precedes, PairInOrder, Owed
\* A step that only advances the stage or batch of a reservation.
<1>s. ASSUME UNCHANGED <<pending_frames, log, enqueued_frames, last_received_frame_timestamp,
                         last_tracked_frame_timestamp>>,
             tracking_work' # None =>
                tracking_work # None /\ tracking_work'.pending = tracking_work.pending,
             startup_next_work' # None =>
                /\ startup_next_work # None
                /\ startup_next_work'.pending = startup_next_work.pending
      PROVE  OrderInv'
  BY <1>s DEF LogInOrder, TrackedBeforeReceived, QueueInOrder, InOrder, WorkInOrder, Precedes,
              PairInOrder, Owed
<1>e. /\ \A work \in TrackingWork, stage \in Stages : [work EXCEPT !.stage = stage].pending = work.pending
      /\ \A work \in TrackingWork, stage \in Stages, batch \in Optional(Batches) :
            [work EXCEPT !.stage = stage, !.imu_batch = batch].pending = work.pending
  BY DEF TrackingWork
<1>6. ASSUME NEW batch \in Optional(Batches), make_ready(batch)
      PROVE  OrderInv'
  <2>1. UNCHANGED <<pending_frames, log, enqueued_frames, last_received_frame_timestamp,
                    last_tracked_frame_timestamp>>
    BY <1>6 DEF make_ready, timestamps, counters
  <2>2. tracking_work # None /\ tracking_work \in TrackingWork
    BY <1>6, <1>w DEF make_ready, Unsampled
  <2>3. tracking_work'.pending = tracking_work.pending
    <3>1. CASE startup
      <4>1. tracking_work' = [tracking_work EXCEPT !.stage = "Ready"]
        BY <1>6, <3>1 DEF make_ready
      <4> QED
        BY <1>e, <2>2, <4>1 DEF Stages
    <3>2. CASE ~startup
      <4>1. tracking_work' = [tracking_work EXCEPT !.stage = "Ready", !.imu_batch = batch]
        BY <1>6, <3>2 DEF make_ready
      <4> QED
        BY <1>6, <1>e, <2>2, <4>1 DEF Stages
    <3> QED
      BY <3>1, <3>2
  <2>4. startup_next_work' # None =>
           startup_next_work # None /\ startup_next_work'.pending = startup_next_work.pending
    <3>1. CASE startup
      <4>1. /\ startup_next_work # None /\ startup_next_work \in TrackingWork
            /\ startup_next_work' =
                  [startup_next_work EXCEPT !.stage = "Ready", !.imu_batch = batch]
        BY <1>6, <1>w, <3>1 DEF make_ready, Unsampled
      <4> QED
        BY <1>e, <4>1 DEF Stages
    <3>2. CASE ~startup
      BY <1>6, <3>2 DEF make_ready
    <3> QED
      BY <3>1, <3>2
  <2> QED
    BY <1>s, <2>1, <2>2, <2>3, <2>4
<1>7. CASE begin_primary
  BY <1>7, <1>w, <1>e, <1>s DEF begin_primary, Stages, timestamps, counters
<1>8. CASE begin_startup_next
  BY <1>8, <1>w, <1>e, <1>s DEF begin_startup_next, Stages, timestamps, counters
\* A completion appends a frame that precedes all the others.
<1>c. ASSUME NEW work \in TrackingWork, Complete(work), WorkInOrder(work), work # None
      PROVE  /\ LogInOrder' /\ TrackedBeforeReceived' /\ QueueInOrder'
             /\ \A other \in PendingFrame : Owed(other) /\ Before(work.pending, other)
                                            => Owed(other)'
  <2> DEFINE frame == work.pending
  <2>1. /\ UNCHANGED <<pending_frames, last_received_frame_timestamp, enqueued_frames>>
        /\ log' = Append(log, frame.enqueue_sequence)
        /\ last_tracked_frame_timestamp' \in {frame.timestamp, last_tracked_frame_timestamp}
    BY <1>c DEF Complete
  <2>2. frame \in PendingFrame /\ frame.enqueue_sequence \in Nat \ {0} /\ frame.timestamp \in Nat
    BY <1>n DEF TrackingWork, PendingFrame
  <2>3. Owed(frame) /\ Precedes(frame, pending_frames)
    BY <1>c DEF WorkInOrder
  <2> HIDE DEF frame
  <2>4. /\ Len(log') = Len(log) + 1 /\ Len(log) \in Nat
        /\ \A i \in 1..Len(log) : log'[i] = log[i]
        /\ log'[Len(log) + 1] = frame.enqueue_sequence
    BY <1>n, <2>1, <2>2, AppendProperties, LenProperties
  <2>5. LogInOrder'
    <3>1. /\ \A i \in 1..Len(log) : log[i] < frame.enqueue_sequence
          /\ frame.enqueue_sequence <= enqueued_frames
      BY <2>3 DEF Owed
    <3>2. \A i, j \in 1..Len(log') : i < j => log'[i] < log'[j]
      BY <1>l, <2>2, <2>4, <3>1 DEF LogInOrder
    <3>3. \A i \in 1..Len(log') : log'[i] <= enqueued_frames'
      BY <2>1, <2>4, <3>1 DEF LogInOrder
    <3> QED
      BY <3>2, <3>3 DEF LogInOrder
  <2>6. TrackedBeforeReceived'
    BY <1>n, <2>1, <2>2, <2>3 DEF TrackedBeforeReceived, Owed
  <2>7. ASSUME NEW other \in PendingFrame, Owed(other), Before(frame, other)
        PROVE  Owed(other)'
    BY <1>n, <1>p, <1>l, <2>1, <2>2, <2>4, <2>7 DEF Owed, Before
  <2>8. QueueInOrder'
    <3>1. InOrder(pending_frames)'
      BY <2>1 DEF QueueInOrder, InOrder
    <3>2. \A i \in 1..Len(pending_frames) : Owed(pending_frames[i])'
      <4> SUFFICES ASSUME NEW i \in 1..Len(pending_frames) PROVE Owed(pending_frames[i])'
        OBVIOUS
      <4>1. /\ pending_frames[i] \in PendingFrame /\ Owed(pending_frames[i])
            /\ Before(frame, pending_frames[i]) /\ pending_frames'[i] = pending_frames[i]
        BY <1>p, <2>1, <2>3 DEF QueueInOrder, Precedes
      <4> QED
        BY <1>n, <1>p, <1>l, <2>1, <2>2, <2>4, <4>1 DEF Owed, Before
    <3> QED
      BY <2>1, <3>1, <3>2 DEF QueueInOrder
  <2> QED
    BY <2>5, <2>6, <2>7, <2>8 DEF frame
<1>9. CASE complete_primary
  <2>1. /\ tracking_work # None /\ tracking_work \in TrackingWork /\ Complete(tracking_work)
        /\ tracking_work' = None /\ startup_next_work' = startup_next_work
        /\ pending_frames' = pending_frames
    BY <1>9, <1>w DEF complete_primary, Complete
  <2>2. LogInOrder' /\ TrackedBeforeReceived' /\ QueueInOrder'
    BY <1>c, <2>1
  <2>3. startup_next_work # None => Owed(startup_next_work.pending)'
    <3> SUFFICES ASSUME startup_next_work # None PROVE Owed(startup_next_work.pending)'
      OBVIOUS
    <3>1. /\ startup_next_work.pending \in PendingFrame /\ Owed(startup_next_work.pending)
          /\ Before(tracking_work.pending, startup_next_work.pending)
      BY <1>p, <1>w, <2>1 DEF WorkInOrder, PairInOrder
    <3> DEFINE other == startup_next_work.pending
    <3>2. other' = other
      BY <2>1
    <3>3. Owed(other)'
      BY <1>c, <2>1, <3>1, <3>2 DEF Owed
    <3> QED
      BY <3>3
  <2>4. WorkInOrder(startup_next_work)'
    BY <2>1, <2>3 DEF WorkInOrder, Precedes
  <2>5. WorkInOrder(tracking_work)' /\ PairInOrder'
    BY <2>1 DEF WorkInOrder, PairInOrder
  <2> QED
    BY <2>2, <2>4, <2>5
<1>10. CASE complete_startup_next
  <2>1. /\ startup_next_work # None /\ startup_next_work \in TrackingWork
        /\ Complete(startup_next_work) /\ startup_next_work.stage = "Executing"
        /\ startup_next_work' = None /\ tracking_work' = tracking_work
    BY <1>10, <1>w DEF complete_startup_next, Complete
  <2>2. tracking_work = None
    BY <2>1 DEF PairInv
  <2>3. LogInOrder' /\ TrackedBeforeReceived' /\ QueueInOrder'
    BY <1>c, <2>1
  <2> QED
    BY <2>1, <2>2, <2>3 DEF WorkInOrder, PairInOrder
<1>11. CASE UNCHANGED vars
  BY <1>11, <1>s DEF vars, timestamps, counters
<1> QED
  BY <1>1, <1>2, <1>3, <1>4, <1>5, <1>6, <1>7, <1>8, <1>9, <1>10, <1>11 DEF Next

(* The inductive form puts the property together again.                     *)
LEMMA OrderMeansFramesInOrder ==
  ASSUME TypeOK, OrderInv
  PROVE  FramesInOrder
<1> DEFINE first  == IF tracking_work # None THEN <<tracking_work.pending>> ELSE <<>>
           second == IF startup_next_work # None THEN <<startup_next_work.pending>> ELSE <<>>
           pair   == first \o second
           sequences == log \o [i \in 1..Len(Owned) |-> Owned[i].enqueue_sequence]
<1>w. /\ pending_frames \in Seq(PendingFrame) /\ log \in Seq(Nat \ {0})
      /\ tracking_work # None => tracking_work.pending \in PendingFrame
      /\ startup_next_work # None => startup_next_work.pending \in PendingFrame
  BY DEF TypeOK, Optional, TrackingWork
<1>1. /\ pair \in Seq(PendingFrame)
      /\ Len(pair) \in Nat
      /\ InOrder(pair)
      /\ \A i \in 1..Len(pair) : Owed(pair[i]) /\ Precedes(pair[i], pending_frames)
  <2>1. CASE tracking_work = None /\ startup_next_work = None
    <3>1. pair = <<>>
      BY <2>1
    <3> QED
      BY <3>1, EmptySeq DEF InOrder
  <2>2. CASE tracking_work # None /\ startup_next_work = None
    <3>1. pair = <<tracking_work.pending>>
      BY <2>2
    <3> HIDE DEF pair
    <3>2. Len(pair) = 1 /\ pair[1] = tracking_work.pending /\ pair \in Seq(PendingFrame)
      BY <1>w, <2>2, <3>1
    <3> QED
      BY <2>2, <3>2 DEF OrderInv, WorkInOrder, InOrder
  <2>3. CASE tracking_work = None /\ startup_next_work # None
    <3>1. pair = <<startup_next_work.pending>>
      BY <2>3
    <3> HIDE DEF pair
    <3>2. Len(pair) = 1 /\ pair[1] = startup_next_work.pending /\ pair \in Seq(PendingFrame)
      BY <1>w, <2>3, <3>1
    <3> QED
      BY <2>3, <3>2 DEF OrderInv, WorkInOrder, InOrder
  <2>4. CASE tracking_work # None /\ startup_next_work # None
    <3>1. first = <<tracking_work.pending>> /\ second = <<startup_next_work.pending>>
      BY <2>4
    <3> HIDE DEF first, second
    <3>s. /\ first \in Seq(PendingFrame) /\ Len(first) = 1 /\ first[1] = tracking_work.pending
          /\ second \in Seq(PendingFrame) /\ Len(second) = 1
          /\ second[1] = startup_next_work.pending
      BY <1>w, <2>4, <3>1
    <3>2. /\ Len(pair) = 2 /\ pair[1] = tracking_work.pending
          /\ pair[2] = startup_next_work.pending /\ pair \in Seq(PendingFrame)
      BY <3>s, ConcatProperties
    <3> HIDE DEF pair
    <3> QED
      BY <2>4, <3>2 DEF OrderInv, WorkInOrder, PairInOrder, InOrder
  <2> QED
    BY <2>1, <2>2, <2>3, <2>4
<1>2. Owned = pair \o pending_frames
  BY DEF Owned
<1> HIDE DEF pair
<1>3. /\ Owned \in Seq(PendingFrame) /\ Len(Owned) \in Nat
      /\ Len(Owned) = Len(pair) + Len(pending_frames) /\ Len(pending_frames) \in Nat
      /\ \A i \in 1..Len(Owned) : Owned[i] = IF i <= Len(pair) THEN pair[i]
                                             ELSE pending_frames[i - Len(pair)]
  BY <1>w, <1>1, <1>2, ConcatProperties, LenProperties
<1>4. /\ InOrder(Owned)
      /\ \A i \in 1..Len(Owned) : Owed(Owned[i])
  <2>1. ASSUME NEW i \in 1..Len(Owned), NEW j \in 1..Len(Owned), i < j
        PROVE  Before(Owned[i], Owned[j])
    <3>1. CASE j <= Len(pair)
      BY <1>1, <1>3, <2>1, <3>1 DEF InOrder
    <3>2. CASE i <= Len(pair) /\ ~(j <= Len(pair))
      <4>1. /\ i \in 1..Len(pair) /\ j - Len(pair) \in 1..Len(pending_frames)
            /\ Owned[i] = pair[i] /\ Owned[j] = pending_frames[j - Len(pair)]
        BY <1>1, <1>3, <2>1, <3>2
      <4>2. Precedes(pair[i], pending_frames)
        BY <1>1, <4>1
      <4> QED
        BY <4>1, <4>2 DEF Precedes
    <3>3. CASE ~(i <= Len(pair))
      <4>1. /\ i - Len(pair) \in 1..Len(pending_frames)
            /\ j - Len(pair) \in 1..Len(pending_frames)
            /\ i - Len(pair) < j - Len(pair)
            /\ Owned[i] = pending_frames[i - Len(pair)]
            /\ Owned[j] = pending_frames[j - Len(pair)]
        BY <1>1, <1>3, <2>1, <3>3
      <4> QED
        BY <4>1 DEF OrderInv, QueueInOrder, InOrder
    <3> QED
      BY <1>1, <2>1, <3>1, <3>2, <3>3
  <2>2. ASSUME NEW i \in 1..Len(Owned)
        PROVE  Owed(Owned[i])
    <3>1. CASE i <= Len(pair)
      BY <1>1, <1>3, <2>2, <3>1
    <3>2. CASE ~(i <= Len(pair))
      <4>1. Owned[i] = pending_frames[i - Len(pair)]
        BY <1>3, <2>2, <3>2
      <4>2. i - Len(pair) \in 1..Len(pending_frames)
        BY <1>1, <1>3, <2>2, <3>2
      <4> QED
        BY <4>1, <4>2 DEF OrderInv, QueueInOrder
    <3> QED
      BY <3>1, <3>2
  <2> QED
    BY <2>1, <2>2 DEF InOrder
<1> DEFINE numbers == [i \in 1..Len(Owned) |-> Owned[i].enqueue_sequence]
<1>5. /\ numbers \in Seq(Nat \ {0}) /\ Len(numbers) = Len(Owned)
      /\ \A i \in 1..Len(Owned) : numbers[i] = Owned[i].enqueue_sequence
  <2>1. \A i \in 1..Len(Owned) : Owned[i].enqueue_sequence \in Nat \ {0}
    <3>1. \A i \in 1..Len(Owned) : Owned[i] \in PendingFrame
      BY <1>3, ElementOfSeq
    <3> QED
      BY <3>1 DEF PendingFrame
  <2>2. numbers \in [1..Len(Owned) -> Nat \ {0}]
    BY <2>1
  <2>3. numbers \in Seq(Nat \ {0}) /\ Len(numbers) = Len(Owned)
    BY <1>3, <2>2, SeqDef, LenProperties
  <2> QED
    BY <2>3
<1> HIDE DEF numbers
<1>6. /\ Len(sequences) = Len(log) + Len(Owned) /\ Len(log) \in Nat
      /\ \A i \in 1..Len(sequences) :
            sequences[i] = IF i <= Len(log) THEN log[i]
                           ELSE Owned[i - Len(log)].enqueue_sequence
  <2>1. sequences = log \o numbers
    BY DEF numbers
  <2> HIDE DEF sequences
  <2> DEFINE Positive == Nat \ {0}
  <2>p. log \in Seq(Positive) /\ numbers \in Seq(Positive)
    BY <1>w, <1>5
  <2> HIDE DEF Positive
  <2>2. /\ Len(sequences) = Len(log) + Len(numbers) /\ Len(log) \in Nat
        /\ \A i \in 1..(Len(log) + Len(numbers)) :
              sequences[i] = IF i <= Len(log) THEN log[i] ELSE numbers[i - Len(log)]
    BY <2>1, <2>p, ConcatProperties, LenProperties
  <2> QED
    BY <1>3, <1>5, <2>2
<1> HIDE DEF sequences
<1>7. \A i, j \in 1..Len(sequences) : i < j => sequences[i] < sequences[j]
  <2> SUFFICES ASSUME NEW i \in 1..Len(sequences), NEW j \in 1..Len(sequences), i < j
               PROVE  sequences[i] < sequences[j]
    OBVIOUS
  <2>1. CASE j <= Len(log)
    <3>1. /\ i \in 1..Len(log) /\ j \in 1..Len(log)
          /\ sequences[i] = log[i] /\ sequences[j] = log[j]
      BY <1>6, <2>1
    <3> QED
      BY <3>1 DEF OrderInv, LogInOrder
  <2>2. CASE i <= Len(log) /\ ~(j <= Len(log))
    <3>1. /\ i \in 1..Len(log) /\ j - Len(log) \in 1..Len(Owned)
          /\ sequences[i] = log[i] /\ sequences[j] = Owned[j - Len(log)].enqueue_sequence
      BY <1>3, <1>6, <2>2
    <3>2. Owed(Owned[j - Len(log)])
      BY <1>4, <3>1
    <3> QED
      BY <3>1, <3>2 DEF Owed
  <2>3. CASE ~(i <= Len(log))
    <3>1. /\ i - Len(log) \in 1..Len(Owned) /\ j - Len(log) \in 1..Len(Owned)
          /\ i - Len(log) < j - Len(log)
          /\ sequences[i] = Owned[i - Len(log)].enqueue_sequence
          /\ sequences[j] = Owned[j - Len(log)].enqueue_sequence
      BY <1>3, <1>6, <2>3
    <3> QED
      BY <1>4, <3>1 DEF InOrder, Before
  <2> QED
    BY <1>6, <2>1, <2>2, <2>3
<1>8. \A i \in 1..Len(sequences) : sequences[i] <= enqueued_frames
  <2> SUFFICES ASSUME NEW i \in 1..Len(sequences) PROVE sequences[i] <= enqueued_frames
    OBVIOUS
  <2>1. CASE i <= Len(log)
    BY <1>6, <2>1 DEF OrderInv, LogInOrder
  <2>2. CASE ~(i <= Len(log))
    BY <1>3, <1>4, <1>6, <2>2 DEF Owed
  <2> QED
    BY <2>1, <2>2
<1>9. /\ \A i, j \in 1..Len(Owned) : i < j => Owned[i].timestamp < Owned[j].timestamp
      /\ \A i \in 1..Len(Owned) :
            /\ Owned[i].timestamp <= last_received_frame_timestamp
            /\ last_tracked_frame_timestamp # None =>
                  last_tracked_frame_timestamp < Owned[i].timestamp
  BY <1>4 DEF InOrder, Before, Owed
<1> QED
  BY <1>7, <1>8, <1>9 DEF FramesInOrder, sequences

(* An empty queue is in order, and no pair has begun.                       *)
LEMMA OrderInit == Init => PairInv /\ OrderInv
<1> SUFFICES ASSUME Init PROVE PairInv /\ OrderInv
  OBVIOUS
<1>1. /\ startup_complete = FALSE /\ log = <<>> /\ tracking_work = None
      /\ startup_next_work = None /\ pending_frames = <<>>
      /\ last_tracked_frame_timestamp = None
  BY DEF Init
<1>2. PairInv
  BY <1>1 DEF PairInv, StartupPairShape
<1>3. OrderInv
  BY <1>1, EmptySeq DEF OrderInv, LogInOrder, TrackedBeforeReceived, QueueInOrder, InOrder,
                        WorkInOrder, PairInOrder
<1> QED
  BY <1>2, <1>3

(* Frames keep their order through reservation, promotion, eviction and     *)
(* completion, for every capacity and every history of timestamps.          *)
THEOREM Ordering == Spec => []FramesInOrder
<1>1. Init => PairInv /\ OrderInv
  BY OrderInit
<1>2. TypeOK /\ TypeOK' /\ PairInv /\ OrderInv /\ [Next]_vars => PairInv' /\ OrderInv'
  BY PairStep, OrderStep
<1>3. TypeOK /\ OrderInv => FramesInOrder
  BY OrderMeansFramesInOrder
<1> QED
  BY <1>1, <1>2, <1>3, TypeInvariant, PTL DEF Spec

-----------------------------------------------------------------------------
(* A step that changes a reservation may rely on this: what is still to be  *)
(* sampled holds no batch, so sampling overwrites none.                     *)
UnsampledHoldsNoBatch ==
    /\ tracking_work # None /\ tracking_work.stage = "Reserved" =>
          tracking_work.imu_batch = None
    /\ startup_next_work # None /\ startup_next_work.stage = "Reserved" =>
          startup_next_work.imu_batch = None

(* Work enters a reservation without a batch and leaves the stage Reserved  *)
(* when it gets one.                                                        *)
LEMMA UnsampledStep ==
  ASSUME TypeOK, UnsampledHoldsNoBatch, [Next]_vars
  PROVE  UnsampledHoldsNoBatch'
<1> USE DEF UnsampledHoldsNoBatch
<1>w. /\ tracking_work # None => tracking_work \in TrackingWork
      /\ startup_next_work # None => startup_next_work \in TrackingWork
  BY DEF TypeOK, Optional
<1>r. \A entry : Reserve(entry).imu_batch = None
  BY DEF Reserve
<1>1. ASSUME NEW timestamp \in Times, discard_incoming(timestamp) \/ admit(timestamp)
      PROVE  UnsampledHoldsNoBatch'
  BY <1>1 DEF discard_incoming, admit
<1>2. CASE reserve_tracking_work
  BY <1>2, <1>r DEF reserve_tracking_work
<1>3. CASE reserve_startup_pair
  BY <1>3, <1>r DEF reserve_startup_pair
<1>4. CASE discard_startup_first
  BY <1>4 DEF discard_startup_first
<1>5. ASSUME NEW batch \in Optional(Batches), make_ready(batch)
      PROVE  UnsampledHoldsNoBatch'
  BY <1>5, <1>w DEF make_ready, Unsampled, TrackingWork
<1>6. CASE begin_primary
  BY <1>6, <1>w DEF begin_primary, TrackingWork
<1>7. CASE begin_startup_next
  BY <1>7, <1>w DEF begin_startup_next, TrackingWork
<1>8. CASE complete_primary
  BY <1>8 DEF complete_primary
<1>9. CASE complete_startup_next
  BY <1>9 DEF complete_startup_next
<1>10. CASE UNCHANGED vars
  BY <1>10 DEF vars
<1> QED
  BY <1>1, <1>2, <1>3, <1>4, <1>5, <1>6, <1>7, <1>8, <1>9, <1>10 DEF Next

\* What ReservationsAreKept asks of a step.
Kept(work, later) ==
    /\ later # None
    /\ later.pending = work.pending
    /\ work.imu_batch # None => later.imu_batch = work.imu_batch

Completes == processed_frames' = processed_frames + 1
Discards == startup_discarded_frames' = startup_discarded_frames + 1

KeepsPrimary ==
    tracking_work # None /\ ~Kept(tracking_work, tracking_work') =>
        Completes \/ (Discards /\ tracking_work.imu_batch = None)

KeepsNext ==
    startup_next_work # None /\ ~Kept(startup_next_work, startup_next_work') =>
        Completes \/ (Discards /\ Kept(startup_next_work, tracking_work'))

(* No step takes a reservation or its batch away but its completion and the *)
(* startup discard: the other steps leave it alone or move its stage on.    *)
LEMMA KeepStep ==
  ASSUME TypeOK, UnsampledHoldsNoBatch, [Next]_vars
  PROVE  KeepsPrimary /\ KeepsNext
<1> USE DEF KeepsPrimary, KeepsNext
<1>w. /\ tracking_work # None => tracking_work \in TrackingWork
      /\ startup_next_work # None => startup_next_work \in TrackingWork
  BY DEF TypeOK, Optional
<1>same. /\ tracking_work # None /\ tracking_work' = tracking_work =>
               Kept(tracking_work, tracking_work')
         /\ startup_next_work # None /\ startup_next_work' = startup_next_work =>
               Kept(startup_next_work, startup_next_work')
  BY DEF Kept
<1>moved. ASSUME NEW work \in TrackingWork, NEW stage \in Stages
          PROVE  Kept(work, [work EXCEPT !.stage = stage])
  BY WorkIsSome DEF Kept, TrackingWork
<1>sampled. ASSUME NEW work \in TrackingWork, NEW batch \in Optional(Batches),
                   work.imu_batch = None
            PROVE  Kept(work, [work EXCEPT !.stage = "Ready", !.imu_batch = batch])
  <2>1. "Ready" \in Stages
    BY DEF Stages
  <2>2. [work EXCEPT !.stage = "Ready", !.imu_batch = batch] # None
    BY <2>1, WorkIsSome
  <2>3. [work EXCEPT !.stage = "Ready", !.imu_batch = batch].pending = work.pending
    BY DEF TrackingWork
  <2> QED
    BY <1>sampled, <2>2, <2>3 DEF Kept
<1>1. ASSUME NEW timestamp \in Times, discard_incoming(timestamp) \/ admit(timestamp)
      PROVE  KeepsPrimary /\ KeepsNext
  BY <1>1, <1>same DEF discard_incoming, admit
<1>2. CASE reserve_tracking_work
  BY <1>2, <1>same DEF reserve_tracking_work
<1>3. CASE reserve_startup_pair
  BY <1>3, <1>same DEF reserve_startup_pair
<1>4. CASE discard_startup_first
  <2>1. Discards /\ tracking_work.imu_batch = None
    BY <1>4 DEF discard_startup_first, Discards
  <2>2. Kept(startup_next_work, tracking_work')
    BY <1>4 DEF discard_startup_first, Kept
  <2> QED
    BY <2>1, <2>2
<1>5. ASSUME NEW batch \in Optional(Batches), make_ready(batch)
      PROVE  KeepsPrimary /\ KeepsNext
  <2>1. tracking_work # None /\ tracking_work.imu_batch = None
    BY <1>5 DEF make_ready, Unsampled, UnsampledHoldsNoBatch
  <2>2. CASE startup
    <3>1. startup_next_work # None /\ startup_next_work.imu_batch = None
      BY <1>5, <2>2 DEF make_ready, Unsampled, UnsampledHoldsNoBatch
    <3>2. /\ startup_next_work' = [startup_next_work EXCEPT !.stage = "Ready",
                                                            !.imu_batch = batch]
          /\ tracking_work' = [tracking_work EXCEPT !.stage = "Ready"]
      BY <1>5, <2>2 DEF make_ready
    <3> QED
      BY <1>w, <1>moved, <1>sampled, <2>1, <3>1, <3>2 DEF Stages
  <2>3. CASE ~startup
    BY <1>5, <1>w, <1>same, <1>sampled, <2>1, <2>3 DEF make_ready
  <2> QED
    BY <2>2, <2>3
<1>6. CASE begin_primary
  BY <1>6, <1>w, <1>same, <1>moved DEF begin_primary, Stages
<1>7. CASE begin_startup_next
  BY <1>7, <1>w, <1>same, <1>moved DEF begin_startup_next, Stages
<1>8. CASE complete_primary
  BY <1>8 DEF complete_primary, Complete, Completes
<1>9. CASE complete_startup_next
  BY <1>9 DEF complete_startup_next, Complete, Completes
<1>10. CASE UNCHANGED vars
  BY <1>10, <1>same DEF vars
<1> QED
  BY <1>1, <1>2, <1>3, <1>4, <1>5, <1>6, <1>7, <1>8, <1>9, <1>10 DEF Next

(* Reception cannot revoke reserved work or its consumed IMU batch, for     *)
(* every capacity, mode, timestamp and batch.                               *)
THEOREM ReservationsStay == Spec => ReservationsAreKept
<1>1. Init => UnsampledHoldsNoBatch
  BY DEF Init, UnsampledHoldsNoBatch
<1>2. TypeOK /\ UnsampledHoldsNoBatch /\ [Next]_vars => UnsampledHoldsNoBatch'
  BY UnsampledStep
<1>3. TypeOK /\ UnsampledHoldsNoBatch /\ [Next]_vars => [KeepsPrimary /\ KeepsNext]_vars
  BY KeepStep
<1>4. KeepsPrimary /\ KeepsNext =>
        LET completes == processed_frames' = processed_frames + 1
            discards  == startup_discarded_frames' = startup_discarded_frames + 1
            Held(work, later) == later # None /\ later.pending = work.pending
                                 /\ (work.imu_batch # None => later.imu_batch = work.imu_batch)
        IN  /\ tracking_work # None /\ ~Held(tracking_work, tracking_work') =>
                  completes \/ (discards /\ tracking_work.imu_batch = None)
            /\ startup_next_work # None /\ ~Held(startup_next_work, startup_next_work') =>
                  \/ completes
                  \/ discards /\ Held(startup_next_work, tracking_work')
  BY DEF KeepsPrimary, KeepsNext, Kept, Completes, Discards
<1> QED
  BY <1>1, <1>2, <1>3, <1>4, TypeInvariant, PTL DEF Spec, ReservationsAreKept
=============================================================================
