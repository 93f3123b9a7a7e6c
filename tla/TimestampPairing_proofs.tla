---------------------- MODULE TimestampPairing_proofs -----------------------
(***************************************************************************)
(* The figures the timestamp diagnostic reports add up, for every window,  *)
(* tolerance and set of stamps, and only one side ever waits.              *)
(***************************************************************************)
EXTENDS TimestampPairing, SequenceTheorems, FiniteSetTheorems, WellFoundedInduction, TLAPS

(* A queue's stale stamps are some of its stamps.                           *)
LEMMA StaleBounds ==
  ASSUME NEW S, NEW q \in Seq(S), NEW stamp
  PROVE  Stale(q, stamp) \in 0..Len(q)
<1> DEFINE T == {i \in 1..Len(q) : \A j \in 1..i : stamp - q[j] > Tolerance}
<1>1. Len(q) \in Nat
  BY LenProperties
<1>2. IsFiniteSet(1..Len(q)) /\ Cardinality(1..Len(q)) = Len(q)
  <2>1. PICK n \in Nat : n = Len(q)
    BY <1>1
  <2>2. IsFiniteSet(1..n) /\ Cardinality(1..n) = n
    BY FS_Interval
  <2> QED
    BY <2>1, <2>2
<1>3. IsFiniteSet(T) /\ Cardinality(T) <= Len(q)
  BY <1>2, FS_Subset
<1>4. Cardinality(T) \in Nat
  BY <1>3, FS_CardinalityType
<1> QED
  BY <1>1, <1>3, <1>4 DEF Stale

(* What is left of a queue without its first n stamps.                      *)
LEMMA DropFirst ==
  ASSUME NEW S, NEW q \in Seq(S), NEW n \in 0..Len(q)
  PROVE  /\ SubSeq(q, n + 1, Len(q)) \in Seq(S)
         /\ Len(SubSeq(q, n + 1, Len(q))) = Len(q) - n
<1>1. Len(q) \in Nat /\ n \in Nat
  BY LenProperties
<1>2. \A i \in (n + 1)..Len(q) : q[i] \in S
  BY <1>1, ElementOfSeq
<1> QED
  BY <1>1, <1>2, SubSeqProperties

(* Pushing keeps a queue within the window.                                 *)
LEMMA PushProperties ==
  ASSUME NEW S, NEW q \in Seq(S), NEW x \in S, Len(q) <= Window
  PROVE  /\ Push(q, x) \in Seq(S)
         /\ Len(Push(q, x)) = IF Len(q) = Window THEN Window ELSE Len(q) + 1
         /\ Len(Push(q, x)) <= Window
<1>1. Len(q) \in Nat /\ Window \in Nat \ {0}
  BY LenProperties, PairingAssumption
<1>2. CASE Len(q) = Window
  <2>1. q # <<>>
    BY <1>1, <1>2, EmptySeq
  <2>2. Tail(q) \in Seq(S) /\ Len(Tail(q)) = Len(q) - 1
    BY <2>1, HeadTailProperties
  <2>3. Append(Tail(q), x) \in Seq(S) /\ Len(Append(Tail(q), x)) = Len(Tail(q)) + 1
    BY <2>2, AppendProperties
  <2> QED
    BY <1>1, <1>2, <2>2, <2>3 DEF Push
<1>3. CASE Len(q) # Window
  <2>1. Append(q, x) \in Seq(S) /\ Len(Append(q, x)) = Len(q) + 1
    BY AppendProperties
  <2> QED
    BY <1>1, <1>3, <2>1 DEF Push
<1> QED
  BY <1>2, <1>3

IInv == TypeOK /\ Accounting

LEMMA Constants == Stamps \subseteq Int /\ Window \in Nat \ {0} /\ None \notin Stamps
  BY PairingAssumption

(* Every stream's statistics count the message and keep their window.       *)
LEMMA StatsStep ==
  ASSUME NEW s \in Streams, NEW stamp \in Stamps, IInv, updateStreamStats(s, stamp)
  PROVE  /\ stats' \in [Streams -> [message_count : Nat, non_monotonic_count : Nat,
                             previous_stamp : Stamps \cup {None}, dt_history : Seq(Int)]]
         /\ \A x \in Streams :
               /\ stats'[x].message_count = stats[x].message_count + (IF x = s THEN 1 ELSE 0)
               /\ Len(stats'[x].dt_history) <= Window
<1> DEFINE old == stats[s]
           new == stats'[s]
<1>1. /\ stats \in [Streams -> [message_count : Nat, non_monotonic_count : Nat,
                               previous_stamp : Stamps \cup {None}, dt_history : Seq(Int)]]
      /\ \A x \in Streams : Len(stats[x].dt_history) <= Window
  BY DEF IInv, TypeOK, Accounting, WindowsRespected
<1>2. PICK count, dts :
        /\ stats' = [stats EXCEPT ![s] =
                       [message_count |-> old.message_count + 1, non_monotonic_count |-> count,
                        previous_stamp |-> stamp, dt_history |-> dts]]
        /\ count = old.non_monotonic_count
             + IF old.previous_stamp # None /\ stamp <= old.previous_stamp THEN 1 ELSE 0
        /\ dts = IF old.previous_stamp # None /\ old.previous_stamp < stamp
                 THEN Push(old.dt_history, stamp - old.previous_stamp)
                 ELSE old.dt_history
  BY DEF updateStreamStats
<1>3. count \in Nat
  BY <1>1, <1>2
<1>4. dts \in Seq(Int) /\ Len(dts) <= Window
  <2>1. CASE old.previous_stamp # None /\ old.previous_stamp < stamp
    <3>1. stamp - old.previous_stamp \in Int
      <4>1. old.previous_stamp \in Stamps
        BY <1>1, <2>1
      <4>2. old.previous_stamp \in Int /\ stamp \in Int
        BY <4>1, Constants
      <4> QED
        BY <4>2
    <3>2. old.dt_history \in Seq(Int) /\ Len(old.dt_history) <= Window
      BY <1>1
    <3>3. dts = Push(old.dt_history, stamp - old.previous_stamp)
      BY <1>2, <2>1
    <3> QED
      BY <3>1, <3>2, <3>3, PushProperties
  <2>2. CASE ~(old.previous_stamp # None /\ old.previous_stamp < stamp)
    BY <1>1, <1>2, <2>2
  <2> QED
    BY <2>1, <2>2
<1> QED
  BY <1>1, <1>2, <1>3, <1>4

(* The part of each queue a backward stamp spares, with what it discards,   *)
(* is the whole queue.                                                      *)
LEMMA KeptQueues ==
  ASSUME NEW s \in Sides, NEW stamp \in Stamps, IInv, NEW x \in Sides
  PROVE  LET kept == IF Backward(s, stamp) THEN <<>> ELSE stamp_queue[x]
         IN  /\ kept \in Seq(Stamps) /\ Len(kept) \in Nat /\ Len(kept) <= Window
             /\ Cleared(s, stamp)[x] \in Nat
             /\ Cleared(s, stamp)[x] + Len(kept) = Len(stamp_queue[x])
<1>1. /\ stamp_queue[x] \in Seq(Stamps) /\ Len(stamp_queue[x]) \in Nat
      /\ Len(stamp_queue[x]) <= Window
  BY LenProperties DEF IInv, TypeOK, Accounting, WindowsRespected
<1>2. <<>> \in Seq(Stamps) /\ Len(<<>>) = 0 /\ Window \in Nat
  BY PairingAssumption
<1> QED
  BY <1>1, <1>2 DEF Cleared


(* A left or right image: the three ways its callback may end.              *)
LEMMA ImageStep ==
  ASSUME NEW s \in Sides, NEW stamp \in Stamps, IInv, imageCallback(s, stamp)
  PROVE  IInv'
<1> DEFINE o == Other(s)
           own == IF Backward(s, stamp) THEN <<>> ELSE stamp_queue[s]
           other == IF Backward(s, stamp) THEN <<>> ELSE stamp_queue[o]
           stale == Stale(other, stamp)
           rest == SubSeq(other, stale + 1, Len(other))
           full == Len(own) = Window
           cleared == Cleared(s, stamp)
<1>1. s \in Streams /\ o \in Sides /\ o # s /\ Sides = {s, o}
  BY DEF Other, Sides, Streams
<1>2. /\ own \in Seq(Stamps) /\ Len(own) \in Nat /\ Len(own) <= Window
      /\ other \in Seq(Stamps) /\ Len(other) \in Nat /\ Len(other) <= Window
      /\ cleared[s] \in Nat /\ cleared[s] + Len(own) = Len(stamp_queue[s])
      /\ cleared[o] \in Nat /\ cleared[o] + Len(other) = Len(stamp_queue[o])
  BY <1>1, KeptQueues
<1>3. own = <<>> \/ other = <<>>
  BY <1>1 DEF IInv, Accounting, OneSideWaits
<1>4. stale \in 0..Len(other)
  BY <1>2, StaleBounds
<1>5. rest \in Seq(Stamps) /\ Len(rest) = Len(other) - stale
  BY <1>2, <1>4, DropFirst
<1>6. /\ stats' \in [Streams -> [message_count : Nat, non_monotonic_count : Nat,
                               previous_stamp : Stamps \cup {None}, dt_history : Seq(Int)]]
      /\ \A x \in Streams :
            /\ stats'[x].message_count = stats[x].message_count + (IF x = s THEN 1 ELSE 0)
            /\ Len(stats'[x].dt_history) <= Window
  BY <1>1, StatsStep DEF imageCallback
<1>7. latest_stamp' \in [Sides -> Stamps \cup {None}]
  BY DEF IInv, TypeOK, imageCallback, enqueueStereoStamp
<1>8. /\ stereo_pair_count \in Nat /\ unmatched_count \in [Sides -> Nat]
      /\ stamp_queue \in [Sides -> Seq(Stamps)]
      /\ stereo_dt_history \in Seq(Int) /\ Len(stereo_dt_history) <= Window
      /\ Window \in Nat \ {0} /\ Stamps \subseteq Int
      /\ \A x \in Sides : /\ stats[x].message_count \in Nat
                          /\ stats[x].message_count =
                               stereo_pair_count + unmatched_count[x] + Len(stamp_queue[x])
  BY PairingAssumption DEF IInv, TypeOK, Accounting, EveryStampAccounted, WindowsRespected,
     Sides, Streams
<1> HIDE DEF o, own, other, stale, rest, full, cleared
<1>14. /\ Len(own) \in Nat /\ Len(other) \in Nat
       /\ cleared[s] \in Nat /\ cleared[s] + Len(own) = Len(stamp_queue[s])
       /\ cleared[o] \in Nat /\ cleared[o] + Len(other) = Len(stamp_queue[o])
  BY <1>2
<1>15. /\ stereo_pair_count \in Nat
       /\ \A x \in Sides :
             /\ unmatched_count[x] \in Nat /\ stats[x].message_count \in Nat
             /\ stats[x].message_count =
                  stereo_pair_count + unmatched_count[x] + Len(stamp_queue[x])
  BY <1>8
\* It is enough that a way to end leaves the queues and the figures right.
<1>9. ASSUME NEW q, NEW r, NEW lost_own \in Nat, NEW lost_other \in Nat, NEW made,
             Leaves(s, stamp, q, r, lost_own, lost_other, made),
             q \in Seq(Stamps), r \in Seq(Stamps),
             Len(q) \in Nat, Len(r) \in Nat, Len(q) <= Window, Len(r) <= Window,
             q = <<>> \/ r = <<>>,
             made = <<>> \/ (Len(made) = 1 /\ made[1][1] - made[1][2] \in Int),
             Len(made) + lost_own + Len(q) = Len(own) + 1,
             Len(made) + lost_other + Len(r) = Len(other)
      PROVE  IInv'
  <2>1. /\ stamp_queue' = [stamp_queue EXCEPT ![s] = q, ![o] = r]
        /\ stereo_pair_count' = stereo_pair_count + Len(made)
        /\ stereo_dt_history' = IF made = <<>> THEN stereo_dt_history
                                ELSE Push(stereo_dt_history, made[1][1] - made[1][2])
        /\ unmatched_count' = [x \in Sides |-> unmatched_count[x] + cleared[x]
                                                 + IF x = s THEN lost_own ELSE lost_other]
    BY <1>9 DEF Leaves, o, cleared
  <2>2. Len(made) \in 0..1
    <3>1. Len(<<>>) = 0
      OBVIOUS
    <3> QED
      BY <1>9, <3>1
  <2>12. /\ Len(q) \in Nat /\ Len(r) \in Nat /\ lost_own \in Nat /\ lost_other \in Nat
         /\ Len(made) + lost_own + Len(q) = Len(own) + 1
         /\ Len(made) + lost_other + Len(r) = Len(other)
    BY <1>9
  <2>3. stereo_dt_history' \in Seq(Int) /\ Len(stereo_dt_history') <= Window
    <3>1. CASE made = <<>>
      BY <1>8, <2>1, <3>1
    <3>2. CASE made # <<>>
      BY <1>8, <1>9, <2>1, <3>2, PushProperties
    <3> QED
      BY <3>1, <3>2
  <2>4. /\ stamp_queue' \in [Sides -> Seq(Stamps)]
        /\ stamp_queue'[s] = q /\ stamp_queue'[o] = r
    BY <1>1, <1>8, <1>9, <2>1
  <2>5. /\ unmatched_count' \in [Sides -> Nat]
        /\ unmatched_count'[s] = unmatched_count[s] + cleared[s] + lost_own
        /\ unmatched_count'[o] = unmatched_count[o] + cleared[o] + lost_other
    <3>1. unmatched_count[s] \in Nat /\ unmatched_count[o] \in Nat
      BY <1>1, <1>8
    <3>2. \A x \in Sides : unmatched_count'[x] = unmatched_count[x] + cleared[x]
                                                 + IF x = s THEN lost_own ELSE lost_other
      BY <2>1
    <3>3. /\ unmatched_count'[s] = unmatched_count[s] + cleared[s] + lost_own
          /\ unmatched_count'[o] = unmatched_count[o] + cleared[o] + lost_other
      BY <1>1, <3>2
    <3>4. unmatched_count'[s] \in Nat /\ unmatched_count'[o] \in Nat
      <4>1. cleared[s] \in Nat /\ cleared[o] \in Nat /\ lost_own \in Nat /\ lost_other \in Nat
        BY <1>9, <1>14
      <4> QED
        BY <3>1, <3>3, <4>1
    <3>5. \A x \in Sides : unmatched_count'[x] \in Nat
      BY <1>1, <3>4
    <3>6. unmatched_count' = [x \in Sides |-> unmatched_count'[x]]
      BY <2>1
    <3> QED
      BY <3>3, <3>5, <3>6
  <2>6. stereo_pair_count' \in Nat
    BY <1>8, <2>1, <2>2
  <2>7. TypeOK'
    BY <1>6, <1>7, <2>3, <2>4, <2>5, <2>6 DEF TypeOK
  <2>8. stats'[s].message_count = stereo_pair_count' + unmatched_count'[s] + Len(stamp_queue'[s])
    <3>1. stats'[s].message_count = stats[s].message_count + 1
      BY <1>1, <1>6
    <3>2. stats[s].message_count = stereo_pair_count + unmatched_count[s] + Len(stamp_queue[s])
      BY <1>1, <1>8
    <3>3. unmatched_count[s] \in Nat
      BY <1>1, <1>8
    <3>4. /\ Len(made) \in Nat /\ stereo_pair_count \in Nat /\ stats[s].message_count \in Int
          /\ Len(stamp_queue[s]) \in Nat
      <4>1. Len(made) \in Nat
        BY <2>2
      <4>2. stereo_pair_count \in Nat
        BY <1>15
      <4>3. stats[s].message_count \in Int
        BY <1>1, <1>15
      <4>4. Len(stamp_queue[s]) \in Nat
        BY <1>14
      <4> QED
        BY <4>1, <4>2, <4>3, <4>4
    <3>5. stats[s].message_count + 1
            = (stereo_pair_count + Len(made)) + (unmatched_count[s] + cleared[s] + lost_own) + Len(q)
      <4>1. cleared[s] \in Nat /\ lost_own \in Nat /\ Len(q) \in Nat /\ Len(own) \in Nat
        BY <1>14, <2>12
      <4>2. Len(made) + lost_own + Len(q) + cleared[s] = Len(stamp_queue[s]) + 1
        <5>1. Len(made) + lost_own + Len(q) = Len(own) + 1
          BY <2>12
        <5>2. cleared[s] + Len(own) = Len(stamp_queue[s])
          BY <1>14
        <5> QED
          BY <3>4, <4>1, <5>1, <5>2
      <4>3. stats[s].message_count = stereo_pair_count + unmatched_count[s] + Len(stamp_queue[s])
        BY <3>2
      <4>5. PICK m, c, u, w, d, l, x, y :
                /\ m = stats[s].message_count /\ c = stereo_pair_count /\ u = unmatched_count[s]
                /\ w = Len(stamp_queue[s]) /\ d = cleared[s]
                /\ l = lost_own /\ x = Len(made) /\ y = Len(q)
        OBVIOUS
      <4>6. /\ m \in Int /\ c \in Int /\ u \in Int /\ w \in Int /\ d \in Int
            /\ l \in Int /\ x \in Int /\ y \in Int
        BY <3>3, <3>4, <4>1, <4>5
      <4>7. m = c + u + w /\ x + l + y + d = w + 1
        BY <4>2, <4>3, <4>5
      <4>8. m + 1 = (c + x) + (u + d + l) + y
        BY <4>6, <4>7
      <4> QED
        BY <4>5, <4>8
    <3> QED
      BY <2>1, <2>4, <2>5, <3>1, <3>5
  <2>9. stats'[o].message_count = stereo_pair_count' + unmatched_count'[o] + Len(stamp_queue'[o])
    <3>1. o \in Streams
      BY <1>1 DEF Streams
    <3>2. stats'[o].message_count = stats[o].message_count
      <4>1. stats'[o].message_count = stats[o].message_count + 0
        BY <1>1, <1>6, <3>1
      <4>2. PICK m \in Nat : m = stats[o].message_count
        BY <1>1, <1>15
      <4>3. m + 0 = m
        OBVIOUS
      <4> QED
        BY <4>1, <4>2, <4>3
    <3>3. stats[o].message_count = stereo_pair_count + unmatched_count[o] + Len(stamp_queue[o])
      BY <1>1, <1>8
    <3>4. unmatched_count[o] \in Nat
      BY <1>1, <1>8
    <3>5. /\ Len(made) \in Nat /\ stereo_pair_count \in Nat /\ stats[o].message_count \in Int
          /\ Len(stamp_queue[o]) \in Nat
      <4>1. Len(made) \in Nat
        BY <2>2
      <4>2. stereo_pair_count \in Nat
        BY <1>15
      <4>3. stats[o].message_count \in Int
        BY <1>1, <1>15
      <4>4. Len(stamp_queue[o]) \in Nat
        BY <1>14
      <4> QED
        BY <4>1, <4>2, <4>3, <4>4
    <3>7. stats[o].message_count + 0
            = (stereo_pair_count + Len(made)) + (unmatched_count[o] + cleared[o] + lost_other) + Len(r)
      <4>1. cleared[o] \in Nat /\ lost_other \in Nat /\ Len(r) \in Nat /\ Len(other) \in Nat
        BY <1>14, <2>12
      <4>2. Len(made) + lost_other + Len(r) = Len(other) /\ cleared[o] + Len(other) = Len(stamp_queue[o])
        BY <1>14, <2>12
      <4>3. stats[o].message_count = stereo_pair_count + unmatched_count[o] + Len(stamp_queue[o])
        BY <3>3
      <4>5. PICK m, c, u, w, d, n, l, x, y :
                /\ m = stats[o].message_count /\ c = stereo_pair_count /\ u = unmatched_count[o]
                /\ w = Len(stamp_queue[o]) /\ d = cleared[o] /\ n = Len(other)
                /\ l = lost_other /\ x = Len(made) /\ y = Len(r)
        OBVIOUS
      <4>6. /\ m \in Int /\ c \in Int /\ u \in Int /\ w \in Int /\ d \in Int
            /\ n \in Int /\ l \in Int /\ x \in Int /\ y \in Int
        BY <3>4, <3>5, <4>1, <4>5
      <4>7. m = c + u + w /\ x + l + y = n /\ d + n = w
        BY <4>2, <4>3, <4>5
      <4>8. m + 0 = (c + x) + (u + d + l) + y
        BY <4>6, <4>7
      <4> QED
        BY <4>5, <4>8
    <3> QED
      BY <2>1, <2>4, <2>5, <3>2, <3>5, <3>7
  <2>10. EveryStampAccounted'
    BY <1>1, <2>8, <2>9 DEF EveryStampAccounted
  <2>11. OneSideWaits' /\ WindowsRespected'
    BY <1>1, <1>6, <1>9, <2>3, <2>4 DEF OneSideWaits, WindowsRespected
  <2> QED
    BY <2>7, <2>10, <2>11 DEF IInv, Accounting
<1>10. CASE /\ rest = <<>>
            /\ Leaves(s, stamp, Push(own, stamp), rest, IF full THEN 1 ELSE 0, stale, <<>>)
  <2>1. /\ Push(own, stamp) \in Seq(Stamps) /\ Len(Push(own, stamp)) <= Window
        /\ Len(Push(own, stamp)) = IF Len(own) = Window THEN Window ELSE Len(own) + 1
    BY <1>2, PushProperties
  <2>2. Len(Push(own, stamp)) \in Nat
    BY <1>2, <1>8, <2>1
  <2>3. Len(rest) = 0 /\ Len(<<>>) = 0 /\ rest \in Seq(Stamps)
    BY <1>5, <1>10
  <2>4. (IF full THEN 1 ELSE 0) + Len(Push(own, stamp)) = Len(own) + 1
    <3>1. CASE Len(own) = Window
      BY <1>8, <2>1, <3>1 DEF full
    <3>2. CASE Len(own) # Window
      BY <1>2, <2>1, <3>2 DEF full
    <3> QED
      BY <3>1, <3>2
  <2>5. stale + Len(rest) = Len(other)
    BY <1>2, <1>4, <1>5
  <2> DEFINE lost == IF full THEN 1 ELSE 0
  <2>6. lost \in Nat /\ stale \in Nat
    BY <1>2, <1>4
  <2>7. Leaves(s, stamp, Push(own, stamp), rest, lost, stale, <<>>)
    BY <1>10
  <2>8. Len(<<>>) + lost + Len(Push(own, stamp)) = Len(own) + 1
    BY <2>2, <2>3, <2>4, <2>6
  <2>9. Len(<<>>) + stale + Len(rest) = Len(other)
    BY <2>3, <2>5, <2>6
  <2>10. Len(rest) \in Nat /\ Len(rest) <= Window
    BY <1>8, <2>3
  <2> HIDE DEF lost
  <2> QED
    BY <1>9, <1>10, <2>1, <2>2, <2>3, <2>6, <2>7, <2>8, <2>9, <2>10
<1>11. ASSUME rest # <<>>
       PROVE  /\ own = <<>> /\ Len(own) = 0 /\ rest[1] \in Int
              /\ Len(rest) \in Nat \ {0} /\ Len(rest) <= Window
              /\ Tail(rest) \in Seq(Stamps) /\ Len(Tail(rest)) = Len(rest) - 1
  <2>1. Len(rest) \in Nat /\ Len(rest) # 0
    BY <1>5, <1>11, EmptySeq, LenProperties
  <2>2. other # <<>>
    <3>1. Len(other) # 0
      BY <1>2, <1>4, <1>5, <2>1
    <3> QED
      BY <3>1
  <2>3. own = <<>> /\ Len(own) = 0
    BY <1>3, <2>2
  <2>4. rest[1] \in Stamps
    BY <1>5, <2>1, ElementOfSeq
  <2>5. Len(rest) <= Window
    BY <1>2, <1>4, <1>5, <1>8
  <2>6. Tail(rest) \in Seq(Stamps) /\ Len(Tail(rest)) = Len(rest) - 1
    BY <1>5, <1>11, HeadTailProperties
  <2> QED
    BY <1>8, <2>1, <2>3, <2>4, <2>5, <2>6
<1> DEFINE pair == IF s = "left" THEN <<stamp, rest[1]>> ELSE <<rest[1], stamp>>
<1>12. CASE rest # <<>> /\ Leaves(s, stamp, own, Tail(rest), 0, stale, <<pair>>)
  <2>1. PICK t \in Seq(Stamps) : t = Tail(rest) /\ Len(t) = Len(rest) - 1
    BY <1>11, <1>12
  <2>2. /\ stale \in Nat /\ stale + Len(t) + 1 = Len(other)
        /\ Len(t) \in Nat /\ Len(t) <= Window
    <3>1. /\ stale \in Nat /\ Len(rest) = Len(other) - stale /\ Len(rest) \in Nat \ {0}
          /\ Len(t) = Len(rest) - 1 /\ Len(rest) <= Window /\ Window \in Nat
      BY <1>4, <1>5, <1>8, <1>11, <1>12, <1>14, <2>1
    <3> QED
      BY <1>14, <3>1
  <2> DEFINE made == <<pair>>
  <2>3. made = <<pair>> /\ Len(made) = 1 /\ made[1] = pair
    OBVIOUS
  <2>4. pair[1] - pair[2] \in Int
    BY <1>8, <1>11, <1>12
  <2> HIDE DEF pair, made
  <2>5. made = <<>> \/ (Len(made) = 1 /\ made[1][1] - made[1][2] \in Int)
    BY <2>3, <2>4
  <2>6. Len(made) + 0 + Len(own) = Len(own) + 1 /\ Len(made) + stale + Len(t) = Len(other)
    BY <1>14, <2>2, <2>3
  <2>7. Leaves(s, stamp, own, t, 0, stale, made)
    BY <1>12, <2>1, <2>3
  <2> QED
    BY <1>2, <1>8, <1>9, <1>11, <1>12, <2>2, <2>5, <2>6, <2>7
<1>13. CASE rest # <<>> /\ Leaves(s, stamp, own, rest, 1, stale, <<>>)
  <2>1. Len(<<>>) = 0
    OBVIOUS
  <2>2. stale \in Nat /\ Len(<<>>) + stale + Len(rest) = Len(other)
    BY <1>2, <1>4, <1>5, <2>1
  <2>3. Len(<<>>) + 1 + Len(own) = Len(own) + 1
    BY <1>2, <2>1
  <2> QED
    BY <1>2, <1>5, <1>9, <1>11, <1>13, <2>2, <2>3
<1> QED
  <2>1. \/ /\ rest = <<>>
           /\ Leaves(s, stamp, Push(own, stamp), rest, IF full THEN 1 ELSE 0, stale, <<>>)
        \/ rest # <<>> /\ Leaves(s, stamp, own, Tail(rest), 0, stale, <<pair>>)
        \/ rest # <<>> /\ Leaves(s, stamp, own, rest, 1, stale, <<>>)
    BY DEF imageCallback, enqueueStereoStamp, o, own, other, stale, rest, full
  <2> QED
    BY <1>10, <1>12, <1>13, <2>1

LEMMA ImuStep ==
  ASSUME NEW stamp \in Stamps, IInv, imuCallback(stamp)
  PROVE  IInv'
<1>1. "imu" \in Streams /\ \A s \in Sides : s \in Streams /\ s # "imu"
  BY DEF Streams, Sides
<1>2. /\ stats' \in [Streams -> [message_count : Nat, non_monotonic_count : Nat,
                               previous_stamp : Stamps \cup {None}, dt_history : Seq(Int)]]
      /\ \A x \in Streams :
            /\ stats'[x].message_count = stats[x].message_count + (IF x = "imu" THEN 1 ELSE 0)
            /\ Len(stats'[x].dt_history) <= Window
  BY <1>1, StatsStep DEF imuCallback
<1>3. \A x \in Sides : stats'[x].message_count = stats[x].message_count
  BY <1>1, <1>2 DEF IInv, TypeOK
<1>4. UNCHANGED pairing
  BY DEF imuCallback
<1> QED
  BY <1>2, <1>3, <1>4
  DEF IInv, TypeOK, Accounting, EveryStampAccounted, OneSideWaits, WindowsRespected, pairing

LEMMA InvariantHolds == Spec => []IInv
<1>1. Init => IInv
  <2> SUFFICES ASSUME Init PROVE IInv
    OBVIOUS
  <2>1. <<>> \in Seq(Stamps) /\ <<>> \in Seq(Int) /\ Len(<<>>) = 0 /\ Window \in Nat
    BY Constants
  <2>2. /\ stats = [s \in Streams |-> [message_count |-> 0, non_monotonic_count |-> 0,
                                      previous_stamp |-> None, dt_history |-> <<>>]]
        /\ stamp_queue = [s \in Sides |-> <<>>] /\ unmatched_count = [s \in Sides |-> 0]
        /\ latest_stamp = [s \in Sides |-> None]
        /\ stereo_pair_count = 0 /\ stereo_dt_history = <<>>
    BY DEF Init
  <2>3. TypeOK
    BY <2>1, <2>2 DEF TypeOK
  <2>4. \A s \in Sides : s \in Streams
    BY DEF Sides, Streams
  <2>5. EveryStampAccounted /\ WindowsRespected
    BY <2>1, <2>2, <2>4 DEF EveryStampAccounted, WindowsRespected
  <2>6. OneSideWaits
    BY <2>2 DEF OneSideWaits, Sides
  <2> QED
    BY <2>3, <2>5, <2>6 DEF IInv, Accounting
<1>2. IInv /\ [Next]_vars => IInv'
  <2> SUFFICES ASSUME IInv, [Next]_vars PROVE IInv'
    OBVIOUS
  <2>1. CASE Next
    BY <2>1, ImageStep, ImuStep DEF Next
  <2>2. CASE UNCHANGED vars
    BY <2>2 DEF IInv, TypeOK, Accounting, EveryStampAccounted, OneSideWaits, WindowsRespected,
       vars, pairing
  <2> QED
    BY <2>1, <2>2
<1> QED
  BY <1>1, <1>2, PTL DEF Spec

(* Types, for every instance.                                               *)
THEOREM TypeInvariant == Spec => []TypeOK
<1>1. IInv => TypeOK
  BY DEF IInv
<1> QED
  BY <1>1, InvariantHolds, PTL

(* The reported figures of each side add up to the images received, stamps  *)
(* wait on one side only, and no history outgrows its window: for every     *)
(* window, tolerance, and order and content of the messages.                *)
THEOREM FiguresAddUp == Spec => []Accounting
<1>1. IInv => Accounting
  BY DEF IInv
<1> QED
  BY <1>1, InvariantHolds, PTL

-----------------------------------------------------------------------------
(* A set of natural numbers has a least one.                                *)
LEMMA LeastNatural ==
  ASSUME NEW T \in SUBSET Nat, T # {}
  PROVE  \E x \in T : \A y \in T : x <= y
<1>1. OpToRel(<, Nat) = {p \in Nat \X Nat : p[1] < p[2]}
  BY Zenon DEF OpToRel
<1>2. IsWellFoundedOn({p \in Nat \X Nat : p[1] < p[2]}, Nat)
  BY <1>1, NatLessThanWellFounded, Zenon
<1> DEFINE R == {p \in Nat \X Nat : p[1] < p[2]}
<1> HIDE DEF R
<1>3. PICK x \in T : \A y \in T : ~ (<<y, x>> \in R)
  BY <1>2, WFMin DEF R
<1>4. \A y \in T : y < x => <<y, x>> \in R
  BY DEF R
<1>5. \A y \in T : ~(y < x)
  BY <1>3, <1>4, Zenon
<1> QED
  BY <1>5

(* Stale counts a prefix: the stamps up to there are too old, and the next  *)
(* one is not.                                                              *)
LEMMA StaleIsPrefix ==
  ASSUME NEW q \in Seq(Int), NEW stamp \in Int
  PROVE  /\ Stale(q, stamp) \in 0..Len(q)
         /\ \A j \in 1..Stale(q, stamp) : stamp - q[j] > Tolerance
         /\ Stale(q, stamp) < Len(q) => stamp - q[Stale(q, stamp) + 1] <= Tolerance
<1> DEFINE T == {i \in 1..Len(q) : \A j \in 1..i : stamp - q[j] > Tolerance}
           Fresh == {i \in 1..Len(q) : stamp - q[i] <= Tolerance}
<1>s. Stale(q, stamp) = Cardinality(T)
  BY DEF Stale
<1>1. Len(q) \in Nat /\ Tolerance \in Nat /\ \A i \in 1..Len(q) : q[i] \in Int
  BY LenProperties, ElementOfSeq, PairingAssumption
<1>2. CASE Fresh = {}
  <2>1. \A i \in 1..Len(q) : stamp - q[i] > Tolerance
    BY <1>1, <1>2
  <2>2. T = 1..Len(q)
    BY <1>1, <2>1
  <2>3. Stale(q, stamp) = Len(q)
    <3>1. PICK n \in Nat : n = Len(q)
      BY <1>1
    <3>2. 0 <= n /\ 1 \in Int /\ n \in Int
      BY <3>1
    <3>3. Cardinality(1..n) = n
      BY <3>2, FS_Interval
    <3> HIDE DEF T
    <3> QED
      BY <1>s, <2>2, <3>1, <3>3
  <2> QED
    BY <1>1, <2>1, <2>3
<1>3. CASE Fresh # {}
  <2>1. PICK k \in Fresh : \A y \in Fresh : k <= y
    <3>1. Fresh \in SUBSET Nat
      OBVIOUS
    <3> HIDE DEF Fresh
    <3> QED
      BY <1>3, <3>1, LeastNatural
  <2>2. k \in 1..Len(q) /\ stamp - q[k] <= Tolerance
    BY <2>1
  <2>3. \A i \in 1..(k - 1) : stamp - q[i] > Tolerance
    <3> SUFFICES ASSUME NEW i \in 1..(k - 1) PROVE stamp - q[i] > Tolerance
      OBVIOUS
    <3>1. i \in 1..Len(q) /\ i \in Nat /\ k \in Nat /\ i < k
      BY <1>1, <2>2
    <3>2. i \notin Fresh
      <4> HIDE DEF Fresh
      <4> QED
        BY <2>1, <3>1
    <3> QED
      BY <1>1, <3>1, <3>2
  <2>4. T = 1..(k - 1)
    BY <1>1, <2>2, <2>3
  <2>5. Stale(q, stamp) = k - 1
    <3>1. k - 1 \in Nat
      BY <1>1, <2>2
    <3>2. Cardinality(1..(k - 1)) = k - 1
      BY <3>1, FS_Interval
    <3> HIDE DEF T
    <3> QED
      BY <1>s, <2>4, <3>2
  <2>6. k - 1 + 1 = k /\ k - 1 \in 0..Len(q)
    BY <1>1, <2>2
  <2> QED
    BY <2>2, <2>3, <2>5, <2>6
<1> QED
  BY <1>2, <1>3

(* Stamps that do not go back, spaced from one to the next, are spaced from *)
(* any one to any later one.                                                *)
LEMMA SpacedApart ==
  ASSUME NEW q \in Seq(Int), Spaced(q),
         \A i, j \in 1..Len(q) : i <= j => q[i] <= q[j]
  PROVE  \A i, j \in 1..Len(q) : i < j => q[j] - q[i] > 2 * Tolerance
<1>1. Len(q) \in Nat /\ \A i \in 1..Len(q) : q[i] \in Int
  BY LenProperties, ElementOfSeq
<1>2. SUFFICES ASSUME NEW i \in 1..Len(q), NEW j \in 1..Len(q), i < j
               PROVE  q[j] - q[i] > 2 * Tolerance
  OBVIOUS
<1>3. i \in 1..(Len(q) - 1) /\ i + 1 \in 1..Len(q) /\ i + 1 <= j
  BY <1>1, <1>2
<1>4. q[i + 1] - q[i] > 2 * Tolerance /\ q[i + 1] <= q[j]
  BY <1>3 DEF Spaced
<1>5. q[i] \in Int /\ q[i + 1] \in Int /\ q[j] \in Int /\ 2 * Tolerance \in Int
  BY <1>1, <1>3, PairingAssumption
<1> QED
  BY <1>4, <1>5

-----------------------------------------------------------------------------
(* The stamps since the last reset do not go back, and the waiting ones are *)
(* the last of them.                                                        *)
EpochOf(s) ==
    /\ epoch[s] \in Seq(Stamps)
    /\ Len(stamp_queue[s]) <= Len(epoch[s])
    /\ \A i \in 1..Len(stamp_queue[s]) :
          stamp_queue[s][i] = epoch[s][Len(epoch[s]) - Len(stamp_queue[s]) + i]
    /\ \A i, j \in 1..Len(epoch[s]) : i <= j => epoch[s][i] <= epoch[s][j]
    /\ epoch[s] # <<>> => latest_stamp[s] = epoch[s][Len(epoch[s])]

EpochInv == epoch \in [Sides -> Seq(Stamps)] /\ \A s \in Sides : EpochOf(s)

\* The assumption of line 170, and no stamp lost to a full queue.
Assumed == ~overflowed /\ \A s \in Sides : Spaced(epoch[s])

\* A stamp that waits no more has been compared with one of the other side
\* that reaches up to it: every later one of that side is too new for it.
Answered(s) ==
    \A i \in 1..(Len(epoch[s]) - Len(stamp_queue[s])) :
        \E j \in 1..Len(epoch[Other(s)]) : epoch[s][i] - epoch[Other(s)][j] <= Tolerance

Oriented(s, x, y) == IF s = "left" THEN <<x, y>> ELSE <<y, x>>

\* P holds the pairs within the tolerance of E's two sides, seen from side s.
ExactFor(s, E, P) ==
    /\ \A p \in P : \E i \in 1..Len(E[s]), j \in 1..Len(E[Other(s)]) :
          p = Oriented(s, E[s][i], E[Other(s)][j]) /\ Within(E[s][i], E[Other(s)][j])
    /\ \A i \in 1..Len(E[s]), j \in 1..Len(E[Other(s)]) :
          Within(E[s][i], E[Other(s)][j]) => Oriented(s, E[s][i], E[Other(s)][j]) \in P

MatchInv ==
    Assumed => /\ \A s \in Sides : Answered(s)
               /\ \A s \in Sides : ExactFor(s, epoch, pairs)

(* Which side one looks from does not matter.                               *)
LEMMA ExactIsSymmetric ==
  ASSUME NEW E, NEW P, NEW s \in Sides, ExactFor(s, E, P)
  PROVE  \A x \in Sides : ExactFor(x, E, P)
<1> DEFINE o == Other(s)
<1>1. /\ o \in Sides /\ o # s /\ Sides = {s, o} /\ Other(o) = s
      /\ \A x, y : Oriented(o, y, x) = Oriented(s, x, y)
      /\ \A x, y : Within(y, x) <=> Within(x, y)
  BY DEF Other, Sides, Oriented, Within
<1>2. ExactFor(o, E, P)
  <2>1. \A p \in P : \E i \in 1..Len(E[o]), j \in 1..Len(E[s]) :
          p = Oriented(o, E[o][i], E[s][j]) /\ Within(E[o][i], E[s][j])
    <3> SUFFICES ASSUME NEW p \in P
                 PROVE  \E i \in 1..Len(E[o]), j \in 1..Len(E[s]) :
                           p = Oriented(o, E[o][i], E[s][j]) /\ Within(E[o][i], E[s][j])
      OBVIOUS
    <3>1. PICK i \in 1..Len(E[s]), j \in 1..Len(E[o]) :
            p = Oriented(s, E[s][i], E[o][j]) /\ Within(E[s][i], E[o][j])
      BY Zenon DEF ExactFor
    <3>2. p = Oriented(o, E[o][j], E[s][i]) /\ Within(E[o][j], E[s][i])
      BY <1>1, <3>1, Zenon
    <3> QED
      BY <3>2, Zenon
  <2>2. \A i \in 1..Len(E[o]), j \in 1..Len(E[s]) :
          Within(E[o][i], E[s][j]) => Oriented(o, E[o][i], E[s][j]) \in P
    BY <1>1, Zenon DEF ExactFor
  <2> QED
    BY <1>1, <2>1, <2>2, Zenon DEF ExactFor
<1> QED
  BY <1>1, <1>2, Zenon

-----------------------------------------------------------------------------
\* An image that is not behind its stream, when n waiting stamps of the other
\* side are too old for it: it waits itself, is paired with the next one, or
\* is too old for that.
Waits(s, stamp, n) ==
    /\ n = Len(stamp_queue[Other(s)])
    /\ stamp_queue' = [stamp_queue EXCEPT ![s] = Push(stamp_queue[s], stamp), ![Other(s)] = <<>>]
    /\ pairs' = pairs

Pairs(s, stamp, n) ==
    LET other == stamp_queue[Other(s)] IN
    /\ n < Len(other) /\ stamp_queue[s] = <<>>
    /\ other[n + 1] - stamp <= Tolerance
    /\ stamp_queue' = [stamp_queue EXCEPT ![s] = <<>>,
                                          ![Other(s)] = SubSeq(other, n + 2, Len(other))]
    /\ pairs' = pairs \cup {Oriented(s, stamp, other[n + 1])}

Drops(s, stamp, n) ==
    LET other == stamp_queue[Other(s)] IN
    /\ n < Len(other) /\ stamp_queue[s] = <<>>
    /\ other[n + 1] - stamp > Tolerance
    /\ stamp_queue' = [stamp_queue EXCEPT ![s] = <<>>,
                                          ![Other(s)] = SubSeq(other, n + 1, Len(other))]
    /\ pairs' = pairs

(* A part of a sequence, position by position.                              *)
LEMMA Rest ==
  ASSUME NEW S, NEW q \in Seq(S), NEW n \in 0..Len(q)
  PROVE  /\ SubSeq(q, n + 1, Len(q)) \in Seq(S)
         /\ Len(SubSeq(q, n + 1, Len(q))) = Len(q) - n
         /\ \A i \in 1..(Len(q) - n) : SubSeq(q, n + 1, Len(q))[i] = q[n + i]
<1>1. Len(q) \in Nat /\ n \in Nat /\ n + 1 \in Nat
  BY LenProperties
<1>2. \A i \in (n + 1)..Len(q) : q[i] \in S
  BY <1>1, ElementOfSeq
<1>3. /\ SubSeq(q, n + 1, Len(q)) \in Seq(S)
      /\ Len(SubSeq(q, n + 1, Len(q))) = IF n + 1 <= Len(q) THEN Len(q) - (n + 1) + 1 ELSE 0
      /\ \A i \in 1..(Len(q) - (n + 1) + 1) : SubSeq(q, n + 1, Len(q))[i] = q[n + 1 + i - 1]
  BY <1>1, <1>2, SubSeqProperties
<1>4. \A i \in 1..(Len(q) - n) : n + 1 + i - 1 = n + i
  BY <1>1
<1> QED
  BY <1>1, <1>3, <1>4

(* The three ways a callback may end, read off its code.                    *)
LEMMA CallbackEnds ==
  ASSUME NEW s \in Sides, NEW stamp \in Stamps, IInv, imageCallback(s, stamp),
         ~Backward(s, stamp)
  PROVE  LET other == stamp_queue[Other(s)]
             n == Stale(other, stamp)
         IN  /\ n \in 0..Len(other)
             /\ \A j \in 1..n : stamp - other[j] > Tolerance
             /\ n < Len(other) => stamp - other[n + 1] <= Tolerance
             /\ Waits(s, stamp, n) \/ Pairs(s, stamp, n) \/ Drops(s, stamp, n)
<1> DEFINE o == Other(s)
           own == stamp_queue[s]
           other == stamp_queue[o]
           n == Stale(other, stamp)
           rest == SubSeq(other, n + 1, Len(other))
<1>1. o \in Sides /\ o # s /\ Sides = {s, o}
  BY DEF Other, Sides
<1>2. own \in Seq(Stamps) /\ other \in Seq(Stamps) /\ stamp \in Int /\ Stamps \subseteq Int
  BY <1>1, PairingAssumption DEF IInv, TypeOK
<1>3. other \in Seq(Int)
  BY <1>2, SeqMonotonic
<1>4. /\ n \in 0..Len(other)
      /\ \A j \in 1..n : stamp - other[j] > Tolerance
      /\ n < Len(other) => stamp - other[n + 1] <= Tolerance
  BY <1>2, <1>3, StaleIsPrefix
<1>5. own = <<>> \/ other = <<>>
  BY <1>1 DEF IInv, Accounting, OneSideWaits
<1>6. Len(other) \in Nat /\ n \in Nat
  BY <1>2, <1>4, LenProperties
<1>7. /\ rest \in Seq(Stamps) /\ Len(rest) = Len(other) - n
      /\ \A i \in 1..(Len(other) - n) : rest[i] = other[n + i]
  BY <1>2, <1>4, Rest
<1> DEFINE pair == IF s = "left" THEN <<stamp, rest[1]>> ELSE <<rest[1], stamp>>
<1>8. \/ /\ rest = <<>>
         /\ Leaves(s, stamp, Push(own, stamp), rest, IF Len(own) = Window THEN 1 ELSE 0, n, <<>>)
      \/ /\ rest # <<>> /\ rest[1] - stamp <= Tolerance
         /\ Leaves(s, stamp, own, Tail(rest), 0, n, <<pair>>)
      \/ /\ rest # <<>> /\ rest[1] - stamp > Tolerance
         /\ Leaves(s, stamp, own, rest, 1, n, <<>>)
  BY DEF imageCallback, enqueueStereoStamp
<1>9. ASSUME NEW q, NEW r, NEW a, NEW b, NEW made, Leaves(s, stamp, q, r, a, b, made)
      PROVE  /\ stamp_queue' = [stamp_queue EXCEPT ![s] = q, ![o] = r]
             /\ pairs' = pairs \cup {made[i] : i \in 1..Len(made)}
  BY <1>9 DEF Leaves
<1>10. {<<>>[i] : i \in 1..Len(<<>>)} = {} /\ \A x : {<<x>>[i] : i \in 1..Len(<<x>>)} = {x}
  OBVIOUS
<1> HIDE DEF own, other, n, rest, pair
<1>11. CASE rest = <<>> /\ Leaves(s, stamp, Push(own, stamp), rest,
                                  IF Len(own) = Window THEN 1 ELSE 0, n, <<>>)
  <2>1. n = Len(other)
    BY <1>6, <1>7, <1>11
  <2>2. stamp_queue' = [stamp_queue EXCEPT ![s] = Push(own, stamp), ![o] = <<>>]
        /\ pairs' = pairs
    <3>1. /\ stamp_queue' = [stamp_queue EXCEPT ![s] = Push(own, stamp), ![o] = rest]
          /\ pairs' = pairs \cup {<<>>[i] : i \in 1..Len(<<>>)}
      BY <1>9, <1>11
    <3> QED
      BY <1>10, <1>11, <3>1
  <2>3. Waits(s, stamp, n)
    BY <2>1, <2>2 DEF Waits, own, other
  <2> QED
    BY <1>4, <2>3 DEF other, n
<1>12. ASSUME rest # <<>>
       PROVE  /\ own = <<>> /\ n < Len(other) /\ rest[1] = other[n + 1]
              /\ Tail(rest) = SubSeq(other, n + 2, Len(other))
  <2>1. Len(rest) \in Nat /\ Len(rest) # 0
    BY <1>7, <1>12, EmptySeq, LenProperties
  <2>2. n < Len(other) /\ rest[1] = other[n + 1] /\ Len(other) # 0
    BY <1>6, <1>7, <2>1
  <2>3. own = <<>>
    BY <1>5, <2>2
  <2>4. Tail(rest) = SubSeq(other, n + 2, Len(other))
    <3>1. PICK m \in 1..Len(other) : m = n + 1
      BY <1>6, <2>2
    <3>2. Len(other) \in m..Len(other) /\ m + 1 = n + 2
      BY <1>6, <3>1
    <3>3. Tail(SubSeq(other, m, Len(other))) = SubSeq(other, m + 1, Len(other))
      BY <1>2, <3>2, HeadTailOfSubSeq DEF other
    <3> QED
      BY <3>1, <3>2, <3>3 DEF rest
  <2> QED
    BY <2>2, <2>3, <2>4
<1>13. CASE /\ rest # <<>> /\ rest[1] - stamp <= Tolerance
            /\ Leaves(s, stamp, own, Tail(rest), 0, n, <<pair>>)
  <2>1. stamp_queue' = [stamp_queue EXCEPT ![s] = own, ![o] = Tail(rest)]
        /\ pairs' = pairs \cup {pair}
    <3>1. /\ stamp_queue' = [stamp_queue EXCEPT ![s] = own, ![o] = Tail(rest)]
          /\ pairs' = pairs \cup {<<pair>>[i] : i \in 1..Len(<<pair>>)}
      <4>1. PICK made, q : made = <<pair>> /\ q = Tail(rest)
        OBVIOUS
      <4>2. Leaves(s, stamp, own, q, 0, n, made)
        BY <1>13, <4>1
      <4>3. /\ stamp_queue' = [stamp_queue EXCEPT ![s] = own, ![o] = q]
            /\ pairs' = pairs \cup {made[i] : i \in 1..Len(made)}
        BY <1>9, <4>2, Zenon
      <4> QED
        BY <4>1, <4>3
    <3> QED
      BY <1>10, <3>1
  <2>2. pair = Oriented(s, stamp, other[n + 1])
    BY <1>12, <1>13 DEF Oriented, pair
  <2>3. Pairs(s, stamp, n)
    BY <1>12, <1>13, <2>1, <2>2 DEF Pairs, own, other
  <2> QED
    BY <1>4, <2>3 DEF other, n
<1>14. CASE /\ rest # <<>> /\ rest[1] - stamp > Tolerance
            /\ Leaves(s, stamp, own, rest, 1, n, <<>>)
  <2>1. stamp_queue' = [stamp_queue EXCEPT ![s] = own, ![o] = rest] /\ pairs' = pairs
    <3>1. /\ stamp_queue' = [stamp_queue EXCEPT ![s] = own, ![o] = rest]
          /\ pairs' = pairs \cup {<<>>[i] : i \in 1..Len(<<>>)}
      BY <1>9, <1>14
    <3> QED
      BY <1>10, <3>1
  <2>2. Drops(s, stamp, n)
    BY <1>12, <1>14, <2>1 DEF Drops, own, other, rest
  <2> QED
    BY <1>4, <2>2 DEF other, n
<1> QED
  BY <1>8, <1>11, <1>13, <1>14

(* A stamp that goes back restarts the history: it alone is left, waiting.  *)
LEMMA ResetStep ==
  ASSUME NEW s \in Sides, NEW stamp \in Stamps, IInv, imageCallback(s, stamp),
         Backward(s, stamp), epoch \in [Sides -> Seq(Stamps)]
  PROVE  EpochInv' /\ MatchInv'
<1> DEFINE o == Other(s)
<1>1. o \in Sides /\ o # s /\ Sides = {s, o} /\ Other(o) = s
  BY DEF Other, Sides
<1>2. Stale(<<>>, stamp) = 0 /\ SubSeq(<<>>, 1, 0) = <<>> /\ Len(<<>>) = 0
  <2>1. <<>> \in Seq(Int) /\ stamp \in Int
    BY PairingAssumption
  <2>2. Stale(<<>>, stamp) \in 0..Len(<<>>)
    BY <2>1, StaleIsPrefix
  <2> QED
    BY <2>2
<1>3. Push(<<>>, stamp) = <<stamp>>
  BY PairingAssumption DEF Push
<1>4. Leaves(s, stamp, <<stamp>>, <<>>, IF Len(<<>>) = Window THEN 1 ELSE 0, 0, <<>>)
  <2> DEFINE rest == SubSeq(<<>>, Stale(<<>>, stamp) + 1, Len(<<>>))
  <2>1. \/ rest # <<>>
        \/ Leaves(s, stamp, Push(<<>>, stamp), rest, IF Len(<<>>) = Window THEN 1 ELSE 0,
                  Stale(<<>>, stamp), <<>>)
    BY DEF imageCallback, enqueueStereoStamp
  <2>2. rest = <<>>
    BY <1>2
  <2> HIDE DEF rest
  <2> QED
    BY <1>2, <1>3, <2>1, <2>2
<1>5. stamp_queue' = [stamp_queue EXCEPT ![s] = <<stamp>>, ![o] = <<>>] /\ pairs' = {}
  BY <1>4 DEF Leaves
<1>6. stamp_queue'[s] = <<stamp>> /\ stamp_queue'[o] = <<>>
  BY <1>1, <1>5 DEF IInv, TypeOK
<1>7. epoch' = [x \in Sides |-> <<>> \o (IF x = s THEN <<stamp>> ELSE <<>>)]
  BY DEF imageCallback, enqueueStereoStamp
<1>8. epoch'[s] = <<stamp>> /\ epoch'[o] = <<>> /\ epoch' \in [Sides -> Seq(Stamps)]
  BY <1>1, <1>7
<1>9. latest_stamp'[s] = stamp
  BY DEF IInv, TypeOK, imageCallback, enqueueStereoStamp
<1>10. Len(<<stamp>>) = 1 /\ <<stamp>>[1] = stamp /\ stamp \in Int /\ <<stamp>> # <<>>
  BY PairingAssumption
<1>11. EpochOf(s)'
  BY <1>6, <1>8, <1>9, <1>10 DEF EpochOf
<1>12. EpochOf(o)'
  BY <1>2, <1>6, <1>8 DEF EpochOf
<1>13. Answered(s)' /\ Answered(o)'
  BY <1>1, <1>2, <1>6, <1>8, <1>10 DEF Answered
<1>14. ExactFor(s, epoch', pairs') /\ ExactFor(o, epoch', pairs')
  BY <1>1, <1>2, <1>5, <1>8 DEF ExactFor
<1> QED
  BY <1>1, <1>8, <1>11, <1>12, <1>13, <1>14 DEF EpochInv, MatchInv

(* Otherwise the stamp is added to its side's history, which it does not    *)
(* take back.                                                               *)
LEMMA EpochGrows ==
  ASSUME NEW s \in Sides, NEW stamp \in Stamps, IInv, EpochInv, imageCallback(s, stamp),
         ~Backward(s, stamp)
  PROVE  /\ epoch' \in [Sides -> Seq(Stamps)]
         /\ epoch'[Other(s)] = epoch[Other(s)]
         /\ Len(epoch'[s]) = Len(epoch[s]) + 1
         /\ \A i \in 1..Len(epoch[s]) : epoch'[s][i] = epoch[s][i] /\ epoch[s][i] <= stamp
         /\ epoch'[s][Len(epoch[s]) + 1] = stamp
         /\ latest_stamp'[s] = stamp /\ latest_stamp'[Other(s)] = latest_stamp[Other(s)]
<1> DEFINE o == Other(s)
<1>1. o \in Sides /\ o # s /\ Sides = {s, o}
  BY DEF Other, Sides
<1>2. epoch' = [x \in Sides |-> epoch[x] \o (IF x = s THEN <<stamp>> ELSE <<>>)]
  BY DEF imageCallback, enqueueStereoStamp
<1>3. epoch[s] \in Seq(Stamps) /\ epoch[o] \in Seq(Stamps)
  BY <1>1 DEF EpochInv
<1>4. epoch'[s] = epoch[s] \o <<stamp>> /\ epoch'[o] = epoch[o] \o <<>>
  BY <1>1, <1>2
<1>5. epoch'[o] = epoch[o]
  BY <1>3, <1>4, ConcatEmptySeq
<1>6. epoch'[s] = Append(epoch[s], stamp)
  BY <1>3, <1>4, AppendIsConcat
<1>7. /\ epoch'[s] \in Seq(Stamps) /\ Len(epoch'[s]) = Len(epoch[s]) + 1
      /\ \A i \in 1..Len(epoch[s]) : epoch'[s][i] = epoch[s][i]
      /\ epoch'[s][Len(epoch[s]) + 1] = stamp
  BY <1>3, <1>6, AppendProperties
<1>8. epoch' \in [Sides -> Seq(Stamps)]
  BY <1>1, <1>2, <1>3, <1>5, <1>7
<1>9. latest_stamp' = [latest_stamp EXCEPT ![s] = stamp]
      /\ latest_stamp \in [Sides -> Stamps \cup {None}]
  BY DEF imageCallback, enqueueStereoStamp, IInv, TypeOK
<1>10. ASSUME NEW i \in 1..Len(epoch[s])
       PROVE  epoch[s][i] <= stamp
  <2>1. Len(epoch[s]) \in Nat /\ epoch[s] # <<>> /\ Len(epoch[s]) \in 1..Len(epoch[s])
    BY <1>3, <1>10, LenProperties, EmptySeq
  <2>2. latest_stamp[s] = epoch[s][Len(epoch[s])] /\ epoch[s][i] <= epoch[s][Len(epoch[s])]
    <3>1. EpochOf(s) /\ i <= Len(epoch[s])
      BY <2>1 DEF EpochInv
    <3> QED
      BY <2>1, <3>1 DEF EpochOf
  <2>3. epoch[s][i] \in Int /\ epoch[s][Len(epoch[s])] \in Stamps /\ stamp \in Int
    BY <1>3, <2>1, ElementOfSeq, PairingAssumption
  <2>4. latest_stamp[s] \in Int /\ latest_stamp[s] # None
    BY <2>2, <2>3, PairingAssumption
  <2>5. latest_stamp[s] <= stamp
    BY <2>3, <2>4 DEF Backward
  <2> QED
    BY <2>2, <2>3, <2>4, <2>5
<1> QED
  BY <1>1, <1>5, <1>7, <1>8, <1>9, <1>10

(* And the waiting stamps are still the last ones of each side.             *)
LEMMA EpochStep ==
  ASSUME NEW s \in Sides, NEW stamp \in Stamps, IInv, EpochInv, imageCallback(s, stamp),
         ~Backward(s, stamp)
  PROVE  EpochInv'
<1> DEFINE o == Other(s)
           own == stamp_queue[s]
           other == stamp_queue[o]
           E == epoch[s]
           F == epoch[o]
           G == epoch'[s]
<1>1. o \in Sides /\ o # s /\ Sides = {s, o}
  BY DEF Other, Sides
<1>2. /\ epoch' \in [Sides -> Seq(Stamps)] /\ epoch'[o] = F
      /\ Len(G) = Len(E) + 1
      /\ \A i \in 1..Len(E) : G[i] = E[i] /\ E[i] <= stamp
      /\ G[Len(E) + 1] = stamp
      /\ latest_stamp'[s] = stamp /\ latest_stamp'[o] = latest_stamp[o]
  BY EpochGrows
<1>3. /\ own \in Seq(Stamps) /\ other \in Seq(Stamps) /\ Len(own) \in Nat /\ Len(other) \in Nat
      /\ stamp_queue \in [Sides -> Seq(Stamps)]
  BY <1>1, LenProperties DEF IInv, TypeOK
<1>4. /\ E \in Seq(Stamps) /\ F \in Seq(Stamps) /\ Len(E) \in Nat /\ Len(F) \in Nat
  BY <1>1, LenProperties DEF EpochInv
<1>5. /\ Len(own) <= Len(E)
      /\ \A i \in 1..Len(own) : own[i] = E[Len(E) - Len(own) + i]
      /\ \A i, j \in 1..Len(E) : i <= j => E[i] <= E[j]
      /\ Len(other) <= Len(F)
      /\ \A i \in 1..Len(other) : other[i] = F[Len(F) - Len(other) + i]
      /\ \A i, j \in 1..Len(F) : i <= j => F[i] <= F[j]
      /\ F # <<>> => latest_stamp[o] = F[Len(F)]
  BY <1>1 DEF EpochInv, EpochOf
<1>6. stamp \in Int /\ \A i \in 1..Len(E) : E[i] \in Int
  BY <1>4, ElementOfSeq, PairingAssumption
<1>7. \A i, j \in 1..Len(G) : i <= j => G[i] <= G[j]
  <2> SUFFICES ASSUME NEW i \in 1..Len(G), NEW j \in 1..Len(G), i <= j PROVE G[i] <= G[j]
    OBVIOUS
  <2>1. CASE j \in 1..Len(E)
    <3>1. i \in 1..Len(E) /\ E[i] <= E[j]
      BY <1>4, <1>5, <2>1
    <3> QED
      BY <1>2, <2>1, <3>1
  <2>2. CASE j = Len(E) + 1 /\ i \in 1..Len(E)
    BY <1>2, <2>2
  <2>3. CASE j = Len(E) + 1 /\ i = j
    BY <1>2, <1>6, <2>3
  <2> QED
    BY <1>2, <1>4, <2>1, <2>2, <2>3
<1>8. G # <<>> /\ latest_stamp'[s] = G[Len(G)]
  BY <1>2, <1>4, EmptySeq
<1>9. PICK n \in 0..Len(other) :
         Waits(s, stamp, n) \/ Pairs(s, stamp, n) \/ Drops(s, stamp, n)
  BY CallbackEnds
<1> HIDE DEF o, E, F, G, own, other
\* What is left of the other side is the end of it.
<1>10. ASSUME NEW k \in 0..Len(other), stamp_queue'[o] = SubSeq(other, k + 1, Len(other))
       PROVE  EpochOf(o)'
  <2>1. /\ Len(stamp_queue'[o]) = Len(other) - k
        /\ \A i \in 1..(Len(other) - k) : stamp_queue'[o][i] = other[k + i]
    BY <1>3, <1>10, Rest
  <2>2. \A i \in 1..(Len(other) - k) : stamp_queue'[o][i] = F[Len(F) - (Len(other) - k) + i]
    <3> SUFFICES ASSUME NEW i \in 1..(Len(other) - k)
                 PROVE  stamp_queue'[o][i] = F[Len(F) - (Len(other) - k) + i]
      OBVIOUS
    <3>1. k + i \in 1..Len(other)
          /\ Len(F) - Len(other) + (k + i) = Len(F) - (Len(other) - k) + i
      BY <1>3, <1>4
    <3> QED
      BY <1>5, <2>1, <3>1
  <2>3. Len(stamp_queue'[o]) <= Len(F)
    BY <1>3, <1>4, <1>5, <2>1
  <2> QED
    BY <1>2, <1>4, <1>5, <2>1, <2>2, <2>3 DEF EpochOf
<1>11. ASSUME stamp_queue'[s] = <<>>
       PROVE  EpochOf(s)'
  <2>1. Len(<<>>) = 0
    OBVIOUS
  <2> QED
    BY <1>1, <1>2, <1>4, <1>7, <1>8, <1>11, <2>1 DEF EpochOf, G
<1>12. CASE Waits(s, stamp, n)
  <2>1. stamp_queue'[s] = Push(own, stamp) /\ stamp_queue'[o] = <<>>
    BY <1>1, <1>3, <1>12 DEF Waits, o, own
  <2>2. EpochOf(o)'
    <3>1. SubSeq(other, Len(other) + 1, Len(other)) = <<>>
      BY <1>3, SubSeqEmpty
    <3> QED
      <4>1. Len(other) \in 0..Len(other)
        BY <1>3
      <4> QED
        BY <1>10, <2>1, <3>1, <4>1
  <2>3. EpochOf(s)'
    <3> DEFINE q == stamp_queue'[s]
    <3>1. CASE Len(own) = Window
      <4>1. own # <<>> /\ Len(own) >= 1
        BY <1>3, <3>1, PairingAssumption, EmptySeq
      <4>2. /\ Tail(own) \in Seq(Stamps) /\ Len(Tail(own)) = Len(own) - 1
            /\ \A i \in 1..(Len(own) - 1) : Tail(own)[i] = own[i + 1]
        BY <1>3, <4>1, HeadTailProperties
      <4>3. q = Append(Tail(own), stamp)
        BY <2>1, <3>1 DEF Push
      <4>4. /\ Len(q) = Len(own) /\ q[Len(own)] = stamp
            /\ \A i \in 1..(Len(own) - 1) : q[i] = own[i + 1]
        <5>1. /\ Len(q) = Len(Tail(own)) + 1 /\ q[Len(Tail(own)) + 1] = stamp
              /\ \A i \in 1..Len(Tail(own)) : q[i] = Tail(own)[i]
          BY <4>2, <4>3, AppendProperties
        <5> QED
          BY <1>3, <4>1, <4>2, <5>1
      <4>5. \A i \in 1..Len(q) : q[i] = G[Len(G) - Len(q) + i]
        <5> SUFFICES ASSUME NEW i \in 1..Len(q) PROVE q[i] = G[Len(G) - Len(q) + i]
          OBVIOUS
        <5>1. CASE i = Len(own)
          BY <1>2, <1>3, <1>4, <4>4, <5>1
        <5>2. CASE i \in 1..(Len(own) - 1)
          <6>1. i + 1 \in 1..Len(own) /\ Len(E) - Len(own) + (i + 1) = Len(G) - Len(q) + i
                /\ Len(E) - Len(own) + (i + 1) \in 1..Len(E)
            BY <1>2, <1>3, <1>4, <1>5, <4>4, <5>2
          <6> QED
            BY <1>2, <1>5, <4>4, <5>2, <6>1
        <5> QED
          BY <1>3, <4>1, <4>4, <5>1, <5>2
      <4>6. Len(q) <= Len(G)
        BY <1>2, <1>3, <1>4, <1>5, <4>4
      <4> QED
        BY <1>1, <1>2, <1>7, <1>8, <4>5, <4>6 DEF EpochOf, G
    <3>2. CASE Len(own) # Window
      <4>1. q = Append(own, stamp)
        BY <2>1, <3>2 DEF Push
      <4>2. /\ Len(q) = Len(own) + 1 /\ q[Len(own) + 1] = stamp
            /\ \A i \in 1..Len(own) : q[i] = own[i]
        BY <1>3, <4>1, AppendProperties
      <4>3. \A i \in 1..Len(q) : q[i] = G[Len(G) - Len(q) + i]
        <5> SUFFICES ASSUME NEW i \in 1..Len(q) PROVE q[i] = G[Len(G) - Len(q) + i]
          OBVIOUS
        <5>1. CASE i = Len(own) + 1
          BY <1>2, <1>3, <1>4, <4>2, <5>1
        <5>2. CASE i \in 1..Len(own)
          <6>1. Len(E) - Len(own) + i = Len(G) - Len(q) + i
                /\ Len(E) - Len(own) + i \in 1..Len(E)
            BY <1>2, <1>3, <1>4, <1>5, <4>2, <5>2
          <6> QED
            BY <1>2, <1>5, <4>2, <5>2, <6>1
        <5> QED
          BY <1>3, <4>2, <5>1, <5>2
      <4>4. Len(q) <= Len(G)
        BY <1>2, <1>3, <1>4, <1>5, <4>2
      <4> QED
        BY <1>1, <1>2, <1>7, <1>8, <4>3, <4>4 DEF EpochOf, G
    <3> QED
      BY <3>1, <3>2
  <2> QED
    BY <1>1, <1>2, <2>2, <2>3 DEF EpochInv
<1>13. CASE Pairs(s, stamp, n)
  <2>1. /\ n < Len(other) /\ stamp_queue'[s] = <<>>
        /\ stamp_queue'[o] = SubSeq(other, n + 2, Len(other))
    BY <1>1, <1>3, <1>13 DEF Pairs, o, other
  <2>2. n + 1 \in 0..Len(other) /\ n + 1 + 1 = n + 2
    BY <1>3, <2>1
  <2>3. EpochOf(o)'
    BY <1>10, <2>1, <2>2
  <2> QED
    BY <1>1, <1>2, <1>11, <2>1, <2>3 DEF EpochInv
<1>14. CASE Drops(s, stamp, n)
  <2>1. stamp_queue'[s] = <<>> /\ stamp_queue'[o] = SubSeq(other, n + 1, Len(other))
    BY <1>1, <1>3, <1>14 DEF Drops, o, other
  <2> QED
    BY <1>1, <1>2, <1>10, <1>11, <2>1 DEF EpochInv
<1> QED
  BY <1>9, <1>12, <1>13, <1>14

(* Under the assumption of line 170 a new image is compared with the right  *)
(* stamp of the other side, if there is one: what is answered reaches up to *)
(* an earlier image of this side, what is stale is too old, and what waits  *)
(* behind the first fresh one is too new.                                   *)
LEMMA MatchStep ==
  ASSUME NEW s \in Sides, NEW stamp \in Stamps, IInv, EpochInv, EpochInv', MatchInv,
         imageCallback(s, stamp), ~Backward(s, stamp)
  PROVE  MatchInv'
<1> SUFFICES ASSUME Assumed'
             PROVE  (\A x \in Sides : Answered(x)') /\ \A x \in Sides : ExactFor(x, epoch', pairs')
  BY DEF MatchInv
<1> DEFINE o == Other(s)
           own == stamp_queue[s]
           other == stamp_queue[o]
           E == epoch[s]
           F == epoch[o]
           G == epoch'[s]
           b == Len(F) - Len(other)
<1>1. o \in Sides /\ o # s /\ Sides = {s, o} /\ Other(o) = s
  BY DEF Other, Sides
<1>2. /\ epoch' \in [Sides -> Seq(Stamps)] /\ epoch'[o] = F
      /\ Len(G) = Len(E) + 1
      /\ \A i \in 1..Len(E) : G[i] = E[i]
      /\ G[Len(E) + 1] = stamp
  BY EpochGrows
<1>3. /\ own \in Seq(Stamps) /\ other \in Seq(Stamps) /\ Len(own) \in Nat /\ Len(other) \in Nat
      /\ stamp_queue \in [Sides -> Seq(Stamps)]
  BY <1>1, LenProperties DEF IInv, TypeOK
<1>4. /\ E \in Seq(Int) /\ F \in Seq(Int) /\ G \in Seq(Int) /\ stamp \in Int
      /\ Len(E) \in Nat /\ Len(F) \in Nat /\ Tolerance \in Nat
  <2>1. E \in Seq(Stamps) /\ F \in Seq(Stamps) /\ G \in Seq(Stamps)
    BY <1>1, <1>2 DEF EpochInv
  <2> QED
    BY <2>1, SeqMonotonic, LenProperties, PairingAssumption
<1>5. /\ \A i \in 1..Len(E) : E[i] \in Int
      /\ \A i \in 1..Len(F) : F[i] \in Int
  BY <1>4, ElementOfSeq
<1>6. /\ Len(own) <= Len(E) /\ Len(other) <= Len(F)
      /\ \A i \in 1..Len(other) : other[i] = F[b + i]
  BY <1>1 DEF EpochInv, EpochOf
\* The assumption held before, and nothing overflowed now.
<1>7. Assumed /\ Len(own) # Window
  <2>1. ~overflowed /\ Len(own) # Window
    <3>1. overflowed' = (Len(own) = Window \/ (overflowed /\ ~FALSE))
      BY DEF imageCallback, enqueueStereoStamp
    <3> QED
      BY <3>1 DEF Assumed
  <2>2. Spaced(E)
    <3> SUFFICES ASSUME NEW i \in 1..(Len(E) - 1) PROVE E[i + 1] - E[i] > 2 * Tolerance
      BY DEF Spaced
    <3>1. i \in 1..(Len(G) - 1) /\ i \in 1..Len(E) /\ i + 1 \in 1..Len(E)
      <4> HIDE DEF E, G
      <4> QED
        BY <1>2, <1>4
    <3>2. Spaced(G)
      BY DEF Assumed
    <3> QED
      BY <1>2, <3>1, <3>2 DEF Spaced
  <2>3. Spaced(F)
    BY <1>1, <1>2 DEF Assumed
  <2> QED
    BY <1>1, <2>1, <2>2, <2>3 DEF Assumed
<1>8. \A i, j \in 1..Len(G) : i < j => G[j] - G[i] > 2 * Tolerance
  <2>1. Spaced(G) /\ \A i, j \in 1..Len(G) : i <= j => G[i] <= G[j]
    BY DEF Assumed, EpochInv, EpochOf
  <2> QED
    BY <1>4, <2>1, SpacedApart
<1>9. \A i, j \in 1..Len(F) : i < j => F[j] - F[i] > 2 * Tolerance
  <2>1. Spaced(F) /\ \A i, j \in 1..Len(F) : i <= j => F[i] <= F[j]
    BY <1>1, <1>7 DEF Assumed, EpochInv, EpochOf
  <2> QED
    BY <1>4, <2>1, SpacedApart
<1>10. \A i \in 1..Len(E) : stamp - E[i] > 2 * Tolerance
  <2> SUFFICES ASSUME NEW i \in 1..Len(E) PROVE stamp - E[i] > 2 * Tolerance
    OBVIOUS
  <2>1. i \in 1..Len(G) /\ Len(E) + 1 \in 1..Len(G) /\ i < Len(E) + 1
    <3> HIDE DEF E, G
    <3> QED
      BY <1>2, <1>4
  <2>2. G[Len(E) + 1] - G[i] > 2 * Tolerance
    BY <1>8, <2>1
  <2> QED
    BY <1>2, <2>2
<1>11. Answered(s) /\ Answered(o) /\ ExactFor(s, epoch, pairs)
  BY <1>1, <1>7 DEF MatchInv
<1>12. PICK n \in 0..Len(other) :
         /\ \A j \in 1..n : stamp - other[j] > Tolerance
         /\ n < Len(other) => stamp - other[n + 1] <= Tolerance
         /\ Waits(s, stamp, n) \/ Pairs(s, stamp, n) \/ Drops(s, stamp, n)
  BY CallbackEnds
<1> HIDE DEF o, E, F, G, own, other
<1>b. b \in Nat /\ b + Len(other) = Len(F) /\ n \in Nat
  BY <1>3, <1>4, <1>6, <1>12
<1> HIDE DEF b
\* Where the stamps of the other side are.
<1>13. ASSUME NEW j \in 1..b
       PROVE  stamp - F[j] > Tolerance
  <2>1. PICK i \in 1..Len(E) : F[j] - E[i] <= Tolerance
    BY <1>1, <1>11, <1>13 DEF Answered, b, E, F, other
  <2>2. F[j] \in Int /\ E[i] \in Int /\ stamp - E[i] > 2 * Tolerance
    BY <1>b, <1>3, <1>5, <1>10
  <2>3. \A f, e \in Int : f - e <= Tolerance /\ stamp - e > 2 * Tolerance => stamp - f > Tolerance
    BY <1>4
  <2> QED
    BY <2>1, <2>2, <2>3
<1>14. ASSUME NEW j \in (b + 1)..(b + n)
       PROVE  stamp - F[j] > Tolerance
  <2>1. PICK i \in 1..n : j = b + i
    <3>1. j - b \in 1..n /\ j = b + (j - b)
      BY <1>b
    <3> QED
      BY <3>1
  <2>2. F[j] = other[i] /\ stamp - other[i] > Tolerance
    BY <1>3, <1>6, <1>12, <2>1
  <2> QED
    BY <2>2
<1>15. ASSUME n < Len(other)
       PROVE  /\ b + n + 1 \in 1..Len(F) /\ F[b + n + 1] = other[n + 1]
              /\ F[b + n + 1] \in Int /\ stamp - F[b + n + 1] <= Tolerance
  <2>1. n + 1 \in 1..Len(other) /\ b + (n + 1) = b + n + 1 /\ b + n + 1 \in 1..Len(F)
    BY <1>b, <1>3, <1>4, <1>15
  <2>2. F[b + n + 1] = other[n + 1]
    BY <1>6, <2>1
  <2> QED
    BY <1>5, <1>12, <1>15, <2>1, <2>2
<1>16. ASSUME NEW j \in 1..Len(F), n < Len(other), j > b + n + 1
       PROVE  F[j] - stamp > Tolerance
  <2>1. F[j] - F[b + n + 1] > 2 * Tolerance
    BY <1>9, <1>15, <1>16
  <2>2. \A f, e \in Int : f - e > 2 * Tolerance /\ stamp - e <= Tolerance => f - stamp > Tolerance
    BY <1>4
  <2> QED
    BY <1>5, <1>15, <1>16, <2>1, <2>2
<1>17. ASSUME NEW j \in 1..Len(F), Within(stamp, F[j])
       PROVE  n < Len(other) /\ j = b + n + 1
  <2>1. F[j] \in Int /\ ~(stamp - F[j] > Tolerance) /\ ~(F[j] - stamp > Tolerance)
    BY <1>4, <1>5, <1>17 DEF Within
  <2>2. ~(j \in 1..b) /\ ~(j \in (b + 1)..(b + n))
    BY <1>13, <1>14, <2>1
  <2>3. j >= b + n + 1
    BY <1>b, <2>2
  <2>4. n < Len(other)
    BY <1>b, <1>3, <2>3
  <2>5. ~(j > b + n + 1)
    BY <1>16, <2>1, <2>4
  <2> QED
    BY <1>b, <2>3, <2>4, <2>5
\* The new pair, and nothing else, is added when there is one.
<1>18. ExactFor(s, epoch', pairs')
  <2>1. ASSUME NEW p \in pairs
        PROVE  \E i \in 1..Len(G), j \in 1..Len(F) :
                  p = Oriented(s, G[i], F[j]) /\ Within(G[i], F[j])
    <3>1. PICK i \in 1..Len(E), j \in 1..Len(F) :
            p = Oriented(s, E[i], F[j]) /\ Within(E[i], F[j])
      BY <1>11, <2>1 DEF ExactFor, E, F, o
    <3>2. i \in 1..Len(G) /\ G[i] = E[i]
      BY <1>2, <1>4
    <3> QED
      BY <3>1, <3>2, Zenon
  <2>2. ASSUME NEW i \in 1..Len(E), NEW j \in 1..Len(F), Within(G[i], F[j])
        PROVE  Oriented(s, G[i], F[j]) \in pairs
    <3>1. G[i] = E[i]
      BY <1>2
    <3>2. Within(E[i], F[j])
      BY <2>2, <3>1
    <3>3. Oriented(s, E[i], F[j]) \in pairs
      BY <1>11, <3>2 DEF ExactFor, E, F, o
    <3> QED
      BY <3>1, <3>3
  <2>3. pairs \subseteq pairs'
    BY <1>12 DEF Waits, Pairs, Drops
  <2>4. \A p \in pairs' : \E i \in 1..Len(G), j \in 1..Len(F) :
          p = Oriented(s, G[i], F[j]) /\ Within(G[i], F[j])
    <3>1. CASE pairs' = pairs
      BY <2>1, <3>1
    <3>2. CASE Pairs(s, stamp, n)
      <4>1. /\ n < Len(other) /\ other[n + 1] - stamp <= Tolerance
            /\ pairs' = pairs \cup {Oriented(s, stamp, other[n + 1])}
        BY <3>2 DEF Pairs, other, o
      <4>2. Within(stamp, F[b + n + 1]) /\ b + n + 1 \in 1..Len(F) /\ F[b + n + 1] = other[n + 1]
        BY <1>15, <4>1 DEF Within
      <4>3. Len(E) + 1 \in 1..Len(G) /\ G[Len(E) + 1] = stamp
        BY <1>2, <1>4
      <4>4. ASSUME NEW p, p = Oriented(s, stamp, other[n + 1])
            PROVE  \E i \in 1..Len(G), j \in 1..Len(F) :
                      p = Oriented(s, G[i], F[j]) /\ Within(G[i], F[j])
        <5>1. p = Oriented(s, G[Len(E) + 1], F[b + n + 1]) /\ Within(G[Len(E) + 1], F[b + n + 1])
          BY <4>2, <4>3, <4>4
        <5> QED
          BY <4>2, <4>3, <5>1, Zenon
      <4> QED
        BY <2>1, <4>1, <4>4
    <3> QED
      BY <1>12, <3>1, <3>2 DEF Waits, Drops
  <2>5. ASSUME NEW i \in 1..Len(G), NEW j \in 1..Len(F), Within(G[i], F[j])
        PROVE  Oriented(s, G[i], F[j]) \in pairs'
    <3>1. CASE i \in 1..Len(E)
      BY <2>2, <2>3, <2>5, <3>1
    <3>2. CASE i = Len(E) + 1
      <4>1. G[i] = stamp /\ Within(stamp, F[j])
        BY <1>2, <2>5, <3>2
      <4>2. n < Len(other) /\ j = b + n + 1
        BY <1>17, <4>1
      <4>3. F[j] = other[n + 1] /\ other[n + 1] - stamp <= Tolerance /\ other[n + 1] \in Int
        BY <1>15, <4>1, <4>2 DEF Within
      <4>4. ~Waits(s, stamp, n) /\ ~Drops(s, stamp, n)
        <5>1. n # Len(other) /\ ~(other[n + 1] - stamp > Tolerance)
          <6>1. n # Len(other)
            BY <1>b, <1>3, <4>2
          <6>2. PICK x \in Int : x = other[n + 1] /\ x - stamp <= Tolerance
            BY <4>3
          <6>3. ~(x - stamp > Tolerance)
            <7>1. stamp \in Int /\ Tolerance \in Int
              BY <1>4
            <7> QED
              BY <6>2, <7>1
          <6> QED
            BY <6>1, <6>2, <6>3
        <5> QED
          BY <5>1 DEF Waits, Drops, other, o
      <4>5. pairs' = pairs \cup {Oriented(s, stamp, other[n + 1])}
        BY <1>12, <4>4 DEF Pairs, other, o
      <4> QED
        BY <4>1, <4>3, <4>5
    <3> QED
      BY <1>2, <1>4, <3>1, <3>2
  <2> QED
    BY <1>2, <2>4, <2>5 DEF ExactFor, G, o
\* Whatever no longer waits has been reached by a stamp of the other side.
<1>19. Answered(o)'
  <2> SUFFICES ASSUME NEW j \in 1..(Len(F) - Len(stamp_queue'[o]))
               PROVE  \E i \in 1..Len(G) : F[j] - G[i] <= Tolerance
    BY <1>1, <1>2 DEF Answered, G
  <2>1. Len(E) + 1 \in 1..Len(G) /\ G[Len(E) + 1] = stamp
    BY <1>2, <1>4
  <2>2. CASE j \in 1..b
    <3>1. PICK i \in 1..Len(E) : F[j] - E[i] <= Tolerance
      BY <1>1, <1>11, <2>2 DEF Answered, b, E, F, other
    <3>2. i \in 1..Len(G) /\ G[i] = E[i]
      BY <1>2, <1>4
    <3> QED
      BY <3>1, <3>2
  <2>3. CASE j \in (b + 1)..(b + n)
    <3>1. stamp - F[j] > Tolerance /\ F[j] \in Int
      BY <1>b, <1>3, <1>5, <1>14, <2>3
    <3>2. F[j] - stamp <= Tolerance
      BY <1>4, <3>1
    <3> QED
      BY <2>1, <3>2
  <2>4. CASE Pairs(s, stamp, n) /\ j = b + n + 1
    <3>1. n < Len(other) /\ other[n + 1] - stamp <= Tolerance
      BY <2>4 DEF Pairs, other, o
    <3> QED
      BY <1>15, <2>1, <2>4, <3>1
  <2>5. j \in 1..(b + n) \/ (Pairs(s, stamp, n) /\ j \in 1..(b + n + 1))
    <3>1. CASE Waits(s, stamp, n)
      <4>1. n = Len(other) /\ stamp_queue'[o] = <<>>
        BY <1>1, <1>3, <3>1 DEF Waits, other, o
      <4> QED
        BY <1>b, <4>1
    <3>2. CASE Pairs(s, stamp, n)
      <4>1. n < Len(other) /\ stamp_queue'[o] = SubSeq(other, n + 2, Len(other))
        BY <1>1, <1>3, <3>2 DEF Pairs, other, o
      <4>2. PICK m \in 0..Len(other) : m = n + 1
        BY <1>b, <1>3, <4>1
      <4>3. Len(SubSeq(other, m + 1, Len(other))) = Len(other) - m
        BY <1>3, Rest
      <4>4. m + 1 = n + 2
        BY <1>b, <4>2
      <4>5. Len(stamp_queue'[o]) = Len(other) - m
        BY <4>1, <4>3, <4>4
      <4> QED
        BY <1>b, <1>3, <3>2, <4>2, <4>5
    <3>3. CASE Drops(s, stamp, n)
      <4>1. stamp_queue'[o] = SubSeq(other, n + 1, Len(other))
        BY <1>1, <1>3, <3>3 DEF Drops, other, o
      <4>2. Len(stamp_queue'[o]) = Len(other) - n
        BY <1>3, <4>1, Rest
      <4> QED
        BY <1>b, <1>3, <4>2
    <3> QED
      BY <1>12, <3>1, <3>2, <3>3
  <2> QED
    BY <1>b, <2>2, <2>3, <2>4, <2>5
<1>20. Answered(s)'
  <2> SUFFICES ASSUME NEW i \in 1..(Len(G) - Len(stamp_queue'[s]))
               PROVE  \E j \in 1..Len(F) : G[i] - F[j] <= Tolerance
    BY <1>1, <1>2 DEF Answered, G, o
  <2>1. CASE i \in 1..(Len(E) - Len(own))
    <3>1. PICK j \in 1..Len(F) : E[i] - F[j] <= Tolerance
      BY <1>11, <2>1 DEF Answered, E, F, own, o
    <3>2. i \in 1..Len(E)
      BY <1>3, <1>4, <1>6, <2>1
    <3> QED
      BY <1>2, <3>1, <3>2
  <2>2. CASE i = Len(E) + 1 /\ n < Len(other)
    BY <1>2, <1>15, <2>2
  <2>3. CASE Waits(s, stamp, n)
    <3>1. stamp_queue'[s] = Append(own, stamp)
      BY <1>1, <1>3, <1>7, <2>3 DEF Waits, Push, own, o
    <3>2. Len(stamp_queue'[s]) = Len(own) + 1
      BY <1>3, <3>1, AppendProperties
    <3> QED
      BY <1>2, <1>3, <1>4, <2>1, <3>2
  <2>4. CASE Pairs(s, stamp, n) \/ Drops(s, stamp, n)
    <3>1. stamp_queue'[s] = <<>> /\ own = <<>> /\ n < Len(other)
      BY <1>1, <1>3, <2>4 DEF Pairs, Drops, own, other, o
    <3>2. Len(stamp_queue'[s]) = 0 /\ Len(own) = 0
      BY <3>1
    <3> QED
      BY <1>2, <1>4, <2>1, <2>2, <3>1, <3>2
  <2> QED
    BY <1>12, <2>3, <2>4
<1> QED
  BY <1>1, <1>18, <1>19, <1>20, ExactIsSymmetric

(* What the invariant says of the pairs is the property.                    *)
LEMMA MatchMeansExact ==
  ASSUME MatchInv
  PROVE  PairingExact
<1> SUFFICES ASSUME ~overflowed, \A s \in Sides : Spaced(epoch[s])
             PROVE  pairs = {p \in {<<epoch["left"][i], epoch["right"][j]>> :
                                i \in 1..Len(epoch["left"]), j \in 1..Len(epoch["right"])} :
                        Within(p[1], p[2])}
  BY DEF PairingExact
<1>1. "left" \in Sides /\ Other("left") = "right"
      /\ \A x, y : Oriented("left", x, y) = <<x, y>>
  BY DEF Sides, Other, Oriented
<1>2. ExactFor("left", epoch, pairs)
  BY <1>1 DEF MatchInv, Assumed
<1>3. ASSUME NEW p \in pairs
      PROVE  \E i \in 1..Len(epoch["left"]), j \in 1..Len(epoch["right"]) :
                p = <<epoch["left"][i], epoch["right"][j]>> /\ Within(p[1], p[2])
  BY <1>1, <1>2, <1>3 DEF ExactFor
<1>4. ASSUME NEW i \in 1..Len(epoch["left"]), NEW j \in 1..Len(epoch["right"]),
             Within(epoch["left"][i], epoch["right"][j])
      PROVE  <<epoch["left"][i], epoch["right"][j]>> \in pairs
  BY <1>1, <1>2, <1>4 DEF ExactFor
<1> QED
  BY <1>3, <1>4

(* The FIFO pairing is exact under the assumption its comment states: for   *)
(* every tolerance and window, and any order in which the two streams are   *)
(* delivered.                                                               *)
THEOREM FifoPairingIsExact == Spec => []PairingExact
<1> DEFINE Exact == EpochInv /\ MatchInv
<1>1. Init => Exact
  <2> SUFFICES ASSUME Init PROVE Exact
    OBVIOUS
  <2>1. /\ epoch = [s \in Sides |-> <<>>] /\ stamp_queue = [s \in Sides |-> <<>>] /\ pairs = {}
        /\ <<>> \in Seq(Stamps) /\ Len(<<>>) = 0 /\ \A s \in Sides : Other(s) \in Sides
    BY DEF Init, Other, Sides
  <2> QED
    BY <2>1 DEF EpochInv, EpochOf, MatchInv, Answered, ExactFor
<1>2. IInv /\ Exact /\ [Next]_vars => Exact'
  <2> SUFFICES ASSUME IInv, Exact, [Next]_vars PROVE Exact'
    OBVIOUS
  <2>1. ASSUME NEW s \in Sides, NEW stamp \in Stamps, imageCallback(s, stamp)
        PROVE  Exact'
    <3>1. CASE Backward(s, stamp)
      BY <2>1, <3>1, ResetStep DEF EpochInv
    <3>2. CASE ~Backward(s, stamp)
      <4>1. EpochInv'
        BY <2>1, <3>2, EpochStep
      <4> QED
        BY <2>1, <3>2, <4>1, MatchStep
    <3> QED
      BY <3>1, <3>2
  <2>2. CASE UNCHANGED <<pairing, history>>
    BY <2>2 DEF EpochInv, EpochOf, MatchInv, Assumed, Answered, ExactFor, pairing, history
  <2> QED
    BY <2>1, <2>2 DEF Next, imuCallback, vars
<1>3. Exact => PairingExact
  BY MatchMeansExact
<1> HIDE DEF Exact
<1> QED
  BY <1>1, <1>2, <1>3, InvariantHolds, PTL DEF Spec
=============================================================================
