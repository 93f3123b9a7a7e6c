------------------------- MODULE ImuFrontend_proofs -------------------------
(***************************************************************************)
(* The IMU frontend for every buffer capacity, gap limit and stream of     *)
(* messages: its buffer is a recent part of the accepted history, its      *)
(* answers are right and final, and it implements ImuDelivery, which       *)
(* delivers every sample of the granted intervals exactly once.            *)
(***************************************************************************)
EXTENDS ImuFrontend, TLAPS, SequenceTheorems, WellFoundedInduction

Increasing(s) == \A i, j \in 1..Len(s) : i < j => s[i] < s[j]

-----------------------------------------------------------------------------
(* Binary searches *)

(* A nonempty set of naturals has a least element.                          *)
LEMMA LeastNatural ==
  ASSUME NEW T \in SUBSET Nat, T # {}
  PROVE  \E x \in T : \A y \in T : x <= y
<1>1. OpToRel(<, Nat) = {p \in Nat \X Nat : p[1] < p[2]}
  BY Zenon DEF OpToRel
<1>2. IsWellFoundedOn({p \in Nat \X Nat : p[1] < p[2]}, Nat)
  BY <1>1, NatLessThanWellFounded, Zenon
<1> DEFINE R == {p \in Nat \X Nat : p[1] < p[2]}
<1> HIDE DEF R
<1>3. PICK x \in T : \A y \in T : ~ (<<y, x>> \in R)
  BY <1>2, WFMin DEF R
<1>4. \A y \in T : y < x => <<y, x>> \in R
  BY DEF R
<1>5. \A y \in T : ~(y < x)
  BY <1>3, <1>4, Zenon
<1> QED
  BY <1>5

\* What std::upper_bound promises.
Splits(s, t, i) ==
    /\ i \in 1..(Len(s) + 1)
    /\ \A j \in 1..Len(s) : j < i <=> s[j] <= t

(* The binary search of a query over an increasing buffer has exactly one   *)
(* result.                                                                  *)
LEMMA UpperBoundSplits ==
  ASSUME NEW s \in Seq(Nat), Increasing(s), NEW t \in Nat
  PROVE  Splits(s, t, UpperBound(s, t))
<1>1. Len(s) \in Nat /\ \A j \in 1..Len(s) : s[j] \in Nat
  BY LenProperties
<1> DEFINE later == {i \in 1..(Len(s) + 1) : i <= Len(s) => t < s[i]}
<1>2. Len(s) + 1 \in later /\ later \in SUBSET Nat
  BY <1>1
<1>3. PICK i \in later : \A j \in later : i <= j
  BY <1>2, LeastNatural
<1>4. ASSUME NEW j \in 1..Len(s)
      PROVE  j < i <=> s[j] <= t
  <2>1. j < i => s[j] <= t
    BY <1>1, <1>3
  <2>2. i <= j => t < s[j]
    BY <1>1, <1>3 DEF Increasing
  <2> QED
    BY <1>1, <1>2, <2>1, <2>2
<1>5. \E k \in 1..(Len(s) + 1) : \A j \in 1..Len(s) : j < k <=> s[j] <= t
  BY <1>4
<1> QED
  BY <1>5 DEF Splits, UpperBound

LEMMA SplitsUnique ==
  ASSUME NEW s \in Seq(Nat), NEW t, NEW i, NEW k, Splits(s, t, i), Splits(s, t, k)
  PROVE  i = k
<1>1. Len(s) \in Nat
  BY LenProperties
<1> QED
  BY <1>1 DEF Splits

(* Dropping samples in front and appending later ones moves the result of a *)
(* search by what was dropped, as long as the sought time is between the    *)
(* first sample kept and the newest one of the old sequence.                *)
LEMMA UpperBoundShift ==
  ASSUME NEW s \in Seq(Nat), Increasing(s), NEW u \in Seq(Nat), Increasing(u),
         NEW d \in 0..(Len(s) - 1), Len(s) - d <= Len(u),
         \A i \in 1..(Len(s) - d) : u[i] = s[d + i],
         NEW t \in Nat, u[1] <= t, t <= s[Len(s)]
  PROVE  UpperBound(s, t) = UpperBound(u, t) + d
<1> DEFINE k == UpperBound(u, t)
<1>1. /\ Len(s) \in Nat /\ \A j \in 1..Len(s) : s[j] \in Nat
      /\ Len(u) \in Nat /\ \A j \in 1..Len(u) : u[j] \in Nat
  BY LenProperties
<1>2. Splits(u, t, k)
  BY UpperBoundSplits
<1> HIDE DEF k
<1>3. k \in 1..(Len(u) + 1) /\ \A j \in 1..Len(u) : j < k <=> u[j] <= t
  BY <1>2 DEF Splits
<1>4. PICK n \in 1..Len(u) : n = Len(s) - d
  <2>1. Len(s) - d \in 1..Len(u)
    BY <1>1
  <2> QED
    BY <2>1
<1>5. \A j \in 1..n : u[j] = s[d + j]
  BY <1>4
<1>6. u[n] = s[Len(s)]
  <2>1. n \in 1..n /\ d + n = Len(s)
    BY <1>1, <1>4
  <2> QED
    BY <1>5, <2>1
<1>7. k <= n + 1
  <2> SUFFICES ASSUME n + 1 < k PROVE FALSE
    BY <1>1, <1>3, <1>4
  <2>1. PICK m \in 1..Len(u) : m = n + 1
    BY <1>1, <1>3
  <2>2. u[n] < u[m] /\ u[m] <= t
    BY <1>3, <2>1 DEF Increasing
  <2>3. PICK x, y : x = u[n] /\ y = u[m]
    OBVIOUS
  <2>4. t <= x
    BY <1>6, <2>3
  <2>5. x \in Nat /\ y \in Nat
    BY <1>1, <2>3
  <2>6. x < y /\ y <= t
    BY <2>2, <2>3
  <2> QED
    BY <2>4, <2>5, <2>6
<1>8. k + d \in 1..(Len(s) + 1)
  BY <1>1, <1>3, <1>4, <1>7
<1>9. ASSUME NEW j \in 1..Len(s)
      PROVE  j < k + d <=> s[j] <= t
  <2>1. CASE j > d
    <3>1. PICK m \in 1..n : m = j - d
      BY <1>1, <1>4, <2>1
    <3>2. m \in 1..Len(u) /\ d + m = j /\ u[m] = s[j]
      <4>1. m \in 1..Len(u) /\ d + m = j
        BY <1>1, <1>4, <3>1
      <4> QED
        BY <1>5, <4>1
    <3>3. m < k <=> s[j] <= t
      BY <1>3, <3>2
    <3> QED
      BY <1>1, <1>3, <3>1, <3>3
  <2>2. CASE j <= d
    <3>1. PICK m \in 1..Len(s) : m = d + 1
      BY <1>1
    <3>2. 1 \in 1..Len(u) /\ u[1] = s[m]
      <4>1. 1 \in 1..n /\ 1 \in 1..Len(u)
        BY <1>4
      <4> QED
        BY <1>5, <3>1, <4>1
    <3>3. s[j] < s[m] /\ 1 < k
      <4>1. j < m
        BY <1>1, <2>2, <3>1
      <4>2. s[j] < s[m]
        BY <4>1 DEF Increasing
      <4>3. 1 < k
        BY <1>3, <3>2
      <4> QED
        BY <4>2, <4>3
    <3>4. s[j] \in Nat /\ s[m] \in Nat /\ s[m] <= t
      BY <1>1, <3>2
    <3>5. s[j] <= t
      <4>1. PICK x, y : x = s[j] /\ y = s[m]
        OBVIOUS
      <4>2. x \in Nat /\ y \in Nat /\ x < y /\ y <= t
        BY <3>3, <3>4, <4>1
      <4>3. x <= t
        BY <4>2
      <4> QED
        BY <4>1, <4>3
    <3>6. j < k + d
      BY <1>1, <1>3, <2>2, <3>3
    <3> QED
      BY <3>5, <3>6
  <2> QED
    BY <1>1, <2>1, <2>2
<1>10. Splits(s, t, k + d)
  BY <1>8, <1>9 DEF Splits
<1>11. Splits(s, t, UpperBound(s, t))
  BY UpperBoundSplits
<1> QED
  BY <1>10, <1>11, SplitsUnique DEF k
-----------------------------------------------------------------------------
(* The inductive invariant *)

\* What overflow and consumption have removed from the history.
Dropped == Len(arrived) - Len(imu_buffer)

\* The buffer is the rest of the history, and keeps its newest sample.
Retained ==
    /\ Len(imu_buffer) <= Len(arrived)
    /\ arrived # <<>> => imu_buffer # <<>>
    /\ \A i \in 1..Len(imu_buffer) : imu_buffer[i] = arrived[Dropped + i]

\* The timestamps that outlive the buffered samples.
Remembered ==
    /\ last_accepted_timestamp_ns = None <=> arrived = <<>>
    /\ first_timestamp = IF arrived = <<>> THEN None ELSE arrived[1]

\* The last sample removed was evicted, or a take removed it and left an
\* anchor for the interval that comes next.
RemovalsExplained ==
    \/ Dropped = 0
    \/ last_overflow_timestamp = arrived[Dropped]
    \/ last_taken_timestamp # None /\ imu_buffer[1] <= last_taken_timestamp

\* An interval was granted only after data had reached its right end.
BoundaryCovered ==
    last_taken_timestamp # None =>
        arrived # <<>> /\ last_taken_timestamp <= arrived[Len(arrived)]

IInv ==
    /\ TypeOK
    /\ Increasing(arrived)
    /\ Retained
    /\ Remembered
    /\ RemovalsExplained
    /\ BoundaryCovered

(* What the invariant says of the two sequences, in the provers' terms.     *)
LEMMA Sequences ==
  ASSUME IInv
  PROVE  /\ Times \subseteq Nat /\ None \notin Nat /\ BufferCapacity \in Nat \ {0}
         /\ arrived \in Seq(Nat) /\ imu_buffer \in Seq(Nat)
         /\ Len(arrived) \in Nat /\ Len(imu_buffer) \in Nat
         /\ \A i \in 1..Len(arrived) : arrived[i] \in Times /\ arrived[i] \in Nat
         /\ \A i \in 1..Len(imu_buffer) : imu_buffer[i] \in Times /\ imu_buffer[i] \in Nat
         /\ arrived = <<>> <=> Len(arrived) = 0
         /\ imu_buffer = <<>> <=> Len(imu_buffer) = 0
<1>1. Times \subseteq Nat /\ None \notin Nat /\ BufferCapacity \in Nat \ {0}
  BY ImuFrontendAssumption
<1>2. arrived \in Seq(Times) /\ imu_buffer \in Seq(Times)
  BY DEF IInv, TypeOK
<1>3. arrived \in Seq(Nat) /\ imu_buffer \in Seq(Nat)
  BY <1>1, <1>2, SeqMonotonic
<1>4. Len(arrived) \in Nat /\ Len(imu_buffer) \in Nat
  BY <1>2, LenProperties
<1>5. /\ \A i \in 1..Len(arrived) : arrived[i] \in Times
      /\ \A i \in 1..Len(imu_buffer) : imu_buffer[i] \in Times
  BY <1>2, ElementOfSeq
<1>6. (arrived = <<>> <=> Len(arrived) = 0) /\ (imu_buffer = <<>> <=> Len(imu_buffer) = 0)
  BY <1>2, EmptySeq
<1> QED
  BY <1>1, <1>3, <1>4, <1>5, <1>6

LEMMA BufferIsIncreasing ==
  ASSUME IInv
  PROVE  /\ Increasing(imu_buffer)
         /\ Dropped \in 0..Len(arrived)
         /\ imu_buffer # <<>> => Newest(imu_buffer) = arrived[Len(arrived)]
<1>1. Dropped \in 0..Len(arrived) /\ Dropped + Len(imu_buffer) = Len(arrived)
  BY Sequences DEF IInv, Retained, Dropped
<1>2. ASSUME NEW i \in 1..Len(imu_buffer), NEW j \in 1..Len(imu_buffer), i < j
      PROVE  imu_buffer[i] < imu_buffer[j]
  <2>1. PICK k \in 1..Len(arrived) : k = Dropped + i
    BY <1>1, Sequences
  <2>2. PICK l \in 1..Len(arrived) : l = Dropped + j
    BY <1>1, Sequences
  <2>3. arrived[k] < arrived[l]
    BY <1>1, <1>2, <2>1, <2>2, Sequences DEF IInv, Increasing
  <2> QED
    BY <2>1, <2>2, <2>3 DEF IInv, Retained
<1>3. imu_buffer # <<>> => imu_buffer[Len(imu_buffer)] = arrived[Len(arrived)]
  <2> SUFFICES ASSUME imu_buffer # <<>>
               PROVE  imu_buffer[Len(imu_buffer)] = arrived[Len(arrived)]
    OBVIOUS
  <2>1. Len(imu_buffer) \in 1..Len(imu_buffer)
    BY Sequences
  <2>2. imu_buffer[Len(imu_buffer)] = arrived[Dropped + Len(imu_buffer)]
    BY <2>1 DEF IInv, Retained
  <2> QED
    BY <1>1, <2>2
<1> QED
  BY <1>1, <1>2, <1>3 DEF Increasing, Newest

(* An accepted sample is later than every earlier one.                      *)
LEMMA AcceptedIsNewer ==
  ASSUME IInv, NEW m \in Messages, Verdict(m) = "accepted"
  PROVE  /\ m.ns \in Stamps /\ Seconds(m.ns) \in Times
         /\ \A i \in 1..Len(arrived) : arrived[i] < Seconds(m.ns)
<1>1. m.ns \in Stamps /\ Seconds(m.ns) \in Times
  BY ImuFrontendAssumption DEF Messages
<1>2. ASSUME NEW i \in 1..Len(arrived)
      PROVE  arrived[i] < Seconds(m.ns)
  <2>1. arrived # <<>>
    BY Sequences
  <2>2. last_accepted_timestamp_ns # None /\ imu_buffer # <<>>
    BY <2>1 DEF IInv, Remembered, Retained
  <2>3. ~(Seconds(m.ns) <= Newest(imu_buffer))
    BY <2>2 DEF Verdict
  <2>4. ~(Seconds(m.ns) <= arrived[Len(arrived)])
    BY <2>2, <2>3, BufferIsIncreasing
  <2>5. i < Len(arrived) => arrived[i] < arrived[Len(arrived)]
    BY Sequences DEF IInv, Increasing
  <2>6. Seconds(m.ns) \in Nat /\ arrived[i] \in Nat /\ arrived[Len(arrived)] \in Nat
    BY <1>1, Sequences
  <2> QED
    BY <2>4, <2>5, <2>6, Sequences
<1> QED
  BY <1>1, <1>2

LEMMA AcceptKeepsInv ==
  ASSUME IInv, NEW m \in Messages, accept_sample(m)
  PROVE  IInv'
<1> DEFINE t == Seconds(m.ns)
           n == Len(arrived)
           retained == IF Overflowed THEN Tail(imu_buffer) ELSE imu_buffer
<1>1. /\ t \in Times /\ m.ns \in Stamps
      /\ \A i \in 1..n : arrived[i] < t
  BY AcceptedIsNewer DEF accept_sample
<1>2. /\ arrived' = Append(arrived, t)
      /\ imu_buffer' = Append(retained, t)
  BY DEF accept_sample
<1>3. /\ arrived' \in Seq(Times) /\ Len(arrived') = n + 1 /\ arrived'[n + 1] = t
      /\ \A i \in 1..n : arrived'[i] = arrived[i]
      /\ arrived' # <<>>
  BY <1>1, <1>2, AppendProperties DEF IInv, TypeOK
<1>4. PICK k \in {0, 1} :
        /\ Overflowed <=> k = 1
        /\ retained \in Seq(Times) /\ Len(retained) = Len(imu_buffer) - k
        /\ \A i \in 1..Len(retained) : retained[i] = imu_buffer[i + k]
  <2>1. CASE Overflowed
    <3>1. imu_buffer # <<>>
      BY <2>1, Sequences DEF Overflowed
    <3> QED
      BY <2>1, <3>1, HeadTailProperties DEF IInv, TypeOK
  <2>2. CASE ~Overflowed
    BY <2>2, Sequences DEF IInv, TypeOK
  <2> QED
    BY <2>1, <2>2
<1> HIDE DEF retained
<1>5. /\ imu_buffer' \in Seq(Times) /\ Len(imu_buffer') = Len(imu_buffer) - k + 1
      /\ imu_buffer' # <<>>
      /\ \A i \in 1..(Len(imu_buffer) - k) : imu_buffer'[i] = imu_buffer[i + k]
      /\ imu_buffer'[Len(imu_buffer) - k + 1] = t
  <2>1. /\ Append(retained, t) \in Seq(Times) /\ Append(retained, t) # <<>>
        /\ Len(Append(retained, t)) = Len(retained) + 1
        /\ \A i \in 1..Len(retained) : Append(retained, t)[i] = retained[i]
        /\ Append(retained, t)[Len(retained) + 1] = t
    BY <1>1, <1>4, AppendProperties
  <2> QED
    BY <1>2, <1>4, <2>1
<1> HIDE DEF t, n
<1>6. Len(imu_buffer') <= BufferCapacity
  BY <1>4, <1>5, Sequences DEF Overflowed, IInv, TypeOK
<1>7. Dropped' = Dropped + k
  BY <1>3, <1>5, Sequences DEF Dropped, n
<1>8. TypeOK'
  <2>1. last_accepted_timestamp_ns' \in Stamps \cup {None} /\ first_timestamp' \in Times \cup {None}
    BY <1>1 DEF accept_sample, IInv, TypeOK, t
  <2>2. last_overflow_timestamp' \in Times \cup {None}
    <3>1. Overflowed => imu_buffer[1] \in Times
      BY Sequences DEF Overflowed
    <3> QED
      BY <3>1 DEF accept_sample, IInv, TypeOK
  <2>3. stats' \in [Counters -> Nat]
    <3> DEFINE overflow == IF Overflowed THEN stats["overflow"] + 1 ELSE stats["overflow"]
               peak == IF stats["buffered_peak"] < Len(retained) + 1
                       THEN Len(retained) + 1 ELSE stats["buffered_peak"]
    <3>1. {"received", "accepted", "overflow", "buffered_peak"} \subseteq Counters
      BY DEF Counters
    <3>2. stats \in [Counters -> Nat] /\ Len(retained) \in Nat
      BY <1>4, LenProperties DEF IInv, TypeOK
    <3>3. /\ stats["received"] + 1 \in Nat /\ stats["accepted"] + 1 \in Nat
          /\ overflow \in Nat /\ peak \in Nat
      BY <3>1, <3>2
    <3>4. stats' = [stats EXCEPT !["received"] = stats["received"] + 1,
                                 !["accepted"] = stats["accepted"] + 1,
                                 !["overflow"] = overflow, !["buffered_peak"] = peak]
      BY DEF accept_sample, retained
    <3> HIDE DEF overflow, peak
    <3> QED
      BY <3>1, <3>2, <3>3, <3>4
  <2> QED
    BY <1>3, <1>5, <1>6, <2>1, <2>2, <2>3 DEF accept_sample, IInv, TypeOK
<1>9. Increasing(arrived)'
  <2>1. ASSUME NEW i \in 1..(n + 1), NEW j \in 1..(n + 1), i < j
        PROVE  arrived'[i] < arrived'[j]
    <3>1. n \in Nat
      BY Sequences DEF n
    <3>2. i \in 1..n
      BY <2>1, <3>1
    <3>3. CASE j = n + 1
      BY <1>1, <1>3, <3>2, <3>3
    <3>4. CASE j # n + 1
      <4>1. j \in 1..n
        BY <3>1, <3>4
      <4> QED
        BY <1>3, <2>1, <3>2, <4>1 DEF IInv, Increasing, n
    <3> QED
      BY <3>3, <3>4
  <2> QED
    BY <1>3, <2>1 DEF Increasing
<1>10. Retained'
  <2>1. Len(imu_buffer') <= Len(arrived')
    BY <1>3, <1>4, <1>5, Sequences DEF IInv, Retained, n
  <2>2. ASSUME NEW i \in 1..Len(imu_buffer')
        PROVE  imu_buffer'[i] = arrived'[Dropped' + i]
    <3>1. n \in Nat /\ Len(imu_buffer) \in Nat /\ Dropped = n - Len(imu_buffer) /\ Dropped \in Nat
      BY Sequences, BufferIsIncreasing DEF n, Dropped
    <3>2. CASE i = Len(imu_buffer) - k + 1
      <4>1. Dropped' + i = n + 1
        BY <1>7, <3>1, <3>2
      <4> QED
        BY <1>3, <1>5, <3>2, <4>1
    <3>3. CASE i # Len(imu_buffer) - k + 1
      <4>1. i \in 1..(Len(imu_buffer) - k) /\ i + k \in 1..Len(imu_buffer)
        BY <1>5, <3>1, <3>3
      <4>2. Dropped' + i = Dropped + (i + k) /\ Dropped + (i + k) \in 1..n
        BY <1>7, <3>1, <4>1
      <4>3. imu_buffer'[i] = arrived[Dropped + (i + k)]
        BY <1>5, <4>1 DEF IInv, Retained
      <4> QED
        BY <1>3, <4>2, <4>3
    <3> QED
      BY <3>2, <3>3
  <2> QED
    BY <1>5, <2>1, <2>2 DEF Retained
<1>11. Remembered'
  <2>1. last_accepted_timestamp_ns' = m.ns /\ m.ns # None
    BY <1>1, ImuFrontendAssumption DEF accept_sample
  <2>2. first_timestamp' = arrived'[1]
    <3>1. CASE arrived = <<>>
      BY <1>3, <3>1, Sequences DEF accept_sample, IInv, Remembered, n, t
    <3>2. CASE arrived # <<>>
      <4>1. 1 \in 1..n /\ first_timestamp = arrived[1] /\ arrived[1] # None
        BY <3>2, Sequences DEF IInv, Remembered, n
      <4> QED
        BY <1>3, <4>1 DEF accept_sample
    <3> QED
      BY <3>1, <3>2
  <2> QED
    BY <1>3, <2>1, <2>2 DEF Remembered
<1>12. RemovalsExplained'
  <2>1. Dropped \in 0..n /\ n \in Nat
    BY BufferIsIncreasing, Sequences DEF n
  <2>2. CASE Overflowed
    <3>1. 1 \in 1..Len(imu_buffer) /\ k = 1
      BY <1>4, <2>2, Sequences DEF Overflowed
    <3>2. last_overflow_timestamp' = arrived[Dropped + 1]
      BY <2>2, <3>1 DEF accept_sample, IInv, Retained
    <3>3. Dropped + 1 \in 1..n
      BY <2>1, <3>1, Sequences DEF n, Dropped
    <3> QED
      BY <1>3, <1>7, <3>1, <3>2, <3>3 DEF RemovalsExplained
  <2>3. CASE ~Overflowed
    <3>1. k = 0 /\ Dropped' = Dropped
      BY <1>4, <1>7, <2>1, <2>3
    <3>2. UNCHANGED <<last_overflow_timestamp, last_taken_timestamp>>
      BY <2>3 DEF accept_sample
    <3>3. CASE Dropped = 0
      BY <3>1, <3>3 DEF RemovalsExplained
    <3>4. CASE Dropped # 0
      <4>1. Dropped \in 1..n /\ 1 \in 1..Len(imu_buffer)
        BY <2>1, <3>4, Sequences DEF IInv, Retained, n
      <4>2. arrived'[Dropped'] = arrived[Dropped] /\ imu_buffer'[1] = imu_buffer[1]
        BY <1>3, <1>5, <3>1, <4>1
      <4> QED
        BY <3>2, <3>4, <4>2 DEF IInv, RemovalsExplained
    <3> QED
      BY <3>3, <3>4
  <2> QED
    BY <2>2, <2>3
<1>13. BoundaryCovered'
  <2> SUFFICES ASSUME last_taken_timestamp # None
               PROVE  last_taken_timestamp <= t
    BY <1>3 DEF BoundaryCovered, accept_sample, n
  <2>1. arrived # <<>> /\ last_taken_timestamp <= arrived[n] /\ last_taken_timestamp \in Nat
    BY Sequences DEF IInv, TypeOK, BoundaryCovered, n
  <2>2. n \in 1..n /\ arrived[n] \in Nat /\ t \in Nat
    BY <1>1, <2>1, Sequences DEF n
  <2> QED
    BY <1>1, <2>1, <2>2
<1> QED
  BY <1>8, <1>9, <1>10, <1>11, <1>12, <1>13 DEF IInv

(* What a granted interval has found in the buffer.                         *)
LEMMA ReadyMeans ==
  ASSUME IInv, NEW left \in Times, NEW right \in Times, QueryStatus(left, right) = "Ready"
  PROVE  LET first == UpperBound(imu_buffer, left)
             end   == UpperBound(imu_buffer, right)
         IN  /\ left < right /\ last_taken_timestamp \in {None, left}
             /\ imu_buffer # <<>> /\ imu_buffer[1] <= left
             /\ right <= imu_buffer[Len(imu_buffer)]
             /\ Splits(imu_buffer, left, first) /\ Splits(imu_buffer, right, end)
             /\ first \in Nat /\ end \in Nat
             /\ 1 < first /\ first < end /\ end <= Len(imu_buffer) + 1
             /\ \A i \in Coverage(imu_buffer, left, right) :
                   ~(imu_buffer[i] - imu_buffer[i - 1] > MaxGap)
<1> DEFINE first == UpperBound(imu_buffer, left)
           end   == UpperBound(imu_buffer, right)
<1>1. left \in Nat /\ right \in Nat
  BY Sequences
<1>2. /\ ~(right <= left) /\ last_taken_timestamp \in {None, left}
      /\ imu_buffer # <<>> /\ ~(imu_buffer[1] > left)
      /\ ~(Newest(imu_buffer) < right) /\ first # end
      /\ \A i \in Coverage(imu_buffer, left, right) :
            ~(imu_buffer[i] - imu_buffer[i - 1] > MaxGap)
  BY DEF QueryStatus
<1>3. Splits(imu_buffer, left, first) /\ Splits(imu_buffer, right, end)
  BY <1>1, UpperBoundSplits, BufferIsIncreasing, Sequences
<1> HIDE DEF first, end
<1>4. /\ Len(imu_buffer) \in Nat /\ 1 \in 1..Len(imu_buffer)
      /\ Len(imu_buffer) \in 1..Len(imu_buffer)
  BY <1>2, Sequences
<1>5. imu_buffer[1] <= left /\ right <= imu_buffer[Len(imu_buffer)]
  BY <1>1, <1>2, <1>4, Sequences DEF Newest
<1>6. first \in Nat /\ end \in Nat /\ end <= Len(imu_buffer) + 1
  BY <1>3, <1>4 DEF Splits
<1>7. 1 < first
  BY <1>3, <1>4, <1>5 DEF Splits
<1>8. first < end
  <2> SUFFICES ASSUME end < first PROVE FALSE
    BY <1>2, <1>6
  <2>1. end \in 1..Len(imu_buffer)
    BY <1>3, <1>4, <1>6 DEF Splits
  <2>2. imu_buffer[end] <= left /\ ~(imu_buffer[end] <= right)
    BY <1>3, <1>6, <2>1 DEF Splits
  <2>3. imu_buffer[end] \in Nat
    BY <2>1, Sequences
  <2> QED
    BY <1>1, <1>2, <2>2, <2>3
<1> QED
  BY <1>1, <1>2, <1>3, <1>5, <1>6, <1>7, <1>8 DEF first, end

LEMMA TakeKeepsInv ==
  ASSUME IInv, NEW left \in Times, NEW right \in Times, takeMeasurements(left, right)
  PROVE  IInv'
<1>1. CASE TakeStatus(left, right) # "Ready"
  BY <1>1 DEF takeMeasurements, IInv, TypeOK, Increasing, Retained, Remembered,
              RemovalsExplained, BoundaryCovered, Dropped
<1>2. CASE TakeStatus(left, right) = "Ready"
  <2> DEFINE end == UpperBound(imu_buffer, right)
             first == UpperBound(imu_buffer, left)
             n == Len(imu_buffer)
  <2>1. QueryStatus(left, right) = "Ready"
    BY <1>2 DEF TakeStatus
  <2>2. /\ left < right /\ imu_buffer # <<>>
        /\ right <= imu_buffer[n] /\ Splits(imu_buffer, right, end)
        /\ first \in Nat /\ end \in Nat /\ 1 < first /\ first < end /\ end <= n + 1
    BY <2>1, ReadyMeans
  <2>3. /\ imu_buffer' = SubSeq(imu_buffer, end - 1, n)
        /\ last_taken_timestamp' = right
        /\ delivered' = delivered \o SubSeq(imu_buffer, first, end - 1)
        /\ UNCHANGED <<last_accepted_timestamp_ns, first_timestamp, last_overflow_timestamp,
                       stats, arrived, stop_requested>>
    BY <1>2 DEF takeMeasurements, Unconsumed, NextBoundary, Batch
  <2> HIDE DEF end, first
  <2>4. n \in Nat /\ right \in Nat /\ \A i \in 1..n : imu_buffer[i] \in Times
    BY Sequences
  <2>5. /\ imu_buffer' \in Seq(Times) /\ Len(imu_buffer') = n - end + 2
        /\ \A i \in 1..(n - end + 2) : imu_buffer'[i] = imu_buffer[end - 2 + i]
    <3>1. \A i \in (end - 1)..n : imu_buffer[i] \in Times
      BY <2>2, <2>4
    <3>2. /\ SubSeq(imu_buffer, end - 1, n) \in Seq(Times)
          /\ Len(SubSeq(imu_buffer, end - 1, n)) = IF end - 1 <= n THEN n - (end - 1) + 1 ELSE 0
          /\ \A i \in 1..(n - (end - 1) + 1) :
                SubSeq(imu_buffer, end - 1, n)[i] = imu_buffer[(end - 1) + i - 1]
      BY <2>2, <2>4, <3>1, SubSeqProperties
    <3>3. ASSUME NEW i \in 1..(n - end + 2)
          PROVE  imu_buffer'[i] = imu_buffer[end - 2 + i]
      <4>1. i \in 1..(n - (end - 1) + 1) /\ (end - 1) + i - 1 = end - 2 + i
        BY <2>2, <2>4
      <4> QED
        BY <2>3, <3>2, <4>1
    <3> QED
      BY <2>2, <2>3, <2>4, <3>2, <3>3
  <2> HIDE DEF n
  <2>6. Dropped' = Dropped + end - 2 /\ Dropped \in 0..Len(arrived) /\ Len(arrived) \in Nat
    BY <2>2, <2>3, <2>4, <2>5, BufferIsIncreasing, Sequences DEF Dropped, n
  <2>7. imu_buffer' # <<>>
    BY <2>2, <2>4, <2>5, EmptySeq
  <2>8. TypeOK'
    <3>1. Len(imu_buffer') <= BufferCapacity
      BY <2>2, <2>4, <2>5, Sequences DEF IInv, TypeOK, n
    <3>2. \A i \in first..(end - 1) : imu_buffer[i] \in Times
      BY <2>2, <2>4
    <3>3. SubSeq(imu_buffer, first, end - 1) \in Seq(Times)
      BY <2>2, <3>2, SubSeqProperties
    <3>4. delivered' \in Seq(Times)
      BY <2>3, <3>3, ConcatProperties DEF IInv, TypeOK
    <3> QED
      BY <2>3, <2>5, <3>1, <3>4 DEF IInv, TypeOK
  <2>9. Increasing(arrived)' /\ Remembered'
    BY <2>3 DEF IInv, Increasing, Remembered
  <2>10. Retained'
    <3>1. Len(imu_buffer') <= Len(arrived')
      BY <2>2, <2>3, <2>4, <2>5, <2>6, Sequences DEF IInv, Retained, n
    <3>2. ASSUME NEW i \in 1..Len(imu_buffer')
          PROVE  imu_buffer'[i] = arrived'[Dropped' + i]
      <4>1. PICK j \in 1..Len(imu_buffer) : j = end - 2 + i
        BY <2>2, <2>4, <2>5 DEF n
      <4>2. Dropped + j = Dropped' + i
        BY <2>2, <2>4, <2>5, <2>6, <4>1
      <4>3. imu_buffer'[i] = imu_buffer[j] /\ imu_buffer[j] = arrived[Dropped + j]
        BY <2>5, <4>1 DEF IInv, Retained
      <4> QED
        BY <2>3, <4>2, <4>3
    <3> QED
      BY <2>7, <3>1, <3>2 DEF Retained
  <2>11. RemovalsExplained'
    <3>1. PICK j \in 1..Len(imu_buffer) : j = end - 1
      BY <2>2, <2>4 DEF n
    <3>2. imu_buffer[j] <= right
      BY <2>2, <3>1 DEF Splits
    <3>3. imu_buffer'[1] = imu_buffer[j]
      <4>1. 1 \in 1..(n - end + 2) /\ end - 2 + 1 = j
        BY <2>2, <2>4, <3>1
      <4> QED
        BY <2>5, <4>1
    <3>4. right # None
      BY <2>4, Sequences
    <3> QED
      BY <2>3, <3>2, <3>3, <3>4 DEF RemovalsExplained
  <2>12. BoundaryCovered'
    BY <2>2, <2>3, BufferIsIncreasing DEF BoundaryCovered, IInv, Retained, Newest, n
  <2> QED
    BY <2>8, <2>9, <2>10, <2>11, <2>12 DEF IInv
<1> QED
  BY <1>1, <1>2

LEMMA RejectKeepsInv ==
  ASSUME IInv, NEW m \in Messages, reject_sample(m)
  PROVE  IInv'
<1>1. stats' \in [Counters -> Nat]
  <2> DEFINE v == Verdict(m)
  <2>1. v \in Counters /\ "received" \in Counters
    BY DEF reject_sample, Counters
  <2>2. stats' = [stats EXCEPT !["received"] = @ + 1, ![v] = @ + 1]
    BY DEF reject_sample
  <2> HIDE DEF v
  <2>3. stats \in [Counters -> Nat]
    BY DEF IInv, TypeOK
  <2> QED
    BY <2>1, <2>2, <2>3
<1> QED
  BY <1>1 DEF reject_sample, buffering, IInv, TypeOK, Increasing, Retained, Remembered,
              RemovalsExplained, BoundaryCovered, Dropped

LEMMA InvStep == IInv /\ [Next]_vars => IInv'
<1> SUFFICES ASSUME IInv, [Next]_vars PROVE IInv'
  OBVIOUS
<1>1. ASSUME NEW m \in Messages, imu_callback(m)
      PROVE  IInv'
  BY <1>1, RejectKeepsInv, AcceptKeepsInv DEF imu_callback
<1>2. ASSUME NEW left \in Times, NEW right \in Times, takeMeasurements(left, right)
      PROVE  IInv'
  BY <1>2, TakeKeepsInv
<1>3. CASE stop \/ UNCHANGED vars
  BY <1>3 DEF stop, vars, imu_vars, buffering, IInv, TypeOK, Increasing, Retained, Remembered,
              RemovalsExplained, BoundaryCovered, Dropped
<1> QED
  BY <1>1, <1>2, <1>3 DEF Next

LEMMA InvInit == Init => IInv
<1> SUFFICES ASSUME Init PROVE IInv
  OBVIOUS
<1>1. <<>> \in Seq(Times) /\ Len(<<>>) = 0
  BY EmptySeq
<1>2. TypeOK
  <2>1. stats \in [Counters -> Nat]
    <3>1. 0 \in Nat
      OBVIOUS
    <3> QED
      BY <3>1, Zenon DEF Init
  <2>2. Len(imu_buffer) <= BufferCapacity
    BY <1>1, ImuFrontendAssumption DEF Init
  <2> QED
    BY <1>1, <2>1, <2>2, Zenon DEF Init, TypeOK
<1> QED
  BY <1>1, <1>2 DEF Init, IInv, Increasing, Retained, Remembered, RemovalsExplained,
                    BoundaryCovered, Dropped

LEMMA InvHolds == Spec => []IInv
BY InvInit, InvStep, PTL DEF Spec

(* Every variable keeps its type, and the buffer its capacity, whatever     *)
(* messages arrive and whatever intervals are asked for.                    *)
THEOREM TypeInvariant == Spec => []TypeOK
<1>1. IInv => TypeOK
  BY DEF IInv
<1> QED
  BY <1>1, InvHolds, PTL

(* Through every eviction and every take the buffer is the newest part of   *)
(* the accepted samples, in increasing seconds, and not empty after the     *)
(* first: what the precision check and the binary searches take for granted.*)
THEOREM BufferHoldsRecentHistory == Spec => []BufferIsRecentHistory
<1>1. IInv => BufferIsRecentHistory
  <2> SUFFICES ASSUME IInv PROVE BufferIsRecentHistory
    OBVIOUS
  <2> DEFINE n == Len(arrived)
             suffix == SubSeq(arrived, Dropped + 1, n)
  <2>1. Dropped \in 0..n /\ n \in Nat /\ Len(imu_buffer) = n - Dropped
    BY BufferIsIncreasing, Sequences DEF Dropped
  <2>2. \A i \in (Dropped + 1)..n : arrived[i] \in Times
    BY <2>1, Sequences
  <2>3. /\ suffix \in Seq(Times)
        /\ Len(suffix) = IF Dropped + 1 <= n THEN n - (Dropped + 1) + 1 ELSE 0
        /\ \A i \in 1..(n - (Dropped + 1) + 1) : suffix[i] = arrived[Dropped + 1 + i - 1]
    BY <2>1, <2>2, SubSeqProperties
  <2> HIDE DEF suffix, n
  <2>4. Len(suffix) = Len(imu_buffer)
    BY <2>1, <2>3
  <2>5. ASSUME NEW i \in 1..Len(imu_buffer)
        PROVE  imu_buffer[i] = suffix[i]
    <3>1. i \in 1..(n - (Dropped + 1) + 1) /\ Dropped + 1 + i - 1 = Dropped + i
      BY <2>1
    <3> QED
      BY <2>3, <3>1 DEF IInv, Retained
  <2>6. imu_buffer = suffix
    BY <2>3, <2>4, <2>5, SeqEqual DEF IInv, TypeOK
  <2> QED
    BY <2>1, <2>6, BufferIsIncreasing
       DEF BufferIsRecentHistory, Increasing, IInv, TypeOK, Retained, suffix, n
<1> QED
  BY <1>1, InvHolds, PTL

(* MissingHistory is answered only if no accepted sample was ever early     *)
(* enough, and BufferOverflow only if the anchor was there and was evicted: *)
(* no take can be the reason for either.                                    *)
THEOREM LostHistoryIsClassified == Spec => []LostHistoryClassified
<1>1. IInv => LostHistoryClassified
  <2> SUFFICES ASSUME IInv, NEW left \in Times, NEW right \in Times
               PROVE  LET anchors == {i \in 1..Len(arrived) : arrived[i] <= left}
                      IN  /\ QueryStatus(left, right) = "MissingHistory" => anchors = {}
                          /\ QueryStatus(left, right) = "BufferOverflow" =>
                                /\ anchors # {}
                                /\ last_overflow_timestamp # None
                                /\ \A i \in anchors : arrived[i] <= last_overflow_timestamp
    BY DEF LostHistoryClassified
  <2>1. left \in Nat /\ Len(arrived) \in Nat
    BY Sequences
  <2>2. \A i \in 1..Len(arrived) : arrived[1] <= arrived[i]
    <3> TAKE i \in 1..Len(arrived)
    <3>1. 1 \in 1..Len(arrived) /\ arrived[1] \in Nat /\ (1 < i => arrived[1] < arrived[i])
      BY <2>1, Sequences DEF IInv, Increasing
    <3> QED
      BY <2>1, <3>1, Sequences
  <2>3. ASSUME QueryStatus(left, right) = "MissingHistory", NEW i \in 1..Len(arrived)
        PROVE  ~(arrived[i] <= left)
    <3>1. left < first_timestamp
      BY <2>3 DEF QueryStatus
    <3>2. first_timestamp = arrived[1]
      BY <2>3, Sequences DEF IInv, Remembered
    <3>3. arrived[1] \in Nat /\ arrived[i] \in Nat
      BY <2>1, Sequences
    <3> QED
      BY <2>1, <2>2, <3>1, <3>2, <3>3
  <2>4. ASSUME QueryStatus(left, right) = "BufferOverflow"
        PROVE  /\ 1 \in 1..Len(arrived) /\ arrived[1] <= left
               /\ last_overflow_timestamp # None
               /\ \A i \in 1..Len(arrived) :
                     arrived[i] <= left => arrived[i] <= last_overflow_timestamp
    <3>1. /\ imu_buffer # <<>> /\ imu_buffer[1] > left /\ ~(left < first_timestamp)
          /\ last_taken_timestamp \in {None, left}
      BY <2>4 DEF QueryStatus
    <3>2. /\ 1 \in 1..Len(imu_buffer) /\ 1 \in 1..Len(arrived)
          /\ imu_buffer[1] \in Nat /\ arrived[1] \in Nat
          /\ first_timestamp = arrived[1] /\ Dropped \in Nat
      BY <3>1, Sequences, BufferIsIncreasing DEF IInv, Retained, Remembered
    <3>3. imu_buffer[1] = arrived[Dropped + 1]
      BY <3>2 DEF IInv, Retained
    <3>4. Dropped \in 1..Len(arrived) /\ Dropped + 1 \in 1..Len(arrived)
      <4>1. Dropped # 0
        BY <2>1, <3>1, <3>2, <3>3
      <4> QED
        BY <3>2, <4>1, BufferIsIncreasing, Sequences DEF Dropped
    <3>5. last_overflow_timestamp = arrived[Dropped]
      BY <2>1, <3>1, <3>2, <3>4, Sequences DEF IInv, RemovalsExplained
    <3>6. ASSUME NEW i \in 1..Len(arrived), arrived[i] <= left
          PROVE  arrived[i] <= arrived[Dropped]
      <4>1. arrived[i] \in Nat /\ arrived[Dropped] \in Nat /\ arrived[Dropped + 1] \in Nat
        BY <3>4, Sequences
      <4>2. i < Dropped + 1
        BY <2>1, <3>1, <3>3, <3>4, <3>6, <4>1 DEF IInv, Increasing
      <4>3. i < Dropped => arrived[i] < arrived[Dropped]
        BY <3>4 DEF IInv, Increasing
      <4> QED
        BY <3>4, <4>1, <4>2, <4>3
    <3>7. last_overflow_timestamp # None
      BY <3>4, <3>5, Sequences
    <3> QED
      BY <2>1, <3>1, <3>2, <3>5, <3>6, <3>7
  <2> QED
    BY <2>3, <2>4
<1> QED
  BY <1>1, InvHolds, PTL

-----------------------------------------------------------------------------
(* The delivery promise *)

(* A search of the buffer finds what the same search of the whole history   *)
(* would find, for every time the buffer covers.                            *)
LEMMA BufferAnswersForHistory ==
  ASSUME IInv, imu_buffer # <<>>, NEW t \in Nat,
         imu_buffer[1] <= t, t <= Newest(imu_buffer)
  PROVE  Splits(arrived, t, UpperBound(imu_buffer, t) + Dropped)
<1>1. /\ Increasing(arrived) /\ Increasing(imu_buffer)
      /\ arrived \in Seq(Nat) /\ imu_buffer \in Seq(Nat)
      /\ Newest(imu_buffer) = arrived[Len(arrived)]
  BY Sequences, BufferIsIncreasing DEF IInv
<1>2. /\ Dropped \in 0..(Len(arrived) - 1)
      /\ Len(arrived) - Dropped = Len(imu_buffer) /\ Len(imu_buffer) \in Nat
  BY Sequences, BufferIsIncreasing DEF Dropped
<1>3. \A i \in 1..(Len(arrived) - Dropped) : imu_buffer[i] = arrived[Dropped + i]
  BY <1>2 DEF IInv, Retained
<1>4. t <= arrived[Len(arrived)]
  BY <1>1
<1>5. Len(arrived) - Dropped <= Len(imu_buffer)
  BY <1>2
<1>6. UpperBound(arrived, t) = UpperBound(imu_buffer, t) + Dropped
  <2> HIDE DEF Dropped
  <2> QED
    BY <1>1, <1>2, <1>3, <1>4, <1>5, UpperBoundShift
<1> QED
  BY <1>1, <1>6, UpperBoundSplits

LEMMA AcceptArrives ==
  ASSUME IInv, NEW m \in Messages, accept_sample(m)
  PROVE  \E t \in Times : Delivery!Arrive(t)
<1> DEFINE t == Seconds(m.ns)
<1>1. t \in Times /\ \A i \in 1..Len(arrived) : arrived[i] < t
  BY AcceptedIsNewer DEF accept_sample
<1>2. arrived = <<>> \/ Len(arrived) \in 1..Len(arrived)
  BY Sequences
<1>3. arrived' = Append(arrived, t) /\ UNCHANGED <<delivered, last_taken_timestamp>>
  BY DEF accept_sample
<1> HIDE DEF t
<1>4. Delivery!Arrive(t)
  BY <1>1, <1>2, <1>3 DEF Delivery!Arrive
<1> QED
  BY <1>1, <1>4

LEMMA TakeDelivers ==
  ASSUME IInv, NEW left \in Times, NEW right \in Times,
         takeMeasurements(left, right), TakeStatus(left, right) = "Ready"
  PROVE  Delivery!Deliver(left, right)
<1> DEFINE first == UpperBound(imu_buffer, left)
           end   == UpperBound(imu_buffer, right)
           n     == Len(imu_buffer)
<1>1. QueryStatus(left, right) = "Ready"
  BY DEF TakeStatus
<1>2. /\ left < right /\ last_taken_timestamp \in {None, left}
      /\ imu_buffer # <<>> /\ imu_buffer[1] <= left
      /\ right <= imu_buffer[n]
      /\ Splits(imu_buffer, left, first) /\ Splits(imu_buffer, right, end)
      /\ first \in Nat /\ end \in Nat
      /\ 1 < first /\ first < end /\ end <= n + 1
      /\ \A i \in Coverage(imu_buffer, left, right) :
            ~(imu_buffer[i] - imu_buffer[i - 1] > MaxGap)
  BY <1>1, ReadyMeans
<1>3. /\ left \in Nat /\ right \in Nat /\ n \in Nat /\ n >= 1 /\ MaxGap \in Nat
      /\ \A i \in 1..n : imu_buffer[i] \in Nat
  BY <1>2, Sequences, ImuFrontendAssumption
<1>4. imu_buffer[1] <= right /\ left <= imu_buffer[n]
  <2>1. 1 \in 1..n /\ n \in 1..n
    BY <1>3
  <2>2. imu_buffer[1] \in Nat /\ imu_buffer[n] \in Nat
    BY <1>3, <2>1
  <2> QED
    BY <1>2, <1>3, <2>2
<1>5. Splits(arrived, left, first + Dropped) /\ Splits(arrived, right, end + Dropped)
  BY <1>2, <1>3, <1>4, BufferAnswersForHistory DEF Newest
<1>6. /\ last_taken_timestamp' = right /\ arrived' = arrived
      /\ delivered' = delivered \o SubSeq(imu_buffer, first, end - 1)
  BY DEF takeMeasurements, Batch, NextBoundary
<1>7. \A i \in Coverage(imu_buffer, left, right) :
         /\ i \in first..(IF imu_buffer[end - 1] = right THEN end - 1 ELSE end)
  BY DEF Coverage
<1>8. \A i \in first..(IF imu_buffer[end - 1] = right THEN end - 1 ELSE end) :
         ~(imu_buffer[i] - imu_buffer[i - 1] > MaxGap)
  BY <1>2 DEF Coverage
<1> HIDE DEF first, end
<1>9. /\ Dropped \in 0..Len(arrived) /\ Len(arrived) = Dropped + n /\ Len(arrived) \in Nat
  BY BufferIsIncreasing, Sequences DEF Dropped
<1>10. \A i \in 1..n : imu_buffer[i] = arrived[Dropped + i]
  BY DEF IInv, Retained
<1> HIDE DEF n, Dropped
<1> DEFINE F == first + Dropped
           E == end + Dropped
<1>11. /\ F \in 1..(Len(arrived) + 1) /\ E \in 1..(Len(arrived) + 1)
       /\ 1 < F /\ F < E
  BY <1>2, <1>3, <1>9
<1>12. end - 1 \in 1..n /\ Dropped + (end - 1) = E - 1
  BY <1>2, <1>3, <1>9
<1>13. arrived[E - 1] = imu_buffer[end - 1]
  BY <1>10, <1>12
<1>14. arrived[E - 1] = right \/ E <= Len(arrived)
  <2> SUFFICES ASSUME ~(E <= Len(arrived)) PROVE imu_buffer[end - 1] = right
    BY <1>13
  <2>1. end - 1 = n
    BY <1>2, <1>3, <1>9
  <2>2. imu_buffer[end - 1] <= right
    BY <1>2, <1>3, <1>12 DEF Splits, n
  <2>3. right <= imu_buffer[end - 1] /\ imu_buffer[end - 1] \in Nat
    BY <1>2, <1>3, <1>12, <2>1
  <2> QED
    BY <1>3, <2>2, <2>3
<1>15. ASSUME NEW i \in F..(IF arrived[E - 1] = right THEN E - 1 ELSE E)
       PROVE  arrived[i] - arrived[i - 1] <= MaxGap
  <2>1. PICK j \in Int : j = i - Dropped
    BY <1>9
  <2>2. i = Dropped + j /\ i - 1 = Dropped + (j - 1)
    BY <1>9, <1>11, <2>1
  <2>3. j \in first..(IF imu_buffer[end - 1] = right THEN end - 1 ELSE end)
    BY <1>2, <1>9, <1>13, <2>1
  <2>4. j \in 1..n /\ j - 1 \in 1..n
    BY <1>2, <1>3, <1>9, <1>13, <1>14, <2>3
  <2>5. imu_buffer[j] = arrived[i] /\ imu_buffer[j - 1] = arrived[i - 1]
    BY <1>10, <2>2, <2>4
  <2>6. imu_buffer[j] \in Nat /\ imu_buffer[j - 1] \in Nat
    BY <1>3, <2>4
  <2>7. ~(imu_buffer[j] - imu_buffer[j - 1] > MaxGap)
    BY <1>8, <2>3
  <2> QED
    BY <1>3, <2>5, <2>6, <2>7
<1>16. SubSeq(imu_buffer, first, end - 1) = SubSeq(arrived, F, E - 1)
  <2>1. \A i \in 1..n : imu_buffer[i] \in Nat
    BY <1>3
  <2>2. \A i \in 1..Len(arrived) : arrived[i] \in Nat
    BY Sequences
  <2> DEFINE b == SubSeq(imu_buffer, first, end - 1)
             a == SubSeq(arrived, F, E - 1)
  <2>3. /\ b \in Seq(Nat) /\ Len(b) = end - first
        /\ \A i \in 1..(end - first) : b[i] = imu_buffer[first + i - 1]
    <3>1. \A i \in first..(end - 1) : imu_buffer[i] \in Nat
      BY <1>2, <1>3
    <3>2. /\ b \in Seq(Nat)
          /\ Len(b) = IF first <= end - 1 THEN (end - 1) - first + 1 ELSE 0
          /\ \A i \in 1..((end - 1) - first + 1) : b[i] = imu_buffer[first + i - 1]
      BY <1>2, <3>1, SubSeqProperties
    <3>3. first <= end - 1 /\ (end - 1) - first + 1 = end - first
      BY <1>2
    <3> QED
      BY <3>2, <3>3
  <2>4. /\ a \in Seq(Nat) /\ Len(a) = end - first
        /\ \A i \in 1..(end - first) : a[i] = arrived[F + i - 1]
    <3>1. \A i \in F..(E - 1) : arrived[i] \in Nat
      BY <1>11, <1>9, <2>2
    <3>2. F \in Int /\ E - 1 \in Int
      BY <1>11
    <3>3. /\ a \in Seq(Nat)
          /\ Len(a) = IF F <= E - 1 THEN (E - 1) - F + 1 ELSE 0
          /\ \A i \in 1..((E - 1) - F + 1) : a[i] = arrived[F + i - 1]
      BY <3>1, <3>2, SubSeqProperties
    <3>4. F <= E - 1 /\ (E - 1) - F + 1 = end - first
      BY <1>2, <1>9
    <3> QED
      BY <3>3, <3>4
  <2>5. ASSUME NEW i \in 1..(end - first)
        PROVE  b[i] = a[i]
    <3>1. PICK j \in 1..n : j = first + i - 1
      BY <1>2, <1>3
    <3>2. Dropped + j = F + i - 1
      BY <1>2, <1>9, <3>1
    <3> QED
      BY <1>10, <2>3, <2>4, <3>1, <3>2
  <2> HIDE DEF a, b
  <2>6. a = b
    BY <2>3, <2>4, <2>5, SeqEqual
  <2> QED
    BY <2>6 DEF a, b
<1>17. /\ Delivery!IsUpperBound(arrived, left, F)
       /\ Delivery!IsUpperBound(arrived, right, E)
  BY <1>5 DEF Splits, Delivery!IsUpperBound
<1> HIDE DEF F, E
<1> QED
  BY <1>2, <1>6, <1>11, <1>14, <1>15, <1>16, <1>17 DEF Delivery!Deliver

(* The bounded buffer keeps the promise of ImuDelivery: an accepted message *)
(* is the arrival of a later sample, and a granted interval is answered     *)
(* with what the complete history has between its ends, whatever overflow   *)
(* and earlier takes have removed.                                          *)
THEOREM FrontendImplementsDelivery == Spec => ImplementsDelivery
<1>1. Init => Delivery!Init
  BY DEF Init, Delivery!Init
<1>2. IInv /\ [Next]_vars => [Delivery!Next]_(Delivery!vars)
  <2> SUFFICES ASSUME IInv, [Next]_vars PROVE [Delivery!Next]_(Delivery!vars)
    OBVIOUS
  <2>1. ASSUME NEW m \in Messages, reject_sample(m)
        PROVE  UNCHANGED Delivery!vars
    BY <2>1 DEF reject_sample, buffering, Delivery!vars
  <2>2. ASSUME NEW m \in Messages, accept_sample(m)
        PROVE  Delivery!Next
    BY <2>2, AcceptArrives DEF Delivery!Next
  <2>3. ASSUME NEW left \in Times, NEW right \in Times, takeMeasurements(left, right)
        PROVE  [Delivery!Next]_(Delivery!vars)
    <3>1. CASE TakeStatus(left, right) = "Ready"
      BY <2>3, <3>1, TakeDelivers DEF Delivery!Next
    <3>2. CASE TakeStatus(left, right) # "Ready"
      BY <2>3, <3>2 DEF takeMeasurements, Delivery!vars
    <3> QED
      BY <3>1, <3>2
  <2>4. CASE stop \/ UNCHANGED vars
    BY <2>4 DEF stop, vars, imu_vars, buffering, Delivery!vars
  <2> QED
    BY <2>1, <2>2, <2>3, <2>4 DEF Next, imu_callback
<1> QED
  BY <1>1, <1>2, InvHolds, PTL DEF Spec, ImplementsDelivery, Delivery!Spec

-----------------------------------------------------------------------------
(* Exactly-once delivery, proved of ImuDelivery and inherited               *)

(* A run of a sequence: its length and its elements.                        *)
LEMMA RunOf ==
  ASSUME NEW s \in Seq(Nat), NEW i \in 1..(Len(s) + 1), NEW j \in 1..(Len(s) + 1), i <= j
  PROVE  /\ SubSeq(s, i, j - 1) \in Seq(Nat)
         /\ Len(SubSeq(s, i, j - 1)) = j - i
         /\ \A k \in 1..(j - i) : SubSeq(s, i, j - 1)[k] = s[i + k - 1]
<1>1. Len(s) \in Nat /\ \A k \in 1..Len(s) : s[k] \in Nat
  BY LenProperties
<1>2. \A k \in i..(j - 1) : s[k] \in Nat
  BY <1>1
<1>3. i \in Int /\ j - 1 \in Int
  BY <1>1
<1>4. /\ SubSeq(s, i, j - 1) \in Seq(Nat)
      /\ Len(SubSeq(s, i, j - 1)) = IF i <= j - 1 THEN (j - 1) - i + 1 ELSE 0
      /\ \A k \in 1..((j - 1) - i + 1) : SubSeq(s, i, j - 1)[k] = s[i + k - 1]
  BY <1>2, <1>3, SubSeqProperties
<1>5. (j - 1) - i + 1 = j - i /\ (~(i <= j - 1) => j - i = 0)
  BY <1>1
<1> QED
  BY <1>4, <1>5

(* Adjacent runs make one run.                                              *)
LEMMA RunsJoin ==
  ASSUME NEW s \in Seq(Nat), NEW i \in 1..(Len(s) + 1), NEW j \in 1..(Len(s) + 1),
         NEW k \in 1..(Len(s) + 1), i <= j, j <= k
  PROVE  SubSeq(s, i, j - 1) \o SubSeq(s, j, k - 1) = SubSeq(s, i, k - 1)
<1> DEFINE a == SubSeq(s, i, j - 1)
           b == SubSeq(s, j, k - 1)
           c == SubSeq(s, i, k - 1)
<1>1. Len(s) \in Nat /\ i \in Int /\ j \in Int /\ k \in Int /\ i <= k
  BY LenProperties
<1>2. a \in Seq(Nat) /\ Len(a) = j - i /\ \A m \in 1..(j - i) : a[m] = s[i + m - 1]
  BY RunOf
<1>3. b \in Seq(Nat) /\ Len(b) = k - j /\ \A m \in 1..(k - j) : b[m] = s[j + m - 1]
  BY RunOf
<1>4. c \in Seq(Nat) /\ Len(c) = k - i /\ \A m \in 1..(k - i) : c[m] = s[i + m - 1]
  BY <1>1, RunOf
<1> HIDE DEF a, b, c
<1>5. /\ a \o b \in Seq(Nat) /\ Len(a \o b) = Len(a) + Len(b)
      /\ \A m \in 1..(Len(a) + Len(b)) :
            (a \o b)[m] = IF m <= Len(a) THEN a[m] ELSE b[m - Len(a)]
  BY <1>2, <1>3, ConcatProperties
<1>6. Len(a \o b) = k - i
  BY <1>1, <1>2, <1>3, <1>5
<1>7. ASSUME NEW m \in 1..(k - i)
      PROVE  (a \o b)[m] = c[m]
  <2>1. CASE m <= j - i
    <3>1. m \in 1..(j - i)
      BY <1>1, <2>1
    <3> QED
      BY <1>1, <1>2, <1>3, <1>4, <1>5, <3>1
  <2>2. CASE m > j - i
    <3>1. PICK l \in 1..(k - j) : l = m - (j - i)
      BY <1>1, <2>2
    <3>2. j + l - 1 = i + m - 1 /\ ~(m <= j - i) /\ l = m - Len(a)
      BY <1>1, <1>2, <2>2, <3>1
    <3>3. m \in 1..(Len(a) + Len(b))
      BY <1>1, <1>2, <1>3
    <3>4. (a \o b)[m] = b[l]
      BY <1>2, <1>5, <3>2, <3>3
    <3> QED
      BY <1>3, <1>4, <3>1, <3>2, <3>4
  <2>3. m <= j - i \/ m > j - i
    BY <1>1
  <2> QED
    BY <2>1, <2>2, <2>3, Zenon
<1>8. a \o b = c
  BY <1>4, <1>5, <1>6, <1>7, SeqEqual
<1> QED
  BY <1>8 DEF a, b, c

(* A run is not changed by what is appended after it.                       *)
LEMMA RunOfAppend ==
  ASSUME NEW s \in Seq(Nat), NEW t \in Nat,
         NEW i \in 1..(Len(s) + 1), NEW j \in 1..(Len(s) + 1), i <= j
  PROVE  SubSeq(Append(s, t), i, j - 1) = SubSeq(s, i, j - 1)
<1> DEFINE u == Append(s, t)
           a == SubSeq(u, i, j - 1)
           b == SubSeq(s, i, j - 1)
<1>1. Len(s) \in Nat /\ i \in Int /\ j \in Int
  BY LenProperties
<1>2. u \in Seq(Nat) /\ Len(u) = Len(s) + 1 /\ \A m \in 1..Len(s) : u[m] = s[m]
  BY <1>1, AppendProperties
<1> HIDE DEF u
<1>3. i \in 1..(Len(u) + 1) /\ j \in 1..(Len(u) + 1)
  BY <1>1, <1>2
<1>4. a \in Seq(Nat) /\ Len(a) = j - i /\ \A m \in 1..(j - i) : a[m] = u[i + m - 1]
  BY <1>2, <1>3, RunOf
<1>5. b \in Seq(Nat) /\ Len(b) = j - i /\ \A m \in 1..(j - i) : b[m] = s[i + m - 1]
  BY RunOf
<1> HIDE DEF a, b
<1>6. ASSUME NEW m \in 1..(j - i)
      PROVE  a[m] = b[m]
  <2>1. i + m - 1 \in 1..Len(s)
    BY <1>1
  <2> QED
    BY <1>2, <1>4, <1>5, <2>1
<1>7. a = b
  BY <1>4, <1>5, <1>6, SeqEqual
<1> QED
  BY <1>7 DEF a, b, u

\* ExactlyOnce with what its preservation needs: arrivals in increasing time,
\* and a boundary the arrivals have reached.
DeliveryInv ==
    /\ arrived \in Seq(Nat) /\ Increasing(arrived)
    /\ last_taken_timestamp \in Times \cup {None}
    /\ BoundaryCovered
    /\ Delivery!ExactlyOnce

LEMMA ArriveKeepsInv ==
  ASSUME DeliveryInv, NEW t \in Times, Delivery!Arrive(t)
  PROVE  DeliveryInv'
<1>1. /\ t \in Nat /\ None \notin Nat /\ Times \subseteq Nat
      /\ arrived \in Seq(Nat) /\ Increasing(arrived) /\ Len(arrived) \in Nat
      /\ \A i \in 1..Len(arrived) : arrived[i] \in Nat
  BY ImuFrontendAssumption, LenProperties DEF DeliveryInv
<1>2. /\ arrived = <<>> \/ arrived[Len(arrived)] < t
      /\ arrived' = Append(arrived, t)
      /\ delivered' = delivered /\ last_taken_timestamp' = last_taken_timestamp
  BY DEF Delivery!Arrive
<1> DEFINE n == Len(arrived)
<1>3. /\ arrived' \in Seq(Nat) /\ Len(arrived') = n + 1
      /\ \A i \in 1..n : arrived'[i] = arrived[i]
      /\ arrived'[n + 1] = t
  BY <1>1, <1>2, AppendProperties
<1>4. ASSUME NEW i \in 1..n
      PROVE  arrived[i] < t
  <2>1. arrived # <<>> /\ n \in 1..n
    BY <1>1
  <2>2. i < n => arrived[i] < arrived[n]
    BY <1>1, <2>1 DEF Increasing
  <2>3. arrived[i] \in Nat /\ arrived[n] \in Nat
    BY <1>1, <2>1
  <2> QED
    BY <1>1, <1>2, <2>1, <2>2, <2>3
<1>5. Increasing(arrived)'
  <2> SUFFICES ASSUME NEW i \in 1..(n + 1), NEW j \in 1..(n + 1), i < j
               PROVE  arrived'[i] < arrived'[j]
    BY <1>3 DEF Increasing
  <2>1. i \in 1..n /\ (j \in 1..n \/ j = n + 1)
    BY <1>1
  <2> QED
    BY <1>1, <1>3, <1>4, <2>1 DEF Increasing
<1>6. BoundaryCovered'
  <2> SUFFICES ASSUME last_taken_timestamp # None
               PROVE  arrived' # <<>> /\ last_taken_timestamp <= arrived'[Len(arrived')]
    BY <1>2 DEF BoundaryCovered
  <2>1. arrived # <<>> /\ last_taken_timestamp <= arrived[n]
    BY DEF DeliveryInv, BoundaryCovered
  <2>2. n \in 1..n
    BY <1>1, <2>1, EmptySeq
  <2>3. last_taken_timestamp \in Nat /\ arrived[n] \in Nat /\ arrived[n] < t
    BY <1>1, <1>4, <2>2 DEF DeliveryInv
  <2> QED
    BY <1>1, <1>3, <2>1, <2>3, EmptySeq
<1>7. Delivery!ExactlyOnce'
  <2>1. CASE last_taken_timestamp = None
    BY <1>2, <2>1 DEF DeliveryInv, Delivery!ExactlyOnce
  <2>2. CASE last_taken_timestamp # None
    <3>1. PICK first \in 1..(n + 1), end \in 1..(n + 1) :
             /\ Delivery!IsUpperBound(arrived, last_taken_timestamp, end)
             /\ first < end
             /\ delivered = SubSeq(arrived, first, end - 1)
      BY <2>2 DEF DeliveryInv, Delivery!ExactlyOnce
    <3>2. first \in 1..(n + 2) /\ end \in 1..(n + 2)
      BY <1>1
    <3>3. delivered' = SubSeq(arrived', first, end - 1)
      BY <1>1, <1>2, <3>1, RunOfAppend
    <3>4. ASSUME NEW j \in 1..(n + 1)
          PROVE  j < end <=> arrived'[j] <= last_taken_timestamp
      <4>1. CASE j \in 1..n
        BY <1>3, <3>1, <4>1 DEF Delivery!IsUpperBound
      <4>2. CASE j = n + 1
        <5>1. last_taken_timestamp <= arrived[n] /\ arrived # <<>>
          BY <2>2 DEF DeliveryInv, BoundaryCovered
        <5>2. n \in 1..n
          BY <1>1, <5>1, EmptySeq
        <5>3. arrived[n] < t /\ arrived[n] \in Nat /\ last_taken_timestamp \in Nat
          BY <1>1, <1>4, <2>2, <5>2 DEF DeliveryInv
        <5>4. ~(t <= last_taken_timestamp)
          BY <1>1, <5>1, <5>3
        <5>5. ~(j < end)
          BY <1>1, <4>2
        <5> QED
          BY <1>3, <4>2, <5>4, <5>5
      <4>3. j \in 1..n \/ j = n + 1
        BY <1>1
      <4> QED
        BY <4>1, <4>2, <4>3
    <3>5. Delivery!IsUpperBound(arrived', last_taken_timestamp', end)
      BY <1>1, <1>2, <1>3, <3>2, <3>4 DEF Delivery!IsUpperBound
    <3>6. /\ first \in 1..(Len(arrived') + 1) /\ end \in 1..(Len(arrived') + 1)
      BY <1>1, <1>3
    <3> QED
      BY <1>2, <2>2, <3>1, <3>3, <3>5, <3>6 DEF Delivery!ExactlyOnce
  <2> QED
    BY <2>1, <2>2
<1> QED
  BY <1>2, <1>3, <1>5, <1>6, <1>7 DEF DeliveryInv

LEMMA DeliverKeepsInv ==
  ASSUME DeliveryInv, NEW left \in Times, NEW right \in Times,
         Delivery!Deliver(left, right)
  PROVE  DeliveryInv'
<1>1. /\ left \in Nat /\ right \in Nat /\ None \notin Nat
      /\ arrived \in Seq(Nat) /\ Increasing(arrived) /\ Len(arrived) \in Nat
      /\ \A i \in 1..Len(arrived) : arrived[i] \in Nat
  BY ImuFrontendAssumption, LenProperties DEF DeliveryInv
<1> DEFINE n == Len(arrived)
<1>2. PICK first \in 1..(n + 1), end \in 1..(n + 1) :
         /\ Delivery!IsUpperBound(arrived, left, first)
         /\ Delivery!IsUpperBound(arrived, right, end)
         /\ 1 < first /\ first < end
         /\ arrived[end - 1] = right \/ end <= n
         /\ delivered' = delivered \o SubSeq(arrived, first, end - 1)
  BY DEF Delivery!Deliver
<1>3. /\ last_taken_timestamp \in {None, left} /\ last_taken_timestamp' = right
      /\ arrived' = arrived
  BY DEF Delivery!Deliver
<1>4. BoundaryCovered'
  <2>1. n \in 1..n /\ arrived # <<>>
    BY <1>1, <1>2, EmptySeq
  <2>2. PICK k \in 1..n : right <= arrived[k]
    <3>1. CASE arrived[end - 1] = right
      <4>1. end - 1 \in 1..n
        BY <1>1, <1>2
      <4> QED
        BY <1>1, <3>1, <4>1
    <3>2. CASE end <= n
      <4>1. end \in 1..n /\ ~(end < end)
        BY <1>1, <3>2
      <4>2. ~(arrived[end] <= right) /\ arrived[end] \in Nat
        BY <1>1, <1>2, <4>1 DEF Delivery!IsUpperBound
      <4> QED
        BY <1>1, <4>1, <4>2
    <3> QED
      BY <1>2, <3>1, <3>2
  <2>3. k < n => arrived[k] < arrived[n]
    BY <1>1, <2>1 DEF Increasing
  <2>4. arrived[k] \in Nat /\ arrived[n] \in Nat
    BY <1>1, <2>1
  <2>5. right <= arrived[n]
    BY <1>1, <2>2, <2>3, <2>4
  <2> QED
    BY <1>3, <2>1, <2>5 DEF BoundaryCovered
<1>5. \E f \in 1..(n + 1) : f < end /\ delivered' = SubSeq(arrived, f, end - 1)
  <2>1. CASE last_taken_timestamp = None
    <3>1. delivered = <<>>
      BY <2>1 DEF DeliveryInv, Delivery!ExactlyOnce
    <3>2. SubSeq(arrived, first, end - 1) \in Seq(Nat)
      BY <1>1, <1>2, RunOf
    <3>3. <<>> \o SubSeq(arrived, first, end - 1) = SubSeq(arrived, first, end - 1)
      BY <3>2, ConcatEmptySeq
    <3> QED
      BY <1>2, <3>1, <3>3
  <2>2. CASE last_taken_timestamp # None
    <3>1. last_taken_timestamp = left
      BY <1>3, <2>2
    <3>2. PICK f \in 1..(n + 1), e \in 1..(n + 1) :
             /\ Delivery!IsUpperBound(arrived, left, e)
             /\ f < e
             /\ delivered = SubSeq(arrived, f, e - 1)
      BY <2>2, <3>1 DEF DeliveryInv, Delivery!ExactlyOnce
    <3>3. e = first
      BY <1>1, <1>2, <3>2, SplitsUnique DEF Splits, Delivery!IsUpperBound
    <3>4. SubSeq(arrived, f, first - 1) \o SubSeq(arrived, first, end - 1)
            = SubSeq(arrived, f, end - 1)
      <4>1. f <= first /\ first <= end
        BY <1>1, <1>2, <3>2, <3>3
      <4> QED
        BY <1>1, <4>1, RunsJoin
    <3>5. f < end
      BY <1>1, <1>2, <3>2, <3>3
    <3> QED
      BY <1>2, <3>2, <3>3, <3>4, <3>5
  <2> QED
    BY <2>1, <2>2
<1>6. Delivery!ExactlyOnce'
  BY <1>1, <1>2, <1>3, <1>5 DEF Delivery!ExactlyOnce, Delivery!IsUpperBound
<1>7. Increasing(arrived)' /\ arrived' \in Seq(Nat)
  BY <1>1, <1>3 DEF Increasing
<1> QED
  BY <1>3, <1>4, <1>6, <1>7 DEF DeliveryInv

(* Adjacent intervals answered from increasing arrivals deliver one         *)
(* contiguous run of them, whoever answers: every implementation of         *)
(* ImuDelivery delivers exactly once.                                       *)
THEOREM DeliveryIsExactlyOnce == Delivery!Spec => []Delivery!ExactlyOnce
<1>1. Delivery!Init => DeliveryInv
  <2>1. <<>> \in Seq(Nat) /\ Len(<<>>) = 0
    BY EmptySeq
  <2> QED
    BY <2>1 DEF Delivery!Init, DeliveryInv, Increasing, BoundaryCovered, Delivery!ExactlyOnce
<1>2. DeliveryInv /\ [Delivery!Next]_(Delivery!vars) => DeliveryInv'
  <2> SUFFICES ASSUME DeliveryInv, [Delivery!Next]_(Delivery!vars) PROVE DeliveryInv'
    OBVIOUS
  <2>1. ASSUME NEW t \in Times, Delivery!Arrive(t)
        PROVE  DeliveryInv'
    BY <2>1, ArriveKeepsInv
  <2>2. ASSUME NEW left \in Times, NEW right \in Times, Delivery!Deliver(left, right)
        PROVE  DeliveryInv'
    BY <2>2, DeliverKeepsInv
  <2>3. CASE UNCHANGED Delivery!vars
    BY <2>3 DEF Delivery!vars, DeliveryInv, Increasing, BoundaryCovered,
                Delivery!ExactlyOnce, Delivery!IsUpperBound
  <2> QED
    BY <2>1, <2>2, <2>3 DEF Delivery!Next
<1>3. DeliveryInv => Delivery!ExactlyOnce
  BY DEF DeliveryInv
<1> QED
  BY <1>1, <1>2, <1>3, PTL DEF Delivery!Spec

(* No accepted sample reaches tracking twice, and none is skipped between   *)
(* two takes, whatever the capacity, the losses and the retries.            *)
THEOREM SamplesDeliveredExactlyOnce == Spec => []ExactlyOnceDelivery
BY FrontendImplementsDelivery, DeliveryIsExactlyOnce, PTL
   DEF ImplementsDelivery, ExactlyOnceDelivery

-----------------------------------------------------------------------------
(* Answers are final *)

LEMMA CoverageOf ==
  ASSUME NEW s, NEW left, NEW right, NEW first, NEW end,
         UpperBound(s, left) = first, UpperBound(s, right) = end
  PROVE  Coverage(s, left, right) = first..(IF s[end - 1] = right THEN end - 1 ELSE end)
BY Zenon DEF Coverage

(* Neither an empty interval nor a gap in an interval depends on what was   *)
(* removed before the interval or what has arrived after it.                *)
LEMMA GapsKept ==
  ASSUME NEW s \in Seq(Nat), Increasing(s), NEW u \in Seq(Nat), Increasing(u),
         NEW d \in 0..(Len(s) - 1), Len(s) - d <= Len(u),
         \A i \in 1..(Len(s) - d) : u[i] = s[d + i],
         NEW left \in Nat, NEW right \in Nat, left < right,
         u[1] <= left, right <= s[Len(s)]
  PROVE  /\ UpperBound(s, left) = UpperBound(s, right)
              <=> UpperBound(u, left) = UpperBound(u, right)
         /\ (\E i \in Coverage(s, left, right) : s[i] - s[i - 1] > MaxGap)
              <=> (\E i \in Coverage(u, left, right) : u[i] - u[i - 1] > MaxGap)
<1> DEFINE first == UpperBound(u, left)
           end   == UpperBound(u, right)
<1>1. /\ Len(s) \in Nat /\ \A j \in 1..Len(s) : s[j] \in Nat
      /\ Len(u) \in Nat /\ \A j \in 1..Len(u) : u[j] \in Nat
  BY LenProperties
<1>2. Len(s) \in 1..Len(s) /\ 1 \in 1..Len(u)
  BY <1>1
<1>3. s[Len(s)] \in Nat /\ u[1] \in Nat
  BY <1>1, <1>2
<1>4. u[1] <= right /\ left <= s[Len(s)]
  BY <1>3
<1>5. UpperBound(s, left) = first + d
  BY UpperBoundShift, <1>4
<1>6. UpperBound(s, right) = end + d
  BY UpperBoundShift, <1>4
<1>7. Splits(u, left, first) /\ Splits(u, right, end)
  BY UpperBoundSplits
<1>8. Splits(s, right, end + d)
  BY <1>6, UpperBoundSplits
<1>9. /\ Coverage(u, left, right) = first..(IF u[end - 1] = right THEN end - 1 ELSE end)
      /\ Coverage(s, left, right)
           = (first + d)..(IF s[(end + d) - 1] = right THEN (end + d) - 1 ELSE end + d)
  BY <1>5, <1>6, CoverageOf
<1> HIDE DEF first, end
<1>10. PICK n \in 1..Len(u) : n = Len(s) - d
  <2>1. Len(s) - d \in 1..Len(u)
    BY <1>1
  <2> QED
    BY <2>1
<1>11. first \in Nat /\ end \in Nat /\ 1 < first /\ 1 < end
  BY <1>1, <1>2, <1>4, <1>7 DEF Splits
<1>12. end <= n + 1
  BY <1>1, <1>8, <1>10, <1>11 DEF Splits
<1>13. end - 1 \in 1..n /\ end - 1 \in 1..Len(u) /\ d + (end - 1) = (end + d) - 1
  BY <1>1, <1>10, <1>11, <1>12
<1>14. u[end - 1] = s[(end + d) - 1]
  BY <1>10, <1>13
<1>15. u[end - 1] = right \/ end <= n
  <2> SUFFICES ASSUME ~(end <= n) PROVE s[(end + d) - 1] = right
    BY <1>14
  <2>4. right <= s[Len(s)]
    OBVIOUS
  <2>1. end = n + 1 /\ Len(s) = n + d
    <3>1. n \in Nat /\ Len(s) = n + d
      BY <1>1, <1>10
    <3>2. end = n + 1
      BY <1>11, <1>12, <3>1
    <3> QED
      BY <3>1, <3>2
  <2>3. (end + d) - 1 = Len(s) /\ Len(s) < end + d
    BY <1>1, <2>1
  <2>2. s[Len(s)] <= right
    BY <1>2, <1>8, <2>3 DEF Splits
  <2> QED
    BY <1>3, <2>2, <2>3, <2>4
<1> DEFINE last == IF u[end - 1] = right THEN end - 1 ELSE end
<1>16. last \in Nat /\ last <= n
  BY <1>11, <1>12, <1>15
<1>17. /\ Coverage(u, left, right) = first..last
       /\ Coverage(s, left, right) = (first + d)..(last + d)
  BY <1>9, <1>11, <1>14
<1> HIDE DEF last
<1>18. ASSUME NEW i \in first..last
       PROVE  u[i] = s[i + d] /\ u[i - 1] = s[(i + d) - 1]
  <2>1. i \in 1..n /\ i - 1 \in 1..n
    BY <1>1, <1>10, <1>11, <1>16
  <2>2. d + i = i + d /\ d + (i - 1) = (i + d) - 1
    BY <2>1
  <2> QED
    BY <1>10, <2>1, <2>2
<1>19. ASSUME NEW i \in (first + d)..(last + d), s[i] - s[i - 1] > MaxGap
       PROVE  \E j \in first..last : u[j] - u[j - 1] > MaxGap
  <2>1. PICK j \in first..last : j = i - d
    BY <1>11, <1>16
  <2>2. j + d = i
    BY <1>11, <1>16, <2>1
  <2> QED
    BY <1>18, <1>19, <2>1, <2>2
<1>20. ASSUME NEW j \in first..last, u[j] - u[j - 1] > MaxGap
       PROVE  \E i \in (first + d)..(last + d) : s[i] - s[i - 1] > MaxGap
  <2>1. PICK i \in (first + d)..(last + d) : i = j + d
    BY <1>11, <1>16
  <2> QED
    BY <1>18, <1>20, <2>1
<1>21. first + d = end + d <=> first = end
  BY <1>11
<1> QED
  BY <1>5, <1>6, <1>17, <1>19, <1>20, <1>21 DEF first, end

(* The invariant keeps the buffer increasing over a step.                   *)
LEMMA IncreasingBuffer == IInv => Increasing(imu_buffer)
BY BufferIsIncreasing

LEMMA IncreasingBufferNext == IInv' => Increasing(imu_buffer)'
BY IncreasingBuffer, PTL

(* An interval whose ends the buffer covers before and after a step gets    *)
(* the same answer.                                                         *)
LEMMA SameAnswer ==
  ASSUME IInv, IInv', NEW left \in Nat, NEW right \in Nat, left < right,
         last_taken_timestamp \in {None, left}, last_taken_timestamp' \in {None, left},
         imu_buffer # <<>>, imu_buffer' # <<>>,
         imu_buffer[1] <= left, imu_buffer'[1] <= left,
         right <= Newest(imu_buffer), right <= Newest(imu_buffer'),
         NEW d \in 0..(Len(imu_buffer) - 1), Len(imu_buffer) - d <= Len(imu_buffer'),
         \A i \in 1..(Len(imu_buffer) - d) : imu_buffer'[i] = imu_buffer[d + i]
  PROVE  QueryStatus(left, right)' = QueryStatus(left, right)
<1>1. /\ imu_buffer \in Seq(Nat) /\ Increasing(imu_buffer)
      /\ Len(imu_buffer) \in 1..Len(imu_buffer)
      /\ \A i \in 1..Len(imu_buffer) : imu_buffer[i] \in Nat
  BY Sequences, BufferIsIncreasing
<1>2. /\ imu_buffer' \in Seq(Nat) /\ Increasing(imu_buffer')
      /\ Len(imu_buffer') \in 1..Len(imu_buffer')
      /\ \A i \in 1..Len(imu_buffer') : imu_buffer'[i] \in Nat
  <2>1. imu_buffer' \in Seq(Times) /\ Times \subseteq Nat
    BY ImuFrontendAssumption DEF IInv, TypeOK
  <2>2. imu_buffer' \in Seq(Nat)
    BY <2>1, SeqMonotonic
  <2>3. /\ Len(imu_buffer') \in 1..Len(imu_buffer')
        /\ \A i \in 1..Len(imu_buffer') : imu_buffer'[i] \in Nat
    BY <2>2, LenProperties, EmptySeq
  <2>4. Increasing(imu_buffer)'
    BY IncreasingBufferNext
  <2> QED
    BY <2>2, <2>3, <2>4 DEF Increasing
<1>3. right <= imu_buffer[Len(imu_buffer)]
  BY DEF Newest
<1>4. /\ UpperBound(imu_buffer, left) = UpperBound(imu_buffer, right)
           <=> UpperBound(imu_buffer', left) = UpperBound(imu_buffer', right)
      /\ (\E i \in Coverage(imu_buffer, left, right) :
             imu_buffer[i] - imu_buffer[i - 1] > MaxGap)
           <=> (\E i \in Coverage(imu_buffer', left, right) :
                   imu_buffer'[i] - imu_buffer'[i - 1] > MaxGap)
  BY <1>1, <1>2, <1>3, GapsKept
<1>5. /\ ~(right <= left)
      /\ ~(imu_buffer[1] > left) /\ ~(imu_buffer'[1] > left)
      /\ ~(Newest(imu_buffer) < right) /\ ~(Newest(imu_buffer') < right)
  <2>1. /\ imu_buffer[1] \in Nat /\ imu_buffer[Len(imu_buffer)] \in Nat
        /\ imu_buffer'[1] \in Nat /\ imu_buffer'[Len(imu_buffer')] \in Nat
    <3>1. 1 \in 1..Len(imu_buffer) /\ 1 \in 1..Len(imu_buffer')
      BY <1>1, <1>2
    <3> QED
      BY <1>1, <1>2, <3>1
  <2> QED
    BY <2>1 DEF Newest
<1>6. /\ Newest(imu_buffer') = Newest(imu_buffer)'
      /\ UpperBound(imu_buffer', left) = UpperBound(imu_buffer, left)'
      /\ UpperBound(imu_buffer', right) = UpperBound(imu_buffer, right)'
      /\ Coverage(imu_buffer', left, right) = Coverage(imu_buffer, left, right)'
  BY DEF Newest, Coverage, UpperBound
<1> QED
  BY <1>4, <1>5, <1>6 DEF QueryStatus

\* The answers of a query that has not been stopped.
Answers == Statuses \ {"Stopped"}

LEMMA QueryAnswers ==
  ASSUME NEW left, NEW right
  PROVE  QueryStatus(left, right) \in Answers
BY DEF QueryStatus, Answers, Statuses

LEMMA QueryAnswersNext ==
  ASSUME NEW left, NEW right
  PROVE  QueryStatus(left, right)' \in Answers
BY DEF QueryStatus, Answers, Statuses

(* An answer may always be repeated, and asking again about an interval     *)
(* whose place was taken is always an invalid request.                      *)
LEMMA AnswerMayStay ==
  ASSUME NEW answer \in Answers
  PROVE  answer \in StatusAfter(answer) /\ "InvalidRequest" \in StatusAfter(answer)
BY DEF StatusAfter, Answers, Statuses

LEMMA TakeKeepsAnswers ==
  ASSUME IInv, IInv', NEW l \in Times, NEW r \in Times,
         takeMeasurements(l, r), TakeStatus(l, r) = "Ready",
         NEW left \in Times, NEW right \in Times
  PROVE  QueryStatus(left, right)' \in StatusAfter(QueryStatus(left, right))
<1> DEFINE end == UpperBound(imu_buffer, r)
           n   == Len(imu_buffer)
<1>1. QueryStatus(l, r) = "Ready"
  BY DEF TakeStatus
<1>2. /\ l < r /\ last_taken_timestamp \in {None, l} /\ imu_buffer # <<>>
      /\ imu_buffer[1] <= l
      /\ r <= imu_buffer[n] /\ Splits(imu_buffer, r, end)
      /\ end \in Nat /\ 2 < end /\ end <= n + 1
  BY <1>1, ReadyMeans
<1>3. /\ imu_buffer' = SubSeq(imu_buffer, end - 1, n)
      /\ last_taken_timestamp' = r
  BY DEF takeMeasurements, Unconsumed, NextBoundary
<1> HIDE DEF end
<1>4. /\ l \in Nat /\ r \in Nat /\ left \in Nat /\ right \in Nat /\ r # None
      /\ n \in Nat /\ \A i \in 1..n : imu_buffer[i] \in Nat
  BY Sequences
<1>5. /\ QueryStatus(left, right) \in Answers /\ QueryStatus(left, right)' \in Answers
      /\ QueryStatus(left, right) \in {"InvalidRequest", "WaitingForData"} =>
            QueryStatus(left, right)' \in StatusAfter(QueryStatus(left, right))
  BY QueryAnswers, QueryAnswersNext DEF StatusAfter, Answers
<1>6. CASE right <= left \/ left # r
  <2>1. QueryStatus(left, right)' = "InvalidRequest"
    BY <1>3, <1>4, <1>6 DEF QueryStatus
  <2> QED
    BY <1>5, <2>1, AnswerMayStay
<1>7. CASE ~(right <= left) /\ left = r /\ last_taken_timestamp \notin {None, left}
  <2>1. QueryStatus(left, right) = "InvalidRequest"
    BY <1>7 DEF QueryStatus
  <2> QED
    BY <1>5, <2>1
<1>8. CASE /\ ~(right <= left) /\ left = r /\ last_taken_timestamp \in {None, left}
           /\ Newest(imu_buffer) < right
  <2>1. ~(imu_buffer[1] > left)
    <3>1. 1 \in 1..n
      BY <1>2, <1>4
    <3> QED
      BY <1>2, <1>4, <1>8, <3>1
  <2>2. QueryStatus(left, right) = "WaitingForData"
    BY <1>2, <1>8, <2>1 DEF QueryStatus
  <2> QED
    BY <1>5, <2>2
<1>9. CASE /\ ~(right <= left) /\ left = r /\ last_taken_timestamp \in {None, left}
           /\ ~(Newest(imu_buffer) < right)
  <2>1. 1 \in 1..n /\ n \in 1..n /\ end - 1 \in 1..n
    BY <1>2, <1>4
  <2>2. left < right /\ imu_buffer[1] <= left /\ right <= Newest(imu_buffer)
    BY <1>2, <1>4, <1>9, <2>1 DEF Newest
  <2>3. /\ imu_buffer' \in Seq(Nat) /\ Len(imu_buffer') = n - end + 2
        /\ \A i \in 1..(n - end + 2) : imu_buffer'[i] = imu_buffer[end - 2 + i]
    <3>1. \A i \in (end - 1)..n : imu_buffer[i] \in Nat
      BY <1>2, <1>4
    <3>2. /\ SubSeq(imu_buffer, end - 1, n) \in Seq(Nat)
          /\ Len(SubSeq(imu_buffer, end - 1, n)) = IF end - 1 <= n THEN n - (end - 1) + 1 ELSE 0
          /\ \A i \in 1..(n - (end - 1) + 1) :
                SubSeq(imu_buffer, end - 1, n)[i] = imu_buffer[(end - 1) + i - 1]
      BY <1>2, <1>4, <3>1, SubSeqProperties
    <3>3. ASSUME NEW i \in 1..(n - end + 2)
          PROVE  imu_buffer'[i] = imu_buffer[end - 2 + i]
      <4>1. i \in 1..(n - (end - 1) + 1) /\ (end - 1) + i - 1 = end - 2 + i
        BY <1>2, <1>4
      <4> QED
        BY <1>3, <3>2, <4>1
    <3> QED
      BY <1>2, <1>3, <1>4, <3>2, <3>3
  <2>4. imu_buffer' # <<>>
    BY <1>2, <1>4, <2>3, EmptySeq
  <2>5. imu_buffer'[1] <= left
    <3>1. PICK j \in 1..n : j = end - 1
      BY <2>1
    <3>2. imu_buffer[j] <= r
      BY <1>2, <3>1 DEF Splits
    <3>3. 1 \in 1..(n - end + 2) /\ end - 2 + 1 = j
      BY <1>2, <1>4, <3>1
    <3> QED
      BY <1>9, <2>3, <3>2, <3>3
  <2>6. right <= Newest(imu_buffer')
    <3>1. PICK k \in 1..(n - end + 2) : k = n - end + 2
      <4>1. n - end + 2 \in 1..(n - end + 2)
        BY <1>2, <1>4
      <4> QED
        BY <4>1
    <3>2. end - 2 + k = n /\ Len(imu_buffer') = k
      BY <1>2, <1>4, <2>3, <3>1
    <3>3. imu_buffer'[k] = imu_buffer[n]
      BY <2>3, <3>2
    <3> QED
      BY <2>2, <3>2, <3>3 DEF Newest
  <2> DEFINE d == end - 2
  <2>7. d \in 0..(n - 1) /\ n - d <= Len(imu_buffer')
    BY <1>2, <1>4, <2>3
  <2>8. \A i \in 1..(n - d) : imu_buffer'[i] = imu_buffer[d + i]
    <3>1. n - d = n - end + 2
      BY <1>2, <1>4
    <3> QED
      BY <2>3, <3>1
  <2> HIDE DEF d
  <2>9. QueryStatus(left, right)' = QueryStatus(left, right)
    BY <1>2, <1>3, <1>4, <1>9, <2>2, <2>4, <2>5, <2>6, <2>7, <2>8, SameAnswer
  <2> QED
    BY <1>5, <2>9, AnswerMayStay
<1> QED
  BY <1>6, <1>7, <1>8, <1>9

LEMMA AcceptKeepsAnswers ==
  ASSUME IInv, IInv', NEW m \in Messages, accept_sample(m),
         NEW left \in Times, NEW right \in Times
  PROVE  QueryStatus(left, right)' \in StatusAfter(QueryStatus(left, right))
<1> DEFINE t == Seconds(m.ns)
           n == Len(imu_buffer)
           d == IF Overflowed THEN 1 ELSE 0
           retained == IF Overflowed THEN Tail(imu_buffer) ELSE imu_buffer
<1>1. /\ t \in Times /\ \A i \in 1..Len(arrived) : arrived[i] < t
      /\ imu_buffer' = Append(retained, t)
      /\ first_timestamp' = IF first_timestamp = None THEN t ELSE first_timestamp
      /\ last_taken_timestamp' = last_taken_timestamp
  BY AcceptedIsNewer DEF accept_sample
<1> HIDE DEF t
<1>2. /\ t \in Nat /\ left \in Nat /\ right \in Nat /\ n \in Nat
      /\ imu_buffer \in Seq(Nat) /\ \A i \in 1..n : imu_buffer[i] \in Nat
  BY <1>1, Sequences
<1>3. d \in {0, 1} /\ d <= n
  BY Sequences DEF Overflowed
<1>4. /\ retained \in Seq(Nat) /\ Len(retained) = n - d
      /\ \A i \in 1..(n - d) : retained[i] = imu_buffer[d + i]
  <2>1. CASE Overflowed
    <3>1. imu_buffer # <<>> /\ n >= 1
      BY <1>2, <1>3, <2>1, EmptySeq
    <3>2. /\ Tail(imu_buffer) \in Seq(Nat)
          /\ Len(Tail(imu_buffer)) = n - 1
          /\ \A i \in 1..(n - 1) : Tail(imu_buffer)[i] = imu_buffer[i + 1]
      BY <1>2, <3>1, HeadTailProperties
    <3> QED
      BY <2>1, <3>2
  <2>2. CASE ~Overflowed
    BY <1>2, <2>2
  <2> QED
    BY <2>1, <2>2
<1> HIDE DEF d, retained, n
<1>5. /\ imu_buffer' \in Seq(Nat) /\ Len(imu_buffer') = n - d + 1
      /\ \A i \in 1..(n - d) : imu_buffer'[i] = imu_buffer[d + i]
      /\ imu_buffer'[n - d + 1] = t
  BY <1>1, <1>2, <1>3, <1>4, AppendProperties
<1>6. imu_buffer' # <<>> /\ Newest(imu_buffer') = t
  BY <1>2, <1>3, <1>5, EmptySeq DEF Newest
<1>7. \A i \in 1..n : imu_buffer[i] < t
  <2> SUFFICES ASSUME NEW i \in 1..n PROVE imu_buffer[i] < t
    OBVIOUS
  <2>1. PICK j \in 1..Len(arrived) : j = Dropped + i
    <3>1. Dropped \in Nat /\ Len(arrived) = Dropped + n
      BY Sequences, BufferIsIncreasing DEF n, Dropped
    <3>2. Dropped + i \in 1..Len(arrived)
      BY <1>2, <3>1
    <3> QED
      BY <3>2
  <2>2. imu_buffer[i] = arrived[j]
    BY <2>1 DEF IInv, Retained, n
  <2> QED
    BY <1>1, <2>2
<1>8. /\ QueryStatus(left, right) \in Answers /\ QueryStatus(left, right)' \in Answers
      /\ QueryStatus(left, right) \in {"InvalidRequest", "WaitingForData"} =>
            QueryStatus(left, right)' \in StatusAfter(QueryStatus(left, right))
  BY QueryAnswers, QueryAnswersNext DEF StatusAfter, Answers
<1>9. CASE \/ right <= left \/ last_taken_timestamp \notin {None, left}
           \/ imu_buffer = <<>>
  <2>1. QueryStatus(left, right) \in {"InvalidRequest", "WaitingForData"}
    BY <1>9 DEF QueryStatus
  <2> QED
    BY <1>8, <2>1
<1> DEFINE asked == /\ ~(right <= left) /\ last_taken_timestamp \in {None, left}
                    /\ imu_buffer # <<>>
<1>10. ASSUME asked
       PROVE  /\ left < right /\ n >= 1 /\ 1 \in 1..n /\ n \in 1..n
              /\ first_timestamp = arrived[1] /\ first_timestamp' = first_timestamp
              /\ first_timestamp <= imu_buffer[1] /\ first_timestamp \in Nat
  <2>1. left < right /\ n >= 1 /\ 1 \in 1..n /\ n \in 1..n
    BY <1>2, <1>10, EmptySeq DEF n
  <2>2. 1 \in 1..Len(arrived) /\ Dropped + 1 \in 1..Len(arrived)
    BY <2>1, Sequences, BufferIsIncreasing DEF n, Dropped
  <2>3. arrived # <<>> /\ arrived[1] \in Nat /\ arrived[Dropped + 1] \in Nat
    BY <2>2, Sequences
  <2>4. first_timestamp = arrived[1] /\ first_timestamp' = first_timestamp
    BY <1>1, <2>3, Sequences DEF IInv, Remembered
  <2>5. imu_buffer[1] = arrived[Dropped + 1]
    BY <2>1 DEF IInv, Retained, n
  <2>6. arrived[1] <= arrived[Dropped + 1]
    <3>1. CASE Dropped = 0
      BY <2>3, <3>1
    <3>2. CASE 1 < Dropped + 1
      BY <2>2, <2>3, <3>2 DEF IInv, Increasing
    <3> QED
      BY <3>1, <3>2, BufferIsIncreasing, Sequences
  <2> QED
    BY <2>1, <2>3, <2>4, <2>5, <2>6
<1>11. ASSUME n >= 1
       PROVE  imu_buffer[1] <= imu_buffer'[1] /\ imu_buffer[1] \in Nat /\ imu_buffer'[1] \in Nat
  <2>1. 1 \in 1..n /\ imu_buffer[1] \in Nat /\ imu_buffer[1] < t
    BY <1>2, <1>7, <1>11
  <2>2. CASE n - d = 0
    <3>1. imu_buffer'[1] = t
      BY <1>2, <1>3, <1>5, <2>2
    <3> QED
      BY <1>2, <2>1, <3>1
  <2>3. CASE n - d # 0
    <3>1. PICK j \in 1..n : j = d + 1
      BY <1>2, <1>3, <2>3
    <3>2. imu_buffer'[1] = imu_buffer[j] /\ imu_buffer[j] \in Nat
      BY <1>2, <1>3, <1>5, <2>3, <3>1
    <3>3. j = 1 \/ imu_buffer[1] < imu_buffer[j]
      BY <1>3, <2>1, <3>1, BufferIsIncreasing DEF Increasing, n
    <3> QED
      BY <2>1, <3>2, <3>3
  <2> QED
    BY <2>2, <2>3
<1>12. CASE asked /\ imu_buffer[1] > left
  <2>1. /\ left < right /\ n >= 1 /\ first_timestamp' = first_timestamp
    BY <1>10, <1>12
  <2>2. imu_buffer'[1] > left
    BY <1>2, <1>11, <1>12, <2>1
  <2>3. QueryStatus(left, right)' = QueryStatus(left, right)
    BY <1>1, <1>6, <1>12, <2>1, <2>2 DEF QueryStatus
  <2> QED
    BY <1>8, <2>3, AnswerMayStay
<1>13. CASE asked /\ ~(imu_buffer[1] > left) /\ Newest(imu_buffer) < right
  <2>1. QueryStatus(left, right) = "WaitingForData"
    BY <1>13 DEF QueryStatus
  <2> QED
    BY <1>8, <2>1
<1>14. CASE asked /\ ~(imu_buffer[1] > left) /\ ~(Newest(imu_buffer) < right)
  <2>1. /\ left < right /\ n >= 1 /\ n \in 1..n /\ first_timestamp' = first_timestamp
        /\ first_timestamp <= imu_buffer[1] /\ first_timestamp \in Nat
        /\ imu_buffer[1] \in Nat /\ imu_buffer'[1] \in Nat
    BY <1>10, <1>11, <1>14
  <2>2. imu_buffer[1] <= left /\ right <= Newest(imu_buffer) /\ Newest(imu_buffer) < t
        /\ Newest(imu_buffer) \in Nat
    BY <1>2, <1>7, <1>14, <2>1 DEF Newest, n
  <2>3. CASE imu_buffer'[1] > left
    <3>1. ~(left < first_timestamp')
      BY <1>2, <2>1, <2>2
    <3>2. QueryStatus(left, right)' = "BufferOverflow"
      BY <1>1, <1>6, <1>14, <2>3, <3>1 DEF QueryStatus
    <3>3. QueryStatus(left, right) \in {"DataGap", "Ready"}
      BY <1>14 DEF QueryStatus
    <3> QED
      BY <3>2, <3>3 DEF StatusAfter
  <2>4. CASE ~(imu_buffer'[1] > left)
    <3>1. imu_buffer'[1] <= left /\ right <= Newest(imu_buffer')
      BY <1>2, <1>6, <2>1, <2>2, <2>4
    <3>2. d \in 0..(n - 1)
      <4>1. CASE n - d = 0
        <5>1. imu_buffer'[1] = t
          BY <1>2, <1>3, <1>5, <4>1
        <5> QED
          BY <1>2, <2>1, <2>2, <3>1, <5>1
      <4>2. CASE n - d # 0
        BY <1>2, <1>3, <4>2
      <4> QED
        BY <4>1, <4>2
    <3>3. n - d <= Len(imu_buffer')
      BY <1>2, <1>3, <1>5
    <3>4. QueryStatus(left, right)' = QueryStatus(left, right)
      BY <1>1, <1>2, <1>5, <1>6, <1>14, <2>1, <2>2, <3>1, <3>2, <3>3, SameAnswer DEF n
    <3> QED
      BY <1>8, <3>4, AnswerMayStay
  <2> QED
    BY <2>3, <2>4
<1> QED
  BY <1>9, <1>12, <1>13, <1>14

(* The coordinator discards a frame or terminates on an answer that no      *)
(* later data can turn into Ready: MissingHistory, BufferOverflow and       *)
(* DataGap stay, whatever arrives, overflows or is taken in the meantime,   *)
(* and a granted interval is lost only to overflow or to another take.      *)
THEOREM FinalAnswers == Spec => AnswersAreFinal
<1>1. ASSUME IInv, IInv', [Next]_vars, NEW left \in Times, NEW right \in Times
      PROVE  QueryStatus(left, right)' \in StatusAfter(QueryStatus(left, right))
  <2>1. ASSUME UNCHANGED <<imu_buffer, last_taken_timestamp, first_timestamp>>
        PROVE  QueryStatus(left, right)' \in StatusAfter(QueryStatus(left, right))
    <3>1. QueryStatus(left, right)' = QueryStatus(left, right)
      BY <2>1 DEF QueryStatus, Newest, Coverage, UpperBound
    <3> QED
      BY <3>1, QueryAnswers, AnswerMayStay
  <2>2. ASSUME NEW m \in Messages, reject_sample(m)
        PROVE  QueryStatus(left, right)' \in StatusAfter(QueryStatus(left, right))
    BY <2>1, <2>2 DEF reject_sample, buffering
  <2>3. ASSUME NEW m \in Messages, accept_sample(m)
        PROVE  QueryStatus(left, right)' \in StatusAfter(QueryStatus(left, right))
    BY <1>1, <2>3, AcceptKeepsAnswers
  <2>4. ASSUME NEW l \in Times, NEW r \in Times, takeMeasurements(l, r)
        PROVE  QueryStatus(left, right)' \in StatusAfter(QueryStatus(left, right))
    <3>1. CASE TakeStatus(l, r) = "Ready"
      BY <1>1, <2>4, <3>1, TakeKeepsAnswers
    <3>2. CASE TakeStatus(l, r) # "Ready"
      BY <2>1, <2>4, <3>2 DEF takeMeasurements
    <3> QED
      BY <3>1, <3>2
  <2>5. CASE stop \/ UNCHANGED vars
    BY <2>1, <2>5 DEF stop, vars, imu_vars, buffering
  <2> QED
    BY <1>1, <2>2, <2>3, <2>4, <2>5 DEF Next, imu_callback
<1>2. IInv /\ IInv' /\ [Next]_vars =>
        [\A left, right \in Times :
            QueryStatus(left, right)' \in StatusAfter(QueryStatus(left, right))]_vars
  BY <1>1
<1> QED
  BY <1>2, InvHolds, PTL DEF Spec, AnswersAreFinal
=============================================================================
