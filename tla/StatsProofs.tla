------------------------------- MODULE StatsProofs -------------------------------
(***************************************************************************)
(* The hash rate of MiningStats, for any number of threads.  The argument  *)
(* is one inequality: the counter never falls behind the sample, because   *)
(* it only grows and both are read and written inside the mutex.           *)
(***************************************************************************)
EXTENDS Stats, TLAPS

LEMMA ModIsIdentity ==
  ASSUME NEW x \in Nat, NEW m \in Nat, x < m
  PROVE  x % m = x
  BY SMT

LEMMA QuotientShrinks ==
  ASSUME NEW x \in Nat, NEW d \in Nat, d >= 1
  PROVE  x \div d \in Nat /\ x \div d <= x
<1> DEFINE q == x \div d
<1>1. q \in Nat /\ q * d <= x
  BY SMT
<1> HIDE DEF q
<1>2. q <= q * d
  BY <1>1, SMT
<1>3. QED
  BY <1>1, <1>2, SMT DEF q

(* What the threads and the sample know of the counter.                    *)
NoReadingAhead ==
  /\ StatsTypeOK
  /\ sample.count <= total
  /\ rate <= total

LEMMA InitHolds == Init => NoReadingAhead
  BY StatsAssumption DEF Init, NoReadingAhead, StatsTypeOK

(* The rate computed when a sample is due.                                 *)
LEMMA NextRate ==
  ASSUME NoReadingAhead, NEW t \in Threads, Due(t)
  PROVE  ((Count(t) - sample.count) % Width) \div Elapsed(t) \in 0 .. total
<1> USE StatsAssumption
<1>1. Elapsed(t) \in Nat /\ Elapsed(t) >= 1
  BY DEF Elapsed, Due, NoReadingAhead, StatsTypeOK
<1>2. total - sample.count \in Nat /\ total - sample.count <= total /\ total - sample.count < Width
  BY DEF NoReadingAhead, StatsTypeOK
<1>3. (total - sample.count) % Width = total - sample.count
  BY <1>2, ModIsIdentity
<1>4. (total - sample.count) \div Elapsed(t) \in Nat
  /\ (total - sample.count) \div Elapsed(t) <= total - sample.count
  BY <1>1, <1>2, QuotientShrinks
<1>5. total \in Nat /\ sample.count \in Nat
  BY DEF NoReadingAhead, StatsTypeOK
<1> DEFINE r == (total - sample.count) \div Elapsed(t)
<1> HIDE DEF r
<1>6. r \in 0 .. total
  BY <1>2, <1>4, <1>5 DEF r
<1>7. QED
  BY <1>3, <1>6 DEF r, Count

LEMMA NextPreserves == NoReadingAhead /\ [Next]_vars => NoReadingAhead'
<1> SUFFICES ASSUME NoReadingAhead, [Next]_vars PROVE NoReadingAhead'
  OBVIOUS
<1> USE StatsAssumption DEF NoReadingAhead, StatsTypeOK
<1>1. CASE Tick
  BY <1>1 DEF Tick
<1>2. ASSUME NEW t \in Threads, NEW n \in Counts, AddHashes(t, n) PROVE NoReadingAhead'
  BY <1>2 DEF AddHashes
<1>3. ASSUME NEW t \in Threads, ReadClock(t) PROVE NoReadingAhead'
  BY <1>3 DEF ReadClock
<1>4. ASSUME NEW t \in Threads, FirstSample(t) PROVE NoReadingAhead'
  BY <1>4 DEF FirstSample, Count
<1>5. ASSUME NEW t \in Threads, NextSample(t) PROVE NoReadingAhead'
  <2>1. tPc' \in [Threads -> {"out", "added", "timed"}]
    BY <1>5 DEF NextSample
  <2>2. UNCHANGED <<total, clock, now, afterAdd>>
    BY <1>5 DEF NextSample
  <2>3. CASE Due(t)
    <3>1. rate' \in 0 .. total
      BY <1>5, <2>3, NextRate DEF NextSample
    <3>2. sample' = [at |-> now[t], count |-> total]
      BY <1>5, <2>3 DEF NextSample, Count
    <3>3. QED
      BY <2>1, <2>2, <3>1, <3>2
  <2>4. CASE ~Due(t)
    BY <1>5, <2>1, <2>2, <2>4 DEF NextSample
  <2>5. QED
    BY <2>3, <2>4
<1>6. CASE UNCHANGED vars
  BY <1>6 DEF vars
<1>7. QED
  BY <1>1, <1>2, <1>3, <1>4, <1>5, <1>6 DEF Next, RecordHashes

LEMMA NoReadingAheadInvariant == Spec => []NoReadingAhead
  BY InitHolds, NextPreserves, PTL DEF Spec

(* Counter, clock, sample and rate keep their types and bounds, whichever  *)
(* threads overtake each other on the way to the mutex.                    *)
THEOREM StatsTypeCorrect == Spec => []StatsTypeOK
<1>1. NoReadingAhead => StatsTypeOK
  BY DEF NoReadingAhead
<1>2. QED
  BY <1>1, NoReadingAheadInvariant, PTL

(* Subtracting two readings of the counter never wraps around, so the rate *)
(* shown is never more than the hashes that have been done.                *)
THEOREM RateNeverWraps == Spec => []RateIsPossible
<1>1. NoReadingAhead => RateIsPossible
  BY DEF NoReadingAhead, RateIsPossible
<1>2. QED
  BY <1>1, NoReadingAheadInvariant, PTL

(* A sample gives way only to a later one.                                 *)
THEOREM SamplesNeverRunBack == Spec => SamplesAdvance
<1> DEFINE Advances == sample.count # 0 =>
                         /\ sample'.at >= sample.at
                         /\ sample'.count >= sample.count
<1>1. NoReadingAhead /\ [Next]_vars => [Advances]_vars
  <2> SUFFICES ASSUME NoReadingAhead, Next, sample.count # 0
               PROVE  sample'.at >= sample.at /\ sample'.count >= sample.count
    OBVIOUS
  <2>1. sample.at \in Nat /\ sample.count \in Nat /\ sample.count <= total /\ total \in Nat
    BY DEF NoReadingAhead, StatsTypeOK
  <2>2. CASE UNCHANGED sample
    BY <2>1, <2>2
  <2>3. ASSUME NEW t \in Threads, NextSample(t), Due(t)
        PROVE  sample'.at >= sample.at /\ sample'.count >= sample.count
    <3>1. sample' = [at |-> now[t], count |-> total]
      BY <2>3 DEF NextSample, Count
    <3>2. now[t] > sample.at
      BY <2>1, <2>3 DEF Due, Elapsed, NoReadingAhead, StatsTypeOK
    <3>3. QED
      BY <2>1, <3>1, <3>2 DEF NoReadingAhead, StatsTypeOK
  <2>4. QED
    BY <2>2, <2>3 DEF Next, RecordHashes, Tick, AddHashes, ReadClock, FirstSample, NextSample
<1>2. QED
  BY <1>1, NoReadingAheadInvariant, PTL DEF Spec, SamplesAdvance
=============================================================================
