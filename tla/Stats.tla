----------------------------------- MODULE Stats -----------------------------------
(***************************************************************************)
(* MiningStats::record_hashes (src/src/stats.rs), called by every mining   *)
(* thread after each pipeline: a shared counter, and under a mutex a       *)
(* sample of it from which the hash rate is computed once a second.  The   *)
(* clock is read before the mutex is taken and the counter after it.       *)
(***************************************************************************)
EXTENDS Integers

CONSTANTS
  Threads,  \* the mining threads
  Counts,   \* hashes in one call
  Width,    \* u64 arithmetic is modulo Width
  MaxTotal, \* bound of the model: hashes counted
  MaxClock  \* bound of the model: seconds

ASSUME StatsAssumption ==
  /\ Counts \subseteq Nat \ {0}
  /\ MaxTotal \in Nat /\ MaxClock \in Nat
  /\ Width \in Nat /\ MaxTotal < Width

VARIABLES
  total,    \* total_hashes
  sample,   \* last_sample: [at, count]
  rate,     \* current_hashrate
  clock,    \* the monotonic clock, in seconds
  tPc,      \* where each thread stands in record_hashes
  now,      \* the instant each thread has read
  afterAdd  \* history: the counter after the thread's own fetch_add

vars == <<total, sample, rate, clock, tPc, now, afterAdd>>

StatsTypeOK ==
  /\ total \in 0 .. MaxTotal
  /\ sample \in [at : 0 .. MaxClock, count : 0 .. MaxTotal]
  /\ rate \in 0 .. MaxTotal
  /\ clock \in 0 .. MaxClock
  /\ tPc \in [Threads -> {"out", "added", "timed"}]
  /\ now \in [Threads -> 0 .. MaxClock]
  /\ afterAdd \in [Threads -> 0 .. MaxTotal]

Init ==
  /\ total = 0
  /\ sample = [at |-> 0, count |-> 0]
  /\ rate = 0
  /\ clock = 0
  /\ tPc = [t \in Threads |-> "out"]
  /\ now = [t \in Threads |-> 0]
  /\ afterAdd = [t \in Threads |-> 0]

Tick ==
  /\ clock < MaxClock
  /\ clock' = clock + 1
  /\ UNCHANGED <<total, sample, rate, tPc, now, afterAdd>>

(* total_hashes.fetch_add(count)                                           *)
AddHashes(t, n) ==
  /\ tPc[t] = "out"
  /\ total + n <= MaxTotal
  /\ total' = total + n
  /\ afterAdd' = [afterAdd EXCEPT ![t] = total + n]
  /\ tPc' = [tPc EXCEPT ![t] = "added"]
  /\ UNCHANGED <<sample, rate, clock, now>>

(* Instant::now()                                                          *)
ReadClock(t) ==
  /\ tPc[t] = "added"
  /\ now' = [now EXCEPT ![t] = clock]
  /\ tPc' = [tPc EXCEPT ![t] = "timed"]
  /\ UNCHANGED <<total, sample, rate, clock, afterAdd>>

(* duration_since saturates at zero: another thread may have taken its     *)
(* sample at a later instant in the meantime.                              *)
ElapsedEitherWay(t) ==
  IF now[t] > sample.at THEN now[t] - sample.at ELSE sample.at - now[t]
Elapsed(t) == IF now[t] > sample.at THEN now[t] - sample.at ELSE 0
Due(t) == Elapsed(t) >= 1

(* total_hashes.load, inside the critical section                          *)
CountFromAdd(t) == afterAdd[t]
Count(t) == total

(* The first call only takes the sample.                                   *)
FirstSample(t) ==
  /\ tPc[t] = "timed"
  /\ sample.count = 0
  /\ sample' = [at |-> now[t], count |-> Count(t)]
  /\ tPc' = [tPc EXCEPT ![t] = "out"]
  /\ UNCHANGED <<total, rate, clock, now, afterAdd>>

NextSample(t) ==
  /\ tPc[t] = "timed"
  /\ sample.count # 0
  /\ IF Due(t)
     THEN /\ rate' = ((Count(t) - sample.count) % Width) \div Elapsed(t)
          /\ sample' = [at |-> now[t], count |-> Count(t)]
     ELSE UNCHANGED <<rate, sample>>
  /\ tPc' = [tPc EXCEPT ![t] = "out"]
  /\ UNCHANGED <<total, clock, now, afterAdd>>

RecordHashes(t) ==
  \/ \E n \in Counts : AddHashes(t, n)
  \/ ReadClock(t) \/ FirstSample(t) \/ NextSample(t)

Next == Tick \/ \E t \in Threads : RecordHashes(t)

Spec == Init /\ [][Next]_vars

-----------------------------------------------------------------------------
(* The difference of two readings of the counter never wraps around: the   *)
(* rate shown never exceeds the hashes done, in whatever order threads     *)
(* that have counted their hashes come to the mutex.                       *)
RateIsPossible == rate <= total

(* A sample is replaced only by a later one: time and counter of the       *)
(* sample never run backwards, although the clock is read outside.         *)
SamplesAdvance ==
  [][sample.count # 0 =>
       /\ sample'.at >= sample.at
       /\ sample'.count >= sample.count]_vars
=============================================================================
