--------------------------------- MODULE Benchmark ---------------------------------
(***************************************************************************)
(* The benchmark.  app/benchmark.rs runs run_benchmark (src/src/miner.rs)  *)
(* with the number of threads the user asked for, or with 1, 2, ...        *)
(* threads in turn, and reports the best.  In run_benchmark the main       *)
(* thread builds a dataset, starts the workers, waits until each has its   *)
(* VM, raises "start", sleeps, raises "stop", joins the workers and only   *)
(* then reads the number of hashes.                                        *)
(***************************************************************************)
EXTENDS RandomX, Sequences

CONSTANTS
  MaxThreads, \* target_pus.len(), at least 1
  MaxHashes   \* bound of the model: batches counted by each worker

ASSUME BenchmarkAssumption == MaxThreads \in Nat \ {0} /\ MaxHashes \in Nat

VARIABLES
  sweep,    \* no number of threads was given: try them all
  t,        \* thread_count of this run
  mainPc,   \* where the main thread stands
  wPc,      \* where each worker stands
  ready,    \* ready_workers
  start,    \* the two flags
  stop,
  total,    \* total_hashes, in batches
  result,   \* the count the main thread has read
  best,     \* best and best_t
  bestT,
  hashed,   \* history: batches each worker has finished in this run
  rates     \* history: the hashrates of the runs so far

runVars   == <<wPc, ready, start, stop, total, result, hashed>>
sweepVars == <<sweep, t, best, bestT, rates>>
vars == <<mainPc, nativeVars, runVars, sweepVars>>

AllWorkers == 1 .. MaxThreads
Workers == 1 .. t

MainPositions ==
  {"allocCache", "allocDataset", "fill", "waitReady", "measure", "join", "reported", "failed"}
WorkerPositions == {"none", "createVm", "waitStart", "loop", "hash", "ended", "failed"}

BenchTypeOK ==
  /\ size \in Sizes
  /\ cache \in HandleStates /\ dataset \in HandleStates
  /\ started \subseteq Ranges /\ filled \subseteq started
  /\ refs \in 0 .. MaxThreads + 1
  /\ sweep \in BOOLEAN /\ t \in AllWorkers
  /\ mainPc \in MainPositions
  /\ wPc \in [AllWorkers -> WorkerPositions]
  /\ ready \in 0 .. t
  /\ start \in BOOLEAN /\ stop \in BOOLEAN
  /\ total \in Nat /\ result \in Nat
  /\ best \in Nat /\ bestT \in AllWorkers
  /\ hashed \in [AllWorkers -> 0 .. MaxHashes]
  /\ rates \in Seq(Nat)

Init ==
  /\ NativeInit
  /\ mainPc = "allocCache"
  /\ wPc = [w \in AllWorkers |-> "none"]
  /\ ready = 0
  /\ start = FALSE
  /\ stop = FALSE
  /\ total = 0
  /\ result = 0
  /\ hashed = [w \in AllWorkers |-> 0]
  /\ sweep \in BOOLEAN
  /\ t \in IF sweep THEN {1} ELSE AllWorkers
  /\ best = 0
  /\ bestT = 1
  /\ rates = << >>

-----------------------------------------------------------------------------
(* Dataset::new, in the main thread and the threads of the pool.           *)
CacheAllocated ==
  /\ mainPc = "allocCache"
  /\ AllocCache
  /\ mainPc' = "allocDataset"
  /\ UNCHANGED <<runVars, sweepVars>>

DatasetAllocated ==
  /\ mainPc = "allocDataset"
  /\ AllocDataset
  /\ mainPc' = "fill"
  /\ UNCHANGED <<runVars, sweepVars>>

(* No memory: Dataset::new returns an error, and with it run_benchmark and *)
(* the program.  A cache that has been allocated is not released.          *)
AllocFails ==
  /\ mainPc \in {"allocCache", "allocDataset"}
  /\ mainPc' = "failed"
  /\ UNCHANGED <<nativeVars, runVars, sweepVars>>

Fill ==
  /\ mainPc = "fill"
  /\ \E i \in Ranges : BeginRange(i) \/ EndRange(i)
  /\ UNCHANGED <<mainPc, runVars, sweepVars>>

(* The dataset is there; the workers are started.                          *)
Spawn ==
  /\ mainPc = "fill"
  /\ DatasetDone(t)
  /\ wPc' = [w \in AllWorkers |-> IF w \in Workers THEN "createVm" ELSE "none"]
  /\ mainPc' = "waitReady"
  /\ UNCHANGED <<ready, start, stop, total, result, hashed, sweepVars>>

-----------------------------------------------------------------------------
(* Workers.                                                                *)
GoTo(w, where) == wPc' = [wPc EXCEPT ![w] = where]

VmCreated(w) ==
  /\ wPc[w] = "createVm"
  /\ ready' = ready + 1
  /\ GoTo(w, "waitStart")
  /\ UNCHANGED <<mainPc, nativeVars, start, stop, total, result, hashed, sweepVars>>

(* Vm::new failed: the worker returns without counting itself as ready.    *)
VmFailed(w) ==
  /\ wPc[w] = "createVm"
  /\ GoTo(w, "failed")
  /\ DropArc
  /\ UNCHANGED <<mainPc, ready, start, stop, total, result, hashed, sweepVars>>

(* The loop on the two flags.                                              *)
LeaveWaitAtOnce(w) ==
  /\ wPc[w] = "waitStart"
  /\ GoTo(w, "loop")
  /\ UNCHANGED <<mainPc, nativeVars, ready, start, stop, total, result, hashed, sweepVars>>
LeaveWait(w) ==
  /\ wPc[w] = "waitStart"
  /\ start \/ stop
  /\ GoTo(w, "loop")
  /\ UNCHANGED <<mainPc, nativeVars, ready, start, stop, total, result, hashed, sweepVars>>

(* while !stop: one batch, counted when it is done.                        *)
BeginBatch(w) ==
  /\ wPc[w] = "loop"
  /\ ~stop
  /\ hashed[w] < MaxHashes
  /\ GoTo(w, "hash")
  /\ UNCHANGED <<mainPc, nativeVars, ready, start, stop, total, result, hashed, sweepVars>>

EndBatch(w) ==
  /\ wPc[w] = "hash"
  /\ total' = total + 1
  /\ hashed' = [hashed EXCEPT ![w] = @ + 1]
  /\ GoTo(w, "loop")
  /\ UNCHANGED <<mainPc, nativeVars, ready, start, stop, result, sweepVars>>

EndWorkerKeepsArc(w) ==
  /\ wPc[w] = "loop"
  /\ stop
  /\ GoTo(w, "ended")
  /\ UNCHANGED <<mainPc, nativeVars, ready, start, stop, total, result, hashed, sweepVars>>
EndWorker(w) ==
  /\ wPc[w] = "loop"
  /\ stop
  /\ GoTo(w, "ended")
  /\ DropArc
  /\ UNCHANGED <<mainPc, ready, start, stop, total, result, hashed, sweepVars>>

Worker(w) ==
  VmCreated(w) \/ VmFailed(w) \/ LeaveWait(w) \/ BeginBatch(w) \/ EndBatch(w) \/ EndWorker(w)

-----------------------------------------------------------------------------
(* The main thread, after the dataset.                                     *)
AllReady ==
  /\ mainPc = "waitReady"
  /\ ready >= t
  /\ start' = TRUE
  /\ mainPc' = "measure"
  /\ UNCHANGED <<nativeVars, wPc, ready, stop, total, result, hashed, sweepVars>>

(* The measuring time is over.                                             *)
TimeUpStartOff ==
  /\ mainPc = "measure"
  /\ start' = FALSE
  /\ mainPc' = "join"
  /\ UNCHANGED <<nativeVars, wPc, ready, stop, total, result, hashed, sweepVars>>
TimeUp ==
  /\ mainPc = "measure"
  /\ stop' = TRUE
  /\ mainPc' = "join"
  /\ UNCHANGED <<nativeVars, wPc, ready, start, total, result, hashed, sweepVars>>

(* The best point so far: a later one has to exceed it.                    *)
KeepLast(rate) ==
  /\ best' = IF sweep THEN rate ELSE best
  /\ bestT' = IF sweep THEN t ELSE bestT
KeepBest(rate) ==
  IF sweep /\ rate > best
  THEN best' = rate /\ bestT' = t
  ELSE UNCHANGED <<best, bestT>>

(* join returns for a worker that has returned.  The hashrate is the count *)
(* (16 hashes a batch) over the seconds elapsed, which may be more than    *)
(* were slept, rounded down; run_benchmark returns and its Arc goes.       *)
ReportAtOnce ==
  /\ mainPc = "join"
  /\ result' = total
  /\ \E elapsed \in {1, 2} :
       LET rate == (16 * total) \div elapsed IN
       /\ rates' = Append(rates, rate)
       /\ KeepBest(rate)
  /\ DropArc
  /\ mainPc' = "reported"
  /\ UNCHANGED <<wPc, ready, start, stop, total, hashed, sweep, t>>
Report ==
  /\ mainPc = "join"
  /\ \A w \in Workers : wPc[w] \in {"ended", "failed"}
  /\ result' = total
  /\ \E elapsed \in {1, 2} :
       LET rate == (16 * total) \div elapsed IN
       /\ rates' = Append(rates, rate)
       /\ KeepBest(rate)
  /\ DropArc
  /\ mainPc' = "reported"
  /\ UNCHANGED <<wPc, ready, start, stop, total, hashed, sweep, t>>

(* for t in 1..=max_threads                                                *)
NextRun ==
  /\ mainPc = "reported"
  /\ sweep /\ t < MaxThreads
  /\ t' = t + 1
  /\ NativeReset
  /\ mainPc' = "allocCache"
  /\ wPc' = [w \in AllWorkers |-> "none"]
  /\ ready' = 0
  /\ start' = FALSE /\ stop' = FALSE
  /\ total' = 0 /\ result' = 0
  /\ hashed' = [w \in AllWorkers |-> 0]
  /\ UNCHANGED <<sweep, best, bestT, rates>>

Main ==
  CacheAllocated \/ DatasetAllocated \/ AllocFails \/ Spawn \/ AllReady \/ TimeUp \/ Report \/ NextRun

Next == Main \/ Fill \/ \E w \in Workers : Worker(w)

Spec == Init /\ [][Next]_vars

(* All are operating-system threads, scheduled again and again.            *)
FairSpec ==
  Spec /\ WF_vars(Main) /\ WF_vars(Fill) /\ \A w \in AllWorkers : WF_vars(w \in Workers /\ Worker(w))

-----------------------------------------------------------------------------
(* The workers get a dataset every item of which has been initialised, and *)
(* by one thread only, however the items divide among the threads.         *)
EachItemOnce ==
  mainPc \notin {"allocCache", "allocDataset", "fill", "failed"} =>
    /\ UNION {ItemsOf(i) : i \in filled} = 0 .. size.items - 1
    /\ \A i, j \in filled : i # j => ItemsOf(i) \cap ItemsOf(j) = {}

(* No handle is used after it has been released: neither the cache by a    *)
(* thread that fills a range, nor the dataset by a VM.                     *)
HasVm(w) == wPc[w] \in {"waitStart", "loop", "hash"}
HandlesLive ==
  /\ started # filled => cache = "live" /\ dataset = "live"
  /\ \A w \in Workers : wPc[w] = "createVm" \/ HasVm(w) => dataset = "live"

(* Once the result is reported the memory is free again, so that the next  *)
(* run of a sweep does not need a second dataset.                          *)
HandlesReleased == mainPc = "reported" => cache = "released" /\ dataset = "released"

(* No worker hashes while another still builds its VM: the measurement     *)
(* starts with all of them.                                                *)
StartTogether ==
  (\E w \in Workers : wPc[w] = "hash" \/ hashed[w] > 0)
    => \A w \in Workers : wPc[w] \notin {"createVm", "failed"}

(* The result counts every batch of every worker, those that were under    *)
(* way when the time was up included.                                      *)
Batches == {b \in AllWorkers \X (1 .. MaxHashes) : b[2] <= hashed[b[1]]}
ResultIsComplete == mainPc = "reported" => result = Cardinality(Batches)

(* A sweep reports the highest rate and the fewest threads that reach it.  *)
BestPoint ==
  sweep =>
    /\ \A i \in DOMAIN rates : rates[i] <= best /\ (i < bestT => rates[i] < best)
    /\ best > 0 => bestT \in DOMAIN rates /\ rates[bestT] = best

(* The benchmark ends -- unless a worker could not create its VM, in which *)
(* case the main thread waits for it for ever.                             *)
Ended == mainPc = "failed" \/ (mainPc = "reported" /\ (sweep => t = MaxThreads))
EndsIfVmsCreated == <>Ended \/ <>(\E w \in Workers : wPc[w] = "failed")
=============================================================================
