------------------------------ MODULE BenchmarkProofs ------------------------------
(***************************************************************************)
(* Proofs about Benchmark, for datasets and pools of any size and any      *)
(* number of threads.                                                      *)
(***************************************************************************)
EXTENDS Benchmark, FiniteSetTheorems, TLAPS

-----------------------------------------------------------------------------
(* The ranges of a dataset are a partition of its items.                   *)
LEMMA DivisionBounds ==
  ASSUME NEW a \in Nat, NEW b \in Nat \ {0}
  PROVE  /\ a \div b \in Nat
         /\ (a \div b) * b <= a
         /\ a < (a \div b) * b + b
OBVIOUS

LEMMA ChunksCover ==
  ASSUME NEW n \in Nat \ {0}, NEW f \in Nat \ {0}, NEW c, c = (n + f - 1) \div f
  PROVE  c \in Nat \ {0} /\ n <= c * f
<1>1. n + f - 1 \in Nat
  OBVIOUS
<1>2. c \in Nat /\ c * f <= n + f - 1 /\ n + f - 1 < c * f + f
  BY <1>1, DivisionBounds
<1>3. n <= c * f
  BY <1>2
<1>4. c # 0
  BY <1>2, <1>3
<1> QED BY <1>2, <1>3, <1>4

LEMMA Ordered ==
  ASSUME NEW i \in Nat, NEW j \in Nat, NEW c \in Nat, i < j
  PROVE  i * c + c <= j * c
<1>1. PICK k \in Nat : j = i + 1 + k
  <2>1. j - i - 1 \in Nat /\ j = i + 1 + (j - i - 1)
    OBVIOUS
  <2> QED BY <2>1
<1>2. j * c = i * c + c + k * c
  BY <1>1
<1>3. k * c \in Nat /\ i * c \in Nat
  OBVIOUS
<1> QED BY <1>2, <1>3

LEMMA RangesPartition ==
  ASSUME size \in Sizes
  PROVE  /\ UNION {ItemsOf(i) : i \in Ranges} = 0 .. size.items - 1
         /\ \A i, j \in Ranges : i # j => ItemsOf(i) \cap ItemsOf(j) = {}
<1> DEFINE n == size.items
           f == Fillers
           c == Chunk
<1>1. n \in Nat \ {0} /\ f \in Nat \ {0}
  BY RandomXAssumption DEF Fillers
<1>2. c \in Nat \ {0} /\ n <= c * f
  BY <1>1, ChunksCover DEF Chunk
<1>3. ASSUME NEW i \in 0 .. f - 1, NEW m
      PROVE  m \in ItemsOf(i) <=> m \in 0 .. n - 1 /\ i * c <= m /\ m < i * c + c
  <2> DEFINE first == i * c
             left == n - first
  <2>1. first \in Nat
    BY <1>1, <1>2
  <2>2. m \in ItemsOf(i) <=> first < n /\ m \in first .. first + (IF left < c THEN left ELSE c) - 1
    BY DEF ItemsOf
  <2> HIDE DEF first, c
  <2>3. m \in 0 .. n - 1 /\ first <= m /\ m < first + c
          <=> first < n /\ m \in first .. first + (IF left < c THEN left ELSE c) - 1
    BY <1>1, <1>2, <2>1
  <2> QED BY <2>2, <2>3 DEF first
<1>4. ASSUME NEW m \in 0 .. n - 1
      PROVE  \E i \in 0 .. f - 1 : i * c <= m /\ m < i * c + c
  <2> DEFINE i == m \div c
  <2>1. m \in Nat /\ m < c * f
    <3>1. c * f \in Nat
      BY <1>1, <1>2
    <3> QED BY <1>1, <1>2, <3>1
  <2>2. i \in Nat /\ i * c <= m /\ m < i * c + c
    BY <1>2, <2>1, DivisionBounds
  <2> HIDE DEF i, c, f
  <2>3. i < f
    <3>1. ASSUME f <= i PROVE FALSE
      <4>1. CASE f = i
        BY <1>1, <1>2, <2>1, <2>2, <4>1
      <4>2. CASE f < i
        <5>1. f * c + c <= i * c
          BY <1>1, <1>2, <2>2, <4>2, Ordered
        <5>2. f * c = c * f /\ f * c \in Nat /\ i * c \in Nat
          BY <1>1, <1>2, <2>2
        <5> QED BY <1>2, <2>1, <2>2, <5>1, <5>2
      <4> QED BY <1>1, <2>2, <3>1, <4>1, <4>2
    <3> QED BY <1>1, <2>2, <3>1
  <2> QED BY <1>1, <2>2, <2>3
<1>5. ASSUME NEW i \in 0 .. f - 1, NEW j \in 0 .. f - 1, i < j
      PROVE  ItemsOf(i) \cap ItemsOf(j) = {}
  <2>1. i \in Nat /\ j \in Nat /\ i * c \in Nat /\ j * c \in Nat
    BY <1>1, <1>2
  <2>2. i * c + c <= j * c
    BY <1>2, <1>5, <2>1, Ordered
  <2>3. ASSUME NEW m \in ItemsOf(i), m \in ItemsOf(j) PROVE FALSE
    <3>1. m \in 0 .. n - 1 /\ m < i * c + c /\ j * c <= m
      BY <1>3, <2>3
    <3> HIDE DEF c, f
    <3> QED BY <1>1, <1>2, <2>1, <2>2, <3>1
  <2> QED BY <2>3
<1>6. Ranges = 0 .. f - 1
  BY DEF Ranges
<1> HIDE DEF f, c
<1>7. UNION {ItemsOf(i) : i \in Ranges} = 0 .. n - 1
  BY <1>3, <1>4, <1>6
<1>8. \A i, j \in Ranges : i # j => ItemsOf(i) \cap ItemsOf(j) = {}
  <2>1. \A i, j \in Ranges : i # j => i < j \/ j < i
    BY <1>1, <1>6
  <2> QED BY <1>5, <1>6, <2>1
<1> QED BY <1>7, <1>8
-----------------------------------------------------------------------------
(* The workers that have counted themselves as ready, and those that hold  *)
(* an Arc of the dataset.                                                  *)
Counted == {w \in Workers : wPc[w] \in {"waitStart", "loop", "hash", "ended"}}
Holders == {w \in Workers : wPc[w] \in {"createVm", "waitStart", "loop", "hash"}}

Building == mainPc \in {"allocCache", "allocDataset", "fill"}
Running == mainPc \in {"waitReady", "measure", "join"}

RunTypeOK ==
  /\ size \in Sizes
  /\ sweep \in BOOLEAN /\ t \in AllWorkers
  /\ mainPc \in MainPositions
  /\ wPc \in [AllWorkers -> WorkerPositions]
  /\ start \in BOOLEAN /\ stop \in BOOLEAN
  /\ total \in Nat /\ result \in Nat
  /\ hashed \in [AllWorkers -> 0 .. MaxHashes]

(* The handles, by the position of the main thread.                        *)
HandlesInv ==
  /\ started \subseteq Ranges /\ filled \subseteq started
  /\ cache = CASE mainPc = "allocCache" -> "none"
               [] mainPc \in {"allocDataset", "fill"} -> "live"
               [] mainPc = "failed" -> cache
               [] OTHER -> "released"
  /\ cache \in HandleStates
  /\ mainPc \in {"allocCache", "allocDataset", "failed"} => dataset = "none" /\ started = {}
  /\ mainPc = "fill" => dataset = "live"
  /\ Building \/ mainPc = "failed" => refs = 0
  /\ Running => dataset = "live" /\ refs = 1 + Cardinality(Holders)
  /\ mainPc = "reported" => dataset = "released" /\ refs = 0
  /\ Running \/ mainPc = "reported" => filled = Ranges

(* The workers and the two flags.                                          *)
WorkersInv ==
  /\ \A w \in AllWorkers : wPc[w] = "none" <=> w \notin Workers \/ Building \/ mainPc = "failed"
  /\ ready = Cardinality(Counted)
  /\ start => mainPc \in {"measure", "join", "reported"}
  /\ stop => mainPc \in {"join", "reported"}
  /\ mainPc \in {"measure", "join", "reported"} => start /\ Counted = Workers
  /\ \A w \in AllWorkers : wPc[w] \in {"loop", "hash"} \/ hashed[w] > 0 => start
  /\ \A w \in AllWorkers : wPc[w] = "hash" => hashed[w] < MaxHashes
  /\ mainPc = "reported" => \A w \in Workers : wPc[w] \in {"ended", "failed"}

BestInv ==
  /\ best \in Nat /\ bestT \in AllWorkers
  /\ rates \in Seq(Nat)
  /\ sweep => Len(rates) = IF mainPc = "reported" THEN t ELSE t - 1
  /\ BestPoint
  /\ best = 0 => bestT = 1

BenchInv == RunTypeOK /\ HandlesInv /\ WorkersInv

LEMMA WorkersFinite ==
  ASSUME RunTypeOK
  PROVE  /\ IsFiniteSet(Workers) /\ Cardinality(Workers) = t
         /\ Workers \subseteq AllWorkers
         /\ \A P \in SUBSET Workers : IsFiniteSet(P) /\ Cardinality(P) \in 0 .. t
<1>1. t \in Nat /\ t <= MaxThreads
  BY BenchmarkAssumption DEF RunTypeOK, AllWorkers
<1>2. IsFiniteSet(Workers) /\ Cardinality(Workers) = t
  BY <1>1, FS_Interval DEF Workers
<1>3. ASSUME NEW P \in SUBSET Workers
      PROVE  IsFiniteSet(P) /\ Cardinality(P) \in 0 .. t
  <2>1. IsFiniteSet(P) /\ Cardinality(P) <= t
    BY <1>2, FS_Subset
  <2>2. Cardinality(P) \in Nat
    BY <2>1, FS_CardinalityType
  <2> QED BY <1>1, <2>1, <2>2
<1>4. Workers \subseteq AllWorkers
  BY <1>1, BenchmarkAssumption DEF Workers, AllWorkers
<1> QED BY <1>2, <1>3, <1>4

LEMMA NobodyThere ==
  ASSUME RunTypeOK, \A w \in AllWorkers : wPc[w] = "none"
  PROVE  Counted = {} /\ Holders = {} /\ Cardinality(Counted) = 0 /\ Cardinality(Holders) = 0
<1>1. Workers \subseteq AllWorkers
  BY WorkersFinite
<1> QED BY <1>1, FS_EmptySet DEF Counted, Holders

LEMMA BenchInit == Init => BenchInv
<1> SUFFICES ASSUME Init PROVE BenchInv
  OBVIOUS
<1>1. RunTypeOK
  <2>1. t \in AllWorkers /\ 1 \in AllWorkers
    BY BenchmarkAssumption DEF Init, AllWorkers
  <2>2. start \in BOOLEAN /\ stop \in BOOLEAN /\ sweep \in BOOLEAN
    BY Zenon DEF Init
  <2> QED BY <2>1, <2>2, BenchmarkAssumption
         DEF Init, NativeInit, RunTypeOK, MainPositions, WorkerPositions
<1>2. \A w \in AllWorkers : wPc[w] = "none"
  BY DEF Init
<1>3. Cardinality(Counted) = 0
  BY <1>1, <1>2, NobodyThere
<1>4. HandlesInv
  BY DEF Init, NativeInit, HandlesInv, HandleStates, Building, Running
<1>5. WorkersInv
  BY <1>2, <1>3 DEF Init, WorkersInv, Building
<1> QED BY <1>1, <1>4, <1>5 DEF BenchInv

(* The positions alone decide who is counted and who holds an Arc.         *)
LEMMA SameWorkers ==
  ASSUME UNCHANGED <<wPc, t>>
  PROVE  Counted' = Counted /\ Holders' = Holders /\ Workers' = Workers
BY DEF Counted, Holders, Workers

LEMMA DatasetSteps ==
  ASSUME BenchInv, CacheAllocated \/ DatasetAllocated \/ AllocFails \/ Fill
  PROVE  BenchInv'
<1>1. RunTypeOK /\ HandlesInv /\ WorkersInv
  BY DEF BenchInv
<1>2. UNCHANGED <<runVars, sweepVars, size>> /\ Building
  BY DEF CacheAllocated, DatasetAllocated, AllocFails, Fill, AllocCache, AllocDataset, BeginRange,
         EndRange, nativeVars, Building
<1>3. mainPc' \in {"allocDataset", "fill", "failed"}
  BY DEF CacheAllocated, DatasetAllocated, AllocFails, Fill
<1>4. RunTypeOK'
  BY <1>1, <1>2, <1>3 DEF RunTypeOK, runVars, sweepVars, MainPositions, AllWorkers
<1>5. WorkersInv'
  <2>1. Counted' = Counted /\ Workers' = Workers
    BY <1>2, SameWorkers DEF runVars, sweepVars
  <2>2. ~start /\ ~stop /\ \A w \in AllWorkers : wPc[w] = "none" /\ ~(hashed[w] > 0)
    BY <1>1, <1>2 DEF WorkersInv, Building
  <2> QED BY <1>1, <1>2, <1>3, <2>1, <2>2 DEF WorkersInv, Building, runVars, sweepVars, AllWorkers
<1>6. HandlesInv'
  <2>0. Ranges' = Ranges
    BY <1>2 DEF Ranges, Fillers
  <2>1. CASE CacheAllocated
    BY <1>1, <2>0, <2>1 DEF CacheAllocated, AllocCache, HandlesInv, HandleStates, Building, Running
  <2>2. CASE DatasetAllocated
    BY <1>1, <2>0, <2>2 DEF DatasetAllocated, AllocDataset, HandlesInv, HandleStates, Building, Running
  <2>3. CASE AllocFails
    BY <1>1, <2>0, <2>3 DEF AllocFails, nativeVars, HandlesInv, HandleStates, Building, Running
  <2>4. CASE Fill
    <3>1. PICK i \in Ranges : BeginRange(i) \/ EndRange(i)
      BY <2>4 DEF Fill
    <3>2. /\ mainPc = "fill" /\ mainPc' = "fill" /\ UNCHANGED <<cache, dataset, refs>>
          /\ started' \subseteq Ranges /\ filled' \subseteq started'
      BY <1>1, <2>4, <3>1 DEF Fill, BeginRange, EndRange, HandlesInv
    <3> QED BY <1>1, <2>0, <3>2 DEF HandlesInv, HandleStates, Building, Running
  <2> QED BY <2>1, <2>2, <2>3, <2>4
<1> QED BY <1>4, <1>5, <1>6 DEF BenchInv

LEMMA SpawnStep ==
  ASSUME BenchInv, Spawn
  PROVE  BenchInv'
<1>1. RunTypeOK /\ HandlesInv /\ WorkersInv
  BY DEF BenchInv
<1>2. /\ mainPc = "fill" /\ mainPc' = "waitReady"
      /\ filled = Ranges /\ cache' = "released" /\ refs' = 1 + t
      /\ wPc' = [w \in AllWorkers |-> IF w \in Workers THEN "createVm" ELSE "none"]
      /\ UNCHANGED <<size, dataset, started, filled, ready, start, stop, total, result, hashed, sweepVars>>
  BY DEF Spawn, DatasetDone
<1>3. RunTypeOK'
  BY <1>1, <1>2 DEF RunTypeOK, sweepVars, MainPositions, WorkerPositions, AllWorkers
<1>4. Workers' = Workers /\ Workers \subseteq AllWorkers
  BY <1>1, <1>2, WorkersFinite DEF Workers, sweepVars
<1>5. Counted' = {} /\ Holders' = Workers
  BY <1>2, <1>4 DEF Counted, Holders
<1>6. Cardinality(Holders') = t /\ Cardinality(Counted') = 0
  BY <1>1, <1>5, WorkersFinite, FS_EmptySet
<1>7. HandlesInv'
  <2>1. Ranges' = Ranges
    BY <1>2 DEF Ranges, Fillers
  <2> QED BY <1>1, <1>2, <1>6, <2>1 DEF HandlesInv, HandleStates, Building, Running
<1>8. WorkersInv'
  <2>1. ready' = 0
    <3>1. \A w \in AllWorkers : wPc[w] = "none"
      BY <1>1, <1>2 DEF WorkersInv, Building
    <3> QED BY <1>1, <1>2, <3>1, NobodyThere DEF WorkersInv
  <2>2. ~start' /\ ~stop' /\ \A w \in AllWorkers : ~(hashed'[w] > 0)
    BY <1>1, <1>2 DEF WorkersInv
  <2>3. \A w \in AllWorkers : wPc'[w] = IF w \in Workers THEN "createVm" ELSE "none"
    BY <1>2
  <2> QED BY <1>2, <1>4, <1>6, <2>1, <2>2, <2>3 DEF WorkersInv, Building, AllWorkers
<1> QED BY <1>3, <1>7, <1>8 DEF BenchInv

(* A worker goes from one position to another.                             *)
LEMMA WorkerSteps ==
  ASSUME BenchInv, NEW w \in Workers, Worker(w)
  PROVE  BenchInv'
<1>1. RunTypeOK /\ HandlesInv /\ WorkersInv
  BY DEF BenchInv
<1>0. w \in AllWorkers /\ wPc \in [AllWorkers -> WorkerPositions] /\ hashed \in [AllWorkers -> 0 .. MaxHashes]
      /\ total \in Nat /\ MaxHashes \in Nat
  BY <1>1, WorkersFinite, BenchmarkAssumption DEF RunTypeOK
<1> DEFINE p == wPc'[w]
           Stays == UNCHANGED <<refs, dataset>>
           Counts == ready' = ready + 1
           Drops == refs' = refs - 1 /\ dataset' = IF refs = 1 THEN "released" ELSE dataset
           Hashes == hashed' \in [AllWorkers -> 0 .. MaxHashes] /\ total' \in Nat
                     /\ \A v \in AllWorkers : v # w => hashed'[v] = hashed[v]
<1>2. /\ wPc' = [wPc EXCEPT ![w] = p]
      /\ UNCHANGED <<mainPc, start, stop, result, sweepVars, size, cache, started, filled>>
      /\ \/ wPc[w] = "createVm" /\ p = "waitStart" /\ Stays /\ Counts /\ UNCHANGED <<total, hashed>>
         \/ wPc[w] = "createVm" /\ p = "failed" /\ Drops /\ UNCHANGED <<ready, total, hashed>>
         \/ wPc[w] = "waitStart" /\ p = "loop" /\ Stays /\ (start \/ stop) /\ UNCHANGED <<ready, total, hashed>>
         \/ wPc[w] = "loop" /\ p = "hash" /\ Stays /\ hashed[w] < MaxHashes /\ UNCHANGED <<ready, total, hashed>>
         \/ wPc[w] = "hash" /\ p = "loop" /\ Stays /\ Hashes /\ UNCHANGED ready
         \/ wPc[w] = "loop" /\ p = "ended" /\ Drops /\ UNCHANGED <<ready, total, hashed>>
  <2>1. CASE VmCreated(w)
    BY <1>0, <2>1 DEF VmCreated, GoTo, nativeVars
  <2>2. CASE VmFailed(w)
    BY <1>0, <2>2 DEF VmFailed, GoTo, DropArc
  <2>3. CASE LeaveWait(w)
    BY <1>0, <2>3 DEF LeaveWait, GoTo, nativeVars
  <2>4. CASE BeginBatch(w)
    BY <1>0, <2>4 DEF BeginBatch, GoTo, nativeVars
  <2>5. CASE EndBatch(w)
    <3>1. hashed[w] < MaxHashes /\ hashed[w] + 1 \in 0 .. MaxHashes
      BY <1>0, <1>1, <2>5 DEF EndBatch, WorkersInv
    <3>2. Hashes
      BY <1>0, <2>5, <3>1 DEF EndBatch
    <3> QED BY <1>0, <2>5, <3>2 DEF EndBatch, GoTo, nativeVars
  <2>6. CASE EndWorker(w)
    BY <1>0, <2>6 DEF EndWorker, GoTo, DropArc
  <2> QED BY <2>1, <2>2, <2>3, <2>4, <2>5, <2>6 DEF Worker
<1>3. p \in WorkerPositions /\ \A v \in AllWorkers : wPc'[v] = IF v = w THEN p ELSE wPc[v]
  BY <1>0, <1>2 DEF WorkerPositions
<1>4. Workers' = Workers /\ Workers \subseteq AllWorkers /\ IsFiniteSet(Counted) /\ IsFiniteSet(Holders)
      /\ Cardinality(Counted) \in Nat /\ Cardinality(Holders) \in Nat
  <2>1. Counted \in SUBSET Workers /\ Holders \in SUBSET Workers
    BY DEF Counted, Holders
  <2>2. \A n \in 0 .. t : n \in Nat
    OBVIOUS
  <2> QED BY <1>1, <1>2, <2>1, <2>2, WorkersFinite DEF Workers, sweepVars
<1>5. RunTypeOK'
  <2>1. wPc' \in [AllWorkers -> WorkerPositions]
    BY <1>0, <1>2, <1>3
  <2>2. hashed' \in [AllWorkers -> 0 .. MaxHashes] /\ total' \in Nat
    BY <1>0, <1>2
  <2> QED BY <1>1, <1>2, <2>1, <2>2 DEF RunTypeOK, sweepVars, AllWorkers
<1>6. Running \/ mainPc = "reported"
  BY <1>0, <1>1, <1>2 DEF WorkersInv, RunTypeOK, MainPositions, Building, Running
<1>7. mainPc # "reported"
  BY <1>1, <1>2 DEF WorkersInv
<1>8. HandlesInv'
  <2>1. refs = 1 + Cardinality(Holders) /\ dataset = "live"
    BY <1>1, <1>6, <1>7 DEF HandlesInv
  <2>2. CASE p \notin {"failed", "ended"}
    <3>0. Stays /\ {wPc[w], p} \subseteq {"createVm", "waitStart", "loop", "hash"}
      BY <1>2, <2>2
    <3>1. Holders' = Holders
      BY <1>3, <1>4, <3>0 DEF Holders
    <3> QED BY <1>1, <1>2, <1>6, <1>7, <3>0, <3>1 DEF HandlesInv, Running, Building, Ranges, Fillers, HandleStates
  <2>3. CASE p \in {"failed", "ended"}
    <3>0. Drops /\ wPc[w] \in {"createVm", "loop"}
      BY <1>2, <2>3
    <3>1. w \in Holders /\ Holders' = Holders \ {w}
      BY <1>3, <1>4, <2>3, <3>0 DEF Holders
    <3>2. Cardinality(Holders') = Cardinality(Holders) - 1
      BY <1>4, <3>1, FS_RemoveElement
    <3>3. Cardinality(Holders) # 0
      BY <1>4, <3>1, FS_EmptySet
    <3>4. refs' = 1 + Cardinality(Holders') /\ dataset' = "live"
      BY <1>4, <2>1, <3>0, <3>2, <3>3
    <3> QED BY <1>1, <1>2, <1>6, <1>7, <3>4 DEF HandlesInv, Running, Building, Ranges, Fillers, HandleStates
  <2> QED BY <1>2, <2>2, <2>3
<1>9. ready' = Cardinality(Counted') /\ (Counted = Workers => Counted' = Workers)
  <2>1. CASE wPc[w] = "createVm" /\ p = "waitStart"
    <3>1. w \notin Counted /\ Counted' = Counted \cup {w}
      BY <1>3, <1>4, <2>1 DEF Counted
    <3>2. Cardinality(Counted') = Cardinality(Counted) + 1
      BY <1>4, <3>1, FS_AddElement
    <3> QED BY <1>1, <1>2, <2>1, <3>1, <3>2 DEF WorkersInv
  <2>2. CASE ~(wPc[w] = "createVm" /\ p = "waitStart")
    <3>1. Counted' = Counted
      BY <1>2, <1>3, <1>4, <2>2 DEF Counted
    <3> QED BY <1>1, <1>2, <2>2, <3>1 DEF WorkersInv
  <2> QED BY <2>1, <2>2
<1>10. WorkersInv'
  <2>1. \A v \in AllWorkers : wPc'[v] = "none" <=> v \notin Workers
    BY <1>1, <1>2, <1>3, <1>6 DEF WorkersInv, Building, Running
  <2>2. \A v \in AllWorkers : wPc'[v] \in {"loop", "hash"} \/ hashed'[v] > 0 => start
    <3>1. wPc[w] \in {"loop", "hash"} => start
      BY <1>0, <1>1 DEF WorkersInv
    <3>2. start \/ stop => start
      BY <1>1 DEF WorkersInv
    <3>3. wPc[w] \in {"loop", "hash", "waitStart"} /\ p \in {"loop", "hash", "ended"} => start
      BY <1>2, <3>1, <3>2
    <3>4. ASSUME NEW v \in AllWorkers, wPc'[v] \in {"loop", "hash"} \/ hashed'[v] > 0 PROVE start
      <4>1. CASE v = w
        BY <1>1, <1>2, <1>3, <3>1, <3>3, <3>4, <4>1 DEF WorkersInv
      <4>2. CASE v # w
        BY <1>1, <1>2, <1>3, <3>4, <4>2 DEF WorkersInv
      <4> QED BY <4>1, <4>2
    <3> QED BY <3>4
  <2>3. \A v \in AllWorkers : wPc'[v] = "hash" => hashed'[v] < MaxHashes
    <3>1. ASSUME NEW v \in AllWorkers, wPc'[v] = "hash" PROVE hashed'[v] < MaxHashes
      <4>1. CASE v = w
        BY <1>2, <1>3, <3>1, <4>1
      <4>2. CASE v # w
        BY <1>1, <1>2, <1>3, <3>1, <4>2 DEF WorkersInv
      <4> QED BY <4>1, <4>2
    <3> QED BY <3>1
  <2> QED BY <1>1, <1>2, <1>4, <1>6, <1>7, <1>9, <2>1, <2>2, <2>3
         DEF WorkersInv, Building, Running, AllWorkers
<1> QED BY <1>5, <1>8, <1>10 DEF BenchInv

(* The main thread goes on: all are ready, the time is up.                 *)
LEMMA FlagSteps ==
  ASSUME BenchInv, AllReady \/ TimeUp
  PROVE  BenchInv'
<1>1. RunTypeOK /\ HandlesInv /\ WorkersInv
  BY DEF BenchInv
<1>2. /\ UNCHANGED <<nativeVars, wPc, ready, total, result, hashed, sweepVars>>
      /\ \/ mainPc = "waitReady" /\ mainPc' = "measure" /\ start' = TRUE /\ stop' = stop /\ ready >= t
         \/ mainPc = "measure" /\ mainPc' = "join" /\ start' = start /\ stop' = TRUE
  BY DEF AllReady, TimeUp
<1>3. Counted' = Counted /\ Holders' = Holders /\ Workers' = Workers
  BY <1>2, SameWorkers DEF sweepVars
<1>4. RunTypeOK'
  BY <1>1, <1>2 DEF RunTypeOK, nativeVars, sweepVars, MainPositions, AllWorkers
<1>5. Counted = Workers
  <2>1. CASE mainPc = "waitReady"
    <3>1. Counted \in SUBSET Workers
      BY DEF Counted
    <3>2. Cardinality(Counted) = Cardinality(Workers) /\ IsFiniteSet(Workers)
      BY <1>1, <1>2, <2>1, <3>1, WorkersFinite DEF WorkersInv, RunTypeOK, AllWorkers
    <3> QED BY <3>1, <3>2, FS_Subset
  <2>2. CASE mainPc # "waitReady"
    BY <1>1, <1>2, <2>2 DEF WorkersInv
  <2> QED BY <2>1, <2>2
<1>6. HandlesInv'
  BY <1>1, <1>2, <1>3 DEF HandlesInv, nativeVars, HandleStates, Building, Running, Ranges, Fillers
<1>7. WorkersInv'
  BY <1>1, <1>2, <1>3, <1>5 DEF WorkersInv, Building, AllWorkers, sweepVars
<1> QED BY <1>4, <1>6, <1>7 DEF BenchInv

(* The result is read: nobody but the main thread holds the dataset.       *)
LEMMA ReportStep ==
  ASSUME BenchInv, Report
  PROVE  BenchInv'
<1>1. RunTypeOK /\ HandlesInv /\ WorkersInv
  BY DEF BenchInv
<1>2. /\ mainPc = "join" /\ mainPc' = "reported"
      /\ \A w \in Workers : wPc[w] \in {"ended", "failed"}
      /\ result' = total /\ refs' = refs - 1 /\ dataset' = IF refs = 1 THEN "released" ELSE dataset
      /\ UNCHANGED <<size, cache, started, filled, wPc, ready, start, stop, total, hashed, sweep, t>>
  BY DEF Report, DropArc
<1>3. Counted' = Counted /\ Holders' = Holders /\ Workers' = Workers
  BY <1>2, SameWorkers
<1>4. RunTypeOK'
  BY <1>1, <1>2 DEF RunTypeOK, MainPositions, AllWorkers
<1>5. Holders = {} /\ Cardinality(Holders) = 0
  BY <1>2, FS_EmptySet DEF Holders
<1>6. refs' = 0 /\ dataset' = "released"
  BY <1>1, <1>2, <1>5 DEF HandlesInv, Running
<1>7. HandlesInv'
  BY <1>1, <1>2, <1>6 DEF HandlesInv, HandleStates, Building, Running, Ranges, Fillers
<1>8. WorkersInv'
  BY <1>1, <1>2, <1>3 DEF WorkersInv, Building, AllWorkers
<1> QED BY <1>4, <1>7, <1>8 DEF BenchInv

LEMMA NextRunStep ==
  ASSUME BenchInv, NextRun
  PROVE  BenchInv'
<1>1. RunTypeOK /\ HandlesInv /\ WorkersInv
  BY DEF BenchInv
<1>2. RunTypeOK'
  <2>1. t' \in AllWorkers
    BY <1>1, BenchmarkAssumption DEF NextRun, RunTypeOK, AllWorkers
  <2>2. wPc' \in [AllWorkers -> WorkerPositions] /\ hashed' \in [AllWorkers -> 0 .. MaxHashes]
    BY BenchmarkAssumption DEF NextRun, WorkerPositions
  <2>3. size' \in Sizes /\ sweep' \in BOOLEAN /\ mainPc' \in MainPositions
    BY <1>1 DEF NextRun, NativeReset, RunTypeOK, MainPositions
  <2>4. start' \in BOOLEAN /\ stop' \in BOOLEAN /\ total' \in Nat /\ result' \in Nat
    BY DEF NextRun
  <2> QED BY <2>1, <2>2, <2>3, <2>4 DEF RunTypeOK, AllWorkers
<1>3. \A w \in AllWorkers : wPc'[w] = "none"
  BY DEF NextRun
<1>4. Cardinality(Counted') = 0
  <2>1. Workers' \subseteq AllWorkers
    BY <1>1, BenchmarkAssumption DEF NextRun, RunTypeOK, AllWorkers, Workers
  <2>2. Counted' = {}
    BY <1>3, <2>1 DEF Counted
  <2> QED BY <2>2, FS_EmptySet
<1>5. HandlesInv'
  BY DEF NextRun, NativeReset, HandlesInv, HandleStates, Building, Running
<1>6. WorkersInv'
  <2>1. /\ mainPc' = "allocCache" /\ ready' = 0 /\ ~start' /\ ~stop'
        /\ \A w \in AllWorkers : hashed'[w] = 0
    BY DEF NextRun
  <2>2. AllWorkers' = AllWorkers
    BY DEF AllWorkers
  <2> QED BY <1>3, <1>4, <2>1, <2>2 DEF WorkersInv, Building
<1> QED BY <1>2, <1>5, <1>6 DEF BenchInv

LEMMA BenchStep == BenchInv /\ [Next]_vars => BenchInv'
<1> SUFFICES ASSUME BenchInv, [Next]_vars PROVE BenchInv'
  OBVIOUS
<1>1. CASE Main
  BY <1>1, DatasetSteps, SpawnStep, FlagSteps, ReportStep, NextRunStep DEF Main
<1>2. CASE Fill
  BY <1>2, DatasetSteps
<1>3. CASE \E w \in Workers : Worker(w)
  BY <1>3, WorkerSteps
<1>4. CASE UNCHANGED vars
  <2>1. Counted' = Counted /\ Holders' = Holders /\ Workers' = Workers
    BY <1>4, SameWorkers DEF vars, runVars, sweepVars
  <2>2. Ranges' = Ranges /\ AllWorkers' = AllWorkers
    BY <1>4 DEF vars, nativeVars, Ranges, Fillers, AllWorkers
  <2>3. RunTypeOK' /\ HandlesInv' /\ WorkersInv'
    BY <1>4, <2>1, <2>2
       DEF BenchInv, vars, nativeVars, runVars, sweepVars, RunTypeOK, HandlesInv, WorkersInv, Building, Running
  <2> QED BY <2>3 DEF BenchInv
<1> QED BY <1>1, <1>2, <1>3, <1>4 DEF Next

THEOREM BenchCorrect == Spec => []BenchInv
BY BenchInit, BenchStep, PTL DEF Spec

-----------------------------------------------------------------------------
(* Whatever the number of items and of threads in rayon's pool, the        *)
(* workers get a dataset each item of which one thread has initialised     *)
(* (Dataset::new).                                                         *)
THEOREM DatasetComplete == Spec => []EachItemOnce
<1>1. BenchInv => EachItemOnce
  <2> SUFFICES ASSUME BenchInv, mainPc \notin {"allocCache", "allocDataset", "fill", "failed"}
               PROVE  /\ UNION {ItemsOf(i) : i \in filled} = 0 .. size.items - 1
                      /\ \A i, j \in filled : i # j => ItemsOf(i) \cap ItemsOf(j) = {}
    BY DEF EachItemOnce
  <2>1. filled = Ranges /\ size \in Sizes
    BY DEF BenchInv, HandlesInv, RunTypeOK, MainPositions, Running
  <2> QED BY <2>1, RangesPartition
<1> QED BY <1>1, BenchCorrect, PTL

(* No thread fills a dataset from a cache that is gone, and no VM reads a  *)
(* dataset that is gone (the Arc every worker holds, and the order of the  *)
(* releases in Dataset::new).                                              *)
THEOREM NoHandleAfterRelease == Spec => []HandlesLive
<1>1. BenchInv => HandlesLive
  <2> SUFFICES ASSUME BenchInv PROVE HandlesLive
    OBVIOUS
  <2>1. RunTypeOK /\ HandlesInv /\ WorkersInv
    BY DEF BenchInv
  <2>2. started # filled => mainPc = "fill"
    BY <2>1 DEF HandlesInv, RunTypeOK, MainPositions, Running
  <2>3. \A w \in Workers : wPc[w] = "createVm" \/ HasVm(w) => Running
    <3>1. Workers \subseteq AllWorkers
      BY <2>1, WorkersFinite
    <3> QED BY <2>1, <3>1 DEF WorkersInv, RunTypeOK, MainPositions, Running, Building, HasVm
  <2>4. (mainPc = "fill" => cache = "live" /\ dataset = "live") /\ (Running => dataset = "live")
    BY <2>1 DEF HandlesInv
  <2> QED BY <2>2, <2>3, <2>4 DEF HandlesLive
<1> QED BY <1>1, BenchCorrect, PTL

(* When a run of the benchmark has its result, cache and dataset have been *)
(* released: a sweep never holds two datasets.                             *)
THEOREM MemoryFreed == Spec => []HandlesReleased
<1>1. BenchInv => HandlesReleased
  BY DEF BenchInv, HandlesInv, HandlesReleased
<1> QED BY <1>1, BenchCorrect, PTL

(* No worker hashes before all of them have their VM, however many there   *)
(* are (the flag "start" and the count of ready workers).                  *)
THEOREM StartsTogether == Spec => []StartTogether
<1>1. BenchInv => StartTogether
  <2> SUFFICES ASSUME BenchInv, NEW v \in Workers, wPc[v] = "hash" \/ hashed[v] > 0
               PROVE  \A w \in Workers : wPc[w] \notin {"createVm", "failed"}
    BY DEF StartTogether
  <2>1. RunTypeOK /\ WorkersInv /\ v \in AllWorkers
    BY WorkersFinite DEF BenchInv
  <2>2. start
    BY <2>1 DEF WorkersInv
  <2>3. Counted = Workers
    BY <2>1, <2>2 DEF WorkersInv
  <2> QED BY <2>3 DEF Counted
<1> QED BY <1>1, BenchCorrect, PTL

-----------------------------------------------------------------------------
(* Every batch that a worker has finished has been counted once, and no    *)
(* worker finishes one after the result has been read.                     *)
CountInv ==
  /\ total = Cardinality(Batches)
  /\ mainPc = "reported" => result = total

LEMMA BatchesFinite == IsFiniteSet(Batches)
<1>1. IsFiniteSet(AllWorkers) /\ IsFiniteSet(1 .. MaxHashes)
  BY BenchmarkAssumption, FS_Interval DEF AllWorkers
<1>2. IsFiniteSet(AllWorkers \X (1 .. MaxHashes))
  BY <1>1, FS_Product
<1> QED BY <1>2, FS_Subset DEF Batches

LEMMA NoBatches ==
  ASSUME hashed = [w \in AllWorkers |-> 0]
  PROVE  Batches = {} /\ Cardinality(Batches) = 0
<1>1. ASSUME NEW b \in Batches PROVE FALSE
  <2>1. b[1] \in AllWorkers /\ b[2] \in 1 .. MaxHashes /\ b[2] <= hashed[b[1]]
    BY DEF Batches
  <2> QED BY <2>1, BenchmarkAssumption
<1> QED BY <1>1, FS_EmptySet

(* The end of a batch adds just that batch.                                *)
LEMMA OneBatchMore ==
  ASSUME RunTypeOK, NEW w \in AllWorkers, hashed[w] < MaxHashes,
         hashed' = [hashed EXCEPT ![w] = @ + 1]
  PROVE  Cardinality(Batches') = Cardinality(Batches) + 1
<1> DEFINE new == <<w, hashed[w] + 1>>
<1>1. hashed \in [AllWorkers -> 0 .. MaxHashes] /\ MaxHashes \in Nat
  BY BenchmarkAssumption DEF RunTypeOK
<1>2. hashed[w] \in Nat /\ hashed[w] + 1 \in 1 .. MaxHashes
  BY <1>1
<1>3. /\ hashed'[w] = hashed[w] + 1
      /\ \A v \in AllWorkers : v # w => hashed'[v] = hashed[v]
      /\ AllWorkers' = AllWorkers
  BY <1>1 DEF AllWorkers
<1>4. new \in AllWorkers \X (1 .. MaxHashes) /\ new[1] = w /\ new[2] = hashed[w] + 1
  BY <1>2
<1>5. new \notin Batches
  BY <1>2, <1>4 DEF Batches
<1>6. ASSUME NEW b \in AllWorkers \X (1 .. MaxHashes)
      PROVE  b[2] <= hashed'[b[1]] <=> b[2] <= hashed[b[1]] \/ b = new
  <2>1. b = <<b[1], b[2]>> /\ b[1] \in AllWorkers /\ b[2] \in Nat
    BY <1>1
  <2>2. CASE b[1] = w
    <3>1. b = new <=> b[2] = hashed[w] + 1
      BY <2>1, <2>2, <1>4
    <3>2. b[2] <= hashed[w] + 1 <=> b[2] <= hashed[w] \/ b[2] = hashed[w] + 1
      BY <1>2, <2>1
    <3> QED BY <1>3, <2>2, <3>1, <3>2
  <2>3. CASE b[1] # w
    BY <1>3, <1>4, <2>1, <2>3
  <2> QED BY <2>2, <2>3
<1> HIDE DEF new
<1>7. Batches' = Batches \cup {new}
  BY <1>3, <1>4, <1>6 DEF Batches
<1> QED BY <1>5, <1>7, BatchesFinite, FS_AddElement

LEMMA CountInit == Init => CountInv
  BY NoBatches DEF Init, CountInv

LEMMA CountStep == BenchInv /\ CountInv /\ [Next]_vars => CountInv'
<1> SUFFICES ASSUME BenchInv, CountInv, [Next]_vars PROVE CountInv'
  OBVIOUS
<1>1. RunTypeOK /\ WorkersInv
  BY DEF BenchInv
<1>2. CASE \E w \in Workers : EndBatch(w)
  <2>1. PICK w \in Workers : EndBatch(w)
    BY <1>2
  <2>2. w \in AllWorkers /\ wPc[w] = "hash" /\ mainPc # "reported"
    BY <1>1, <2>1, WorkersFinite DEF EndBatch, WorkersInv
  <2>3. Cardinality(Batches') = Cardinality(Batches) + 1
    BY <1>1, <2>1, <2>2, OneBatchMore DEF EndBatch, WorkersInv
  <2> QED BY <2>1, <2>2, <2>3 DEF EndBatch, CountInv
<1>3. CASE NextRun
  <2>1. Batches' = {} /\ Cardinality(Batches') = 0
    <3>1. AllWorkers' = AllWorkers /\ \A w \in AllWorkers : hashed'[w] = 0
      BY <1>3 DEF NextRun, AllWorkers
    <3>2. ASSUME NEW b \in AllWorkers \X (1 .. MaxHashes), b[2] <= hashed'[b[1]] PROVE FALSE
      <4>1. b[1] \in AllWorkers /\ b[2] \in 1 .. MaxHashes
        OBVIOUS
      <4> QED BY <3>1, <3>2, <4>1, BenchmarkAssumption
    <3> QED BY <3>1, <3>2, FS_EmptySet DEF Batches
  <2> QED BY <1>3, <2>1 DEF NextRun, CountInv
<1>4. CASE Report
  <2>1. Batches' = Batches
    BY <1>4 DEF Report, Batches, AllWorkers
  <2> QED BY <1>4, <2>1 DEF Report, CountInv
<1>5. CASE ~Report /\ ~NextRun /\ ~\E w \in Workers : EndBatch(w)
  <2>1. UNCHANGED <<total, result, hashed>> /\ (mainPc' = "reported" => mainPc = "reported")
    <3>1. CASE Main
      BY <1>5, <3>1 DEF Main, CacheAllocated, DatasetAllocated, AllocFails, Spawn, AllReady, TimeUp, runVars
    <3>2. CASE Fill
      BY <3>2 DEF Fill, runVars
    <3>3. CASE \E w \in Workers : Worker(w)
      BY <1>5, <3>3 DEF Worker, VmCreated, VmFailed, LeaveWait, BeginBatch, EndWorker
    <3>4. CASE UNCHANGED vars
      BY <3>4 DEF vars, runVars
    <3> QED BY <3>1, <3>2, <3>3, <3>4 DEF Next
  <2>2. Batches' = Batches
    BY <2>1 DEF Batches, AllWorkers
  <2> QED BY <2>1, <2>2 DEF CountInv
<1> QED BY <1>2, <1>3, <1>4, <1>5

(* The result of a run counts every batch of every worker: the main thread *)
(* reads total_hashes only when all workers have been joined.              *)
THEOREM NoBatchLost == Spec => []ResultIsComplete
<1>1. CountInv => ResultIsComplete
  BY DEF CountInv, ResultIsComplete
<1> QED BY <1>1, BenchCorrect, CountInit, CountStep, PTL DEF Spec

-----------------------------------------------------------------------------
(* The best point of a sweep.                                              *)
LEMMA RateIsNat ==
  ASSUME NEW n \in Nat, NEW elapsed \in {1, 2}
  PROVE  (16 * n) \div elapsed \in Nat
OBVIOUS

LEMMA BestInit == Init => BestInv
<1> SUFFICES ASSUME Init PROVE BestInv
  OBVIOUS
<1>1. best = 0 /\ bestT = 1 /\ rates = << >> /\ mainPc = "allocCache" /\ (sweep => t = 1)
  BY DEF Init
<1>2. 1 \in AllWorkers
  BY BenchmarkAssumption DEF AllWorkers
<1> QED BY <1>1, <1>2 DEF BestInv, BestPoint

LEMMA BestReport ==
  ASSUME RunTypeOK, BestInv, Report
  PROVE  BestInv'
<1>1. PICK elapsed \in {1, 2} :
        LET rate == (16 * total) \div elapsed
        IN  rates' = Append(rates, rate) /\ KeepBest(rate)
  BY DEF Report
<1> DEFINE rate == (16 * total) \div elapsed
<1>2. rate \in Nat
  BY RateIsNat DEF RunTypeOK
<1>3. rates' = Append(rates, rate) /\ KeepBest(rate)
  BY <1>1
<1>4. mainPc = "join" /\ mainPc' = "reported" /\ UNCHANGED <<sweep, t>>
  BY DEF Report
<1> HIDE DEF rate
<1>5. best \in Nat /\ bestT \in AllWorkers /\ rates \in Seq(Nat) /\ BestPoint
  BY DEF BestInv
<1>6. t \in AllWorkers /\ t \in Nat /\ AllWorkers' = AllWorkers /\ AllWorkers \subseteq Nat
  BY BenchmarkAssumption DEF RunTypeOK, AllWorkers
<1>7. /\ rates' \in Seq(Nat) /\ Len(rates') = Len(rates) + 1 /\ Len(rates) \in Nat
      /\ rates'[Len(rates) + 1] = rate /\ \A i \in 1 .. Len(rates) : rates'[i] = rates[i] /\ rates[i] \in Nat
      /\ DOMAIN rates = 1 .. Len(rates) /\ DOMAIN rates' = 1 .. Len(rates) + 1
  BY <1>2, <1>3, <1>5
<1>8. best' \in Nat /\ bestT' \in AllWorkers
  BY <1>2, <1>3, <1>5, <1>6 DEF KeepBest
<1>9. sweep => Len(rates) = t - 1
  BY <1>4 DEF BestInv
<1>10. BestPoint'
  <2> SUFFICES ASSUME sweep PROVE BestPoint'
    BY <1>4 DEF BestPoint
  <2>1. /\ \A i \in 1 .. Len(rates) : rates[i] <= best /\ (i < bestT => rates[i] < best)
        /\ best > 0 => bestT \in 1 .. Len(rates) /\ rates[bestT] = best
    BY <1>5, <1>7 DEF BestPoint
  <2>2. CASE rate > best
    <3>1. best' = rate /\ bestT' = t /\ t = Len(rates) + 1
      BY <1>3, <1>6, <1>7, <1>9, <2>2 DEF KeepBest
    <3>2. \A i \in 1 .. Len(rates) : rates'[i] < rate
      BY <1>2, <1>5, <1>7, <2>1, <2>2
    <3> QED BY <1>2, <1>4, <1>7, <3>1, <3>2 DEF BestPoint
  <2>3. CASE ~(rate > best)
    <3>1. best' = best /\ bestT' = bestT
      BY <1>3, <2>3 DEF KeepBest
    <3>2. rate <= best
      BY <1>2, <1>5, <2>3
    <3>3. ~(Len(rates) + 1 < bestT)
      <4>1. best = 0 => bestT = 1
        BY DEF BestInv
      <4>2. best = 0 \/ best > 0
        BY <1>5
      <4> QED BY <1>5, <1>6, <1>7, <2>1, <4>1, <4>2
    <3>4. \A i \in 1 .. Len(rates) + 1 : rates'[i] <= best /\ (i < bestT => rates'[i] < best)
      <4>1. ASSUME NEW i \in 1 .. Len(rates) + 1, i \notin 1 .. Len(rates) PROVE i = Len(rates) + 1
        BY <1>7, <4>1
      <4> QED BY <1>7, <2>1, <3>2, <3>3, <4>1
    <3>5. best > 0 => bestT \in 1 .. Len(rates) + 1 /\ rates'[bestT] = best
      BY <1>7, <2>1
    <3> QED BY <1>4, <1>7, <3>1, <3>4, <3>5 DEF BestPoint
  <2> QED BY <2>2, <2>3
<1>11. best' = 0 => bestT' = 1
  BY <1>2, <1>3, <1>5 DEF KeepBest, BestInv
<1> QED BY <1>4, <1>6, <1>7, <1>8, <1>9, <1>10, <1>11 DEF BestInv

LEMMA BestStep == RunTypeOK /\ BestInv /\ [Next]_vars => BestInv'
<1> SUFFICES ASSUME RunTypeOK, BestInv, [Next]_vars PROVE BestInv'
  OBVIOUS
<1>1. CASE Report
  BY <1>1, BestReport
<1>2. CASE NextRun
  <2>1. UNCHANGED <<sweep, best, bestT, rates>> /\ t' = t + 1 /\ t \in Nat
        /\ mainPc = "reported" /\ mainPc' = "allocCache"
    BY <1>2, BenchmarkAssumption DEF NextRun, RunTypeOK, AllWorkers
  <2> QED BY <2>1 DEF BestInv, BestPoint, AllWorkers
<1>3. CASE ~Report /\ ~NextRun
  <2>1. UNCHANGED sweepVars /\ (mainPc = "reported" <=> mainPc' = "reported")
    <3>1. CASE Main
      BY <1>3, <3>1 DEF Main, CacheAllocated, DatasetAllocated, AllocFails, Spawn, AllReady, TimeUp, sweepVars
    <3>2. CASE Fill
      BY <3>2 DEF Fill, sweepVars
    <3>3. CASE \E w \in Workers : Worker(w)
      BY <3>3 DEF Worker, VmCreated, VmFailed, LeaveWait, BeginBatch, EndBatch, EndWorker, sweepVars
    <3>4. CASE UNCHANGED vars
      BY <3>4 DEF vars, sweepVars
    <3> QED BY <3>1, <3>2, <3>3, <3>4 DEF Next
  <2> QED BY <2>1 DEF BestInv, BestPoint, sweepVars, AllWorkers
<1> QED BY <1>1, <1>2, <1>3

THEOREM BestCorrect == Spec => []BestInv
<1>1. BenchInv => RunTypeOK
  BY DEF BenchInv
<1> QED BY <1>1, BenchCorrect, BestInit, BestStep, PTL DEF Spec

(* A sweep of any number of runs reports the highest rate and the fewest   *)
(* threads that reach it (the loop of app/benchmark.rs).                   *)
THEOREM SweepReportsBest == Spec => []BestPoint
<1>1. BestInv => BestPoint
  BY DEF BestInv
<1> QED BY <1>1, BestCorrect, PTL

(* Every variable keeps its type; the dataset has at most one Arc a worker *)
(* and the main thread's (run_benchmark).                                  *)
THEOREM BenchTypeCorrect == Spec => []BenchTypeOK
<1>1. BenchInv /\ BestInv => BenchTypeOK
  <2> SUFFICES ASSUME BenchInv, BestInv PROVE BenchTypeOK
    OBVIOUS
  <2>1. RunTypeOK /\ HandlesInv /\ WorkersInv
    BY DEF BenchInv
  <2>2. Counted \in SUBSET Workers /\ Holders \in SUBSET Workers
    BY DEF Counted, Holders
  <2>3. Cardinality(Counted) \in 0 .. t /\ Cardinality(Holders) \in 0 .. t
    BY <2>1, <2>2, WorkersFinite
  <2>4. t \in Nat /\ t <= MaxThreads /\ MaxThreads \in Nat
    BY <2>1, BenchmarkAssumption DEF RunTypeOK, AllWorkers
  <2>5. ready \in 0 .. t
    BY <2>1, <2>3 DEF WorkersInv
  <2>6. refs \in 0 .. MaxThreads + 1
    <3>1. refs = 0 \/ refs = 1 + Cardinality(Holders)
      BY <2>1 DEF HandlesInv, RunTypeOK, MainPositions, Building, Running
    <3> QED BY <2>3, <2>4, <3>1
  <2>7. cache \in HandleStates /\ dataset \in HandleStates
    BY <2>1 DEF HandlesInv, HandleStates, RunTypeOK, MainPositions, Building, Running
  <2>8. started \subseteq Ranges /\ filled \subseteq started
    BY <2>1 DEF HandlesInv
  <2> QED BY <2>1, <2>5, <2>6, <2>7, <2>8 DEF BenchTypeOK, RunTypeOK, BestInv
<1> QED BY <1>1, BenchCorrect, BestCorrect, PTL
=============================================================================
