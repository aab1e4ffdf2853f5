------------------------------- MODULE MinerProofs -------------------------------
(***************************************************************************)
(* Proofs about Miner and about the nonces NonceHistory sees it hash, for  *)
(* any number of threads, any jobs and any widths of the nonce, the        *)
(* pipeline and the batch.                                                 *)
(***************************************************************************)
EXTENDS NonceHistory, DatasetCacheProofs, SequenceTheorems, FunctionTheorems, FiniteSetTheorems,
  WellFoundedInduction

-----------------------------------------------------------------------------
(* Nonce arithmetic.                                                       *)

(* A number below the modulus is its own remainder.                        *)
LEMMA ModSmall ==
  ASSUME NEW s \in Nat \ {0}, NEW n \in Nat, n < s
  PROVE  n % s = n
  OBVIOUS

(* Division by m of a multiple of m plus a remainder.                      *)
LEMMA DivRem ==
  ASSUME NEW m \in Nat \ {0}, NEW a \in Nat, NEW r \in 0 .. m - 1
  PROVE  (a * m + r) \div m = a
  OBVIOUS

(* Distinct residues: w + k*t = v + l*t with w, v < t only if w = v.       *)
LEMMA Residue ==
  ASSUME NEW t \in Nat \ {0}, NEW w \in 0 .. t - 1, NEW v \in 0 .. t - 1,
         NEW k \in Nat, NEW l \in Nat, w + k * t = v + l * t
  PROVE  w = v
  OBVIOUS

(* The nonces a job leaves to the threads are merged into distinct nonces. *)
LEMMA MergeInjective ==
  ASSUME NEW j \in Jobs, NEW m \in 0 .. Mask(j), NEW n \in 0 .. Mask(j),
         Merge(j, m) = Merge(j, n)
  PROVE  m = n
<1>1. LoSize \in Nat \ {0} /\ Space \in Nat \ {0} /\ j.nonce \in Nat
  BY MinerAssumption DEF Space
<1>2. CASE Nicehash(j)
  <2>1. m \in Nat /\ n \in Nat /\ m < LoSize /\ n < LoSize
    BY <1>1, <1>2 DEF Mask
  <2>2. m % LoSize = m /\ n % LoSize = n
    BY <1>1, <2>1, ModSmall
  <2>3. j.nonce \div LoSize \in Nat
    BY <1>1
  <2> QED BY <1>1, <1>2, <2>1, <2>2, <2>3 DEF Merge
<1>3. CASE ~Nicehash(j)
  BY <1>3 DEF Merge
<1> QED BY <1>2, <1>3

-----------------------------------------------------------------------------
(* The job of a thread and what its VM is for go together at every point   *)
(* of its loop.                                                            *)
LoopTypeOK ==
  /\ latest \in Jobs \cup {NoJob}
  /\ wpc \in [Workers -> LoopPositions]
  /\ job \in [Workers -> Jobs \cup {NoJob}]

JobInv ==
  \A w \in Workers :
    /\ pc[w] # "run" =>
         wpc[w] = "top" /\ job[w] \in Jobs /\ want[w] = job[w].key
    /\ pc[w] = "run" /\ wpc[w] = "mine" =>
         job[w] \in Jobs /\ cur[w] = job[w].key

LoopInv == CacheInv /\ LoopTypeOK /\ JobInv

LEMMA LoopInitInv == MinerInit => LoopInv
<1> SUFFICES ASSUME MinerInit PROVE LoopInv
  OBVIOUS
<1>1. CacheInv
  BY CacheInitInv DEF MinerInit
<1>2. LoopTypeOK /\ JobInv
  BY DEF MinerInit, CacheInit, LoopTypeOK, JobInv, LoopPositions
<1> QED BY <1>1, <1>2 DEF LoopInv

(* A step of the miner is a step of the dataset cache or leaves it alone.  *)
LEMMA MinerStepsCache ==
  ASSUME MinerAssumption, LoopTypeOK, [MinerNext]_minerVars
  PROVE  [CacheNext]_cacheVars
<1>1. CASE UNCHANGED minerVars
  BY <1>1 DEF minerVars
<1>2. CASE (\E j \in Jobs : Publish(j)) \/ Close \/ TakeShare
  BY <1>2 DEF Publish, Close, TakeShare
<1>3. ASSUME NEW w \in Workers, Thread(w) \/ Wake(w)
      PROVE  [CacheNext]_cacheVars
  <2>1. CASE Park(w) \/ Unpark(w) \/ Exit(w) \/ StartBatch(w)
    BY <2>1 DEF Park, Unpark, Exit, StartBatch
  <2>2. CASE Mine(w)
    BY <2>2 DEF Mine, MineOut, MinePipeline, BatchDone
  <2>3. CASE StartVm(w)
    <3>1. SeenJob(w) \in Jobs
      BY <2>3 DEF StartVm, SeenJob, LoopTypeOK
    <3>2. SeenJob(w).key \in Keys
      BY <3>1, MinerAssumption
    <3> QED BY <2>3, <3>2 DEF StartVm, CacheNext
  <2>4. CASE InCreateVm(w) \/ VmReady(w) \/ Wake(w)
    BY <2>4 DEF InCreateVm, VmReady, Wake, CacheNext, NewVm
  <2> QED BY <1>3, <2>1, <2>2, <2>3, <2>4 DEF Thread
<1> QED BY <1>1, <1>2, <1>3 DEF MinerNext

(* What a step of one thread leaves to the others.                         *)
LEMMA ExamineMoves ==
  ASSUME CacheTypeOK, NEW w \in Workers, Examine(w) \/ SpuriousWake(w)
  PROVE  /\ pc[w] # "run"
         /\ \A v \in Workers : v # w => pc'[v] = pc[v]
         /\ want' = want /\ cur' = cur
  BY DEF Examine, Hit, Refuse, Sleep, Claim, SpuriousWake, CacheTypeOK

LEMMA BuildMoves ==
  ASSUME CacheTypeOK, NEW w \in Workers, Build(w)
  PROVE  /\ pc[w] # "run"
         /\ \A v \in Workers : v # w => (pc'[v] = "run" <=> pc[v] = "run")
         /\ want' = want /\ cur' = cur
  BY DEF Build, BuildOk, BuildFail, NotifyAll, CacheTypeOK

LEMMA LoopStepInv == LoopInv /\ [MinerNext]_minerVars => LoopInv'
<1> SUFFICES ASSUME LoopInv, [MinerNext]_minerVars
             PROVE  LoopInv'
  OBVIOUS
<1> USE DEF LoopInv
<1>0. CacheInv' /\ CacheTypeOK
  BY MinerStepsCache, MinerAssumption, CacheStepInv DEF CacheInv
<1>1. CASE UNCHANGED minerVars
  BY <1>0, <1>1 DEF minerVars, cacheVars, threadVars, LoopTypeOK, JobInv
<1>2. CASE (\E j \in Jobs : Publish(j)) \/ Close \/ TakeShare
  BY <1>0, <1>2 DEF Publish, Close, TakeShare, cacheVars, threadVars, LoopTypeOK, JobInv
<1>3. ASSUME NEW w \in Workers, Thread(w) \/ Wake(w)
      PROVE  LoopInv'
  <2>1. CASE Park(w)
    BY <1>0, <2>1 DEF Park, LookAtLatest, SeenJob, cacheVars, LoopTypeOK, JobInv, LoopPositions
  <2>2. CASE Unpark(w) \/ Exit(w)
    BY <1>0, <2>2 DEF Unpark, Exit, cacheVars, LoopTypeOK, JobInv, LoopPositions
  <2>3. CASE StartVm(w)
    BY <1>0, <2>3 DEF StartVm, LookAtLatest, SeenJob, Request, LoopTypeOK, JobInv,
                      LoopPositions, CacheTypeOK
  <2>4. CASE StartBatch(w)
    BY <1>0, <2>4 DEF StartBatch, LookAtLatest, SeenJob, NeedsVm, cacheVars, LoopTypeOK,
                      JobInv, LoopPositions
  <2>5. CASE VmReady(w)
    <3>1. pc[w] = "vmnew" /\ job[w] \in Jobs /\ want[w] = job[w].key
      BY <2>5 DEF VmReady, VmOk, JobInv
    <3>2. LoopTypeOK'
      BY <2>5 DEF VmReady, LoopTypeOK, LoopPositions
    <3>3. JobInv'
      BY <1>0, <2>5, <3>1, <3>2 DEF VmReady, VmOk, JobInv, CacheTypeOK, LoopTypeOK
    <3> QED BY <1>0, <3>2, <3>3
  <2>6. CASE InCreateVm(w)
    <3>1. LoopTypeOK' /\ UNCHANGED <<wpc, job>>
      BY <2>6 DEF InCreateVm, threadVars, LoopTypeOK
    <3>2. CASE Examine(w) \/ Build(w)
      BY <1>0, <3>1, <3>2, ExamineMoves, BuildMoves DEF JobInv
    <3>3. CASE VmFail(w)
      BY <1>0, <3>1, <3>3 DEF VmFail, JobInv, CacheTypeOK
    <3> QED BY <1>0, <2>6, <3>1, <3>2, <3>3 DEF InCreateVm
  <2>7. CASE Wake(w)
    <3>1. LoopTypeOK' /\ UNCHANGED <<wpc, job>>
      BY <2>7 DEF Wake, threadVars, LoopTypeOK
    <3> QED BY <1>0, <2>7, <3>1, ExamineMoves DEF Wake, JobInv
  <2>8. CASE MineOut(w) \/ BatchDone(w)
    BY <1>0, <2>8 DEF MineOut, BatchDone, cacheVars, LoopTypeOK, JobInv, LoopPositions
  <2>9. CASE MinePipeline(w)
    BY <1>0, <2>9 DEF MinePipeline, cacheVars, LoopTypeOK, JobInv
  <2> QED BY <1>3, <2>1, <2>2, <2>3, <2>4, <2>5, <2>6, <2>7, <2>8, <2>9 DEF Thread, Mine
<1> QED BY <1>1, <1>2, <1>3 DEF MinerNext

THEOREM LoopInvariant == MinerSpec => []LoopInv
  BY LoopInitInv, LoopStepInv, PTL DEF MinerSpec

(* No thread ever hashes for a job with the dataset of another seed,       *)
(* whatever jobs arrive and whichever builds and VMs fail meanwhile.       *)
THEOREM HashesForItsSeed == MinerSpec => []VmOfItsJob
<1>1. LoopInv => VmOfItsJob
  BY DEF LoopInv, CacheInv, VmOfItsSeed, JobInv, VmOfItsJob
<1> QED BY <1>1, LoopInvariant, PTL

-----------------------------------------------------------------------------
(* The numbers of the model, and where the cursor can be.                  *)
LEMMA WorkerNumbers == Workers \subseteq 0 .. ThreadCount - 1 /\ ThreadCount \in Nat \ {0}
  BY MinerAssumption

LEMMA SizesNat ==
  /\ Space \in Nat \ {0} /\ LoSize \in Nat \ {0}
  /\ PipelineSize \in Nat \ {0} /\ BatchSize \in Nat \ {0}
  BY MinerAssumption DEF Space

LEMMA MaskRange == \A j \in Jobs : Mask(j) \in Nat /\ Mask(j) <= Space - 1
<1> SUFFICES ASSUME NEW j \in Jobs PROVE Mask(j) \in Nat /\ Mask(j) <= Space - 1
  OBVIOUS
<1>1. HiSize \in Nat \ {0} /\ LoSize \in Nat \ {0} /\ LoSize <= LoSize * HiSize
  BY MinerAssumption
<1> QED BY <1>1 DEF Mask, Space

LEMMA MergeInt == \A j \in Jobs : \A m \in Nat : Merge(j, m) \in Int
<1> SUFFICES ASSUME NEW j \in Jobs, NEW m \in Nat PROVE Merge(j, m) \in Int
  OBVIOUS
<1>1. j.nonce \in Nat
  BY MinerAssumption
<1> QED BY <1>1, SizesNat DEF Merge

(* Before 2^32 is passed, wrapping_add is addition.                        *)
LEMMA AdvanceSmall ==
  ASSUME NEW n \in Nat, NEW i \in Nat, n + i * ThreadCount < Space
  PROVE  Advance(n, i) = n + i * ThreadCount
<1>1. n + i * ThreadCount \in Nat
  BY WorkerNumbers
<1> QED BY <1>1, SizesNat, ModSmall DEF Advance

LEMMA AdvanceNat ==
  ASSUME NEW n \in Nat, NEW i \in Nat
  PROVE  Advance(n, i) \in Nat
<1>1. n + i * ThreadCount \in Nat
  BY WorkerNumbers
<1> QED BY <1>1, SizesNat DEF Advance

(* The types: cursors and shares keep below 2^32, the queue of shares      *)
(* within its capacity.                                                    *)
MinedTypeOK ==
  /\ closed \in BOOLEAN
  /\ nonce  \in [Workers -> 0 .. Space - 1]
  /\ rem    \in [Workers -> 0 .. BatchSize]
  /\ minedQ \in Seq([job : Jobs, nonce : 0 .. Space - 1, dataset : Keys])
  /\ Len(minedQ) <= MinedCap

MinerInv == LoopInv /\ MinedTypeOK

LEMMA AdvanceRange ==
  ASSUME NEW n \in Nat, NEW i \in Nat
  PROVE  Advance(n, i) \in 0 .. Space - 1
<1>1. n + i * ThreadCount \in Nat
  BY WorkerNumbers
<1> QED BY <1>1, SizesNat DEF Advance

(* The quotient of a number below a * m, and what it leaves room for.      *)
LEMMA QuotientBound ==
  ASSUME NEW m \in Nat \ {0}, NEW a \in Nat \ {0}, NEW n \in 0 .. m * a - 1
  PROVE  n \div m \in 0 .. a - 1
<1> DEFINE q == n \div m
<1>1. n \in Nat /\ n < m * a /\ q \in Nat /\ q * m <= n
  OBVIOUS
<1> HIDE DEF q
<1>2. ASSUME a <= q PROVE FALSE
  <2>1. a * m <= q * m
    BY <1>1, <1>2
  <2> QED BY <1>1, <2>1
<1>3. q <= a - 1
  BY <1>1, <1>2
<1> QED BY <1>1, <1>3 DEF q

LEMMA BelowProduct ==
  ASSUME NEW m \in Nat \ {0}, NEW a \in Nat \ {0}, NEW q \in 0 .. a - 1, NEW r \in 0 .. m - 1
  PROVE  q * m + r \in 0 .. m * a - 1
<1>1. q * m <= (a - 1) * m /\ q * m \in Nat
  OBVIOUS
<1>2. (a - 1) * m = m * a - m
  OBVIOUS
<1> QED BY <1>1, <1>2

LEMMA MergeRange ==
  ASSUME NEW j \in Jobs, NEW m \in 0 .. Mask(j)
  PROVE  Merge(j, m) \in 0 .. Space - 1
<1>1. /\ LoSize \in Nat \ {0} /\ HiSize \in Nat \ {0}
      /\ j.nonce \in 0 .. LoSize * HiSize - 1
  BY MinerAssumption DEF Space
<1>2. m \in Nat /\ m <= Space - 1
  BY MaskRange, SizesNat
<1>3. j.nonce \div LoSize \in 0 .. HiSize - 1
  BY <1>1, QuotientBound
<1>4. m % LoSize \in 0 .. LoSize - 1
  BY <1>1, <1>2
<1>5. (j.nonce \div LoSize) * LoSize + (m % LoSize) \in 0 .. Space - 1
  BY <1>1, <1>3, <1>4, BelowProduct DEF Space
<1> QED BY <1>2, <1>5, SizesNat DEF Merge

LEMMA MinedInitType == MinerInit => MinedTypeOK
<1> SUFFICES ASSUME MinerInit PROVE MinedTypeOK
  OBVIOUS
<1>1. LoSize <= LoSize * HiSize
  BY MinerAssumption
<1>2. \A w \in Workers : w \in 0 .. Space - 1
  BY <1>1, MinerAssumption, WorkerNumbers, SizesNat DEF Space
<1>3. nonce \in [Workers -> 0 .. Space - 1]
  BY <1>2 DEF MinerInit
<1>4. rem \in [Workers -> 0 .. BatchSize]
  BY SizesNat DEF MinerInit
<1>5. minedQ = << >> /\ Len(minedQ) <= MinedCap
  BY MinerAssumption DEF MinerInit
<1>6. closed \in BOOLEAN
  BY DEF MinerInit
<1> QED BY <1>3, <1>4, <1>5, <1>6 DEF MinedTypeOK

(* Where a pipeline is hashed, what each place of it stands for.           *)
LEMMA PipelineNonces ==
  ASSUME MinerInv, NEW w \in Workers, MinePipeline(w)
  PROVE  /\ Count(w) \in Nat /\ Count(w) <= rem[w]
         /\ Filled(w) = 0 .. Count(w) - 1
         /\ \A i \in Filled(w) : /\ Advance(nonce[w], i) \in 0 .. Mask(job[w])
                                 /\ BlobNonce(w, i) \in 0 .. Space - 1
         /\ job[w] \in Jobs /\ vm[w] \in Keys
<1>1. /\ Count(w) \in Nat /\ Count(w) <= rem[w]
      /\ nonce[w] \in Nat
      /\ \A i \in Filled(w) : i \in Nat
  BY SizesNat DEF Count, Filled, MinedTypeOK, MinerInv
<1>2. job[w] \in Jobs /\ Mask(job[w]) \in Nat
  BY MaskRange DEF MinePipeline, LoopInv, JobInv, MinerInv
<1>3. \A i \in Filled(w) : Advance(nonce[w], i) \in 0 .. Mask(job[w])
  <2>1. \A i \in Filled(w) : Advance(nonce[w], i) <= Mask(job[w])
    BY DEF MinePipeline, RoomForPipeline
  <2>2. \A i \in Filled(w) : Advance(nonce[w], i) \in Nat
    BY <1>1, AdvanceNat
  <2> QED BY <1>2, <2>1, <2>2
<1>4. \A i \in Filled(w) : BlobNonce(w, i) \in 0 .. Space - 1
  BY <1>2, <1>3, MergeRange DEF BlobNonce
<1>5. vm[w] \in Keys
  <2>1. vm[w] = cur[w] /\ cur[w] = job[w].key
    BY DEF MinePipeline, MinerInv, LoopInv, CacheInv, VmOfItsSeed, JobInv
  <2> QED BY <1>2, <2>1, MinerAssumption
<1> QED BY <1>1, <1>2, <1>3, <1>4, <1>5 DEF Filled

LEMMA MinePipelineType ==
  ASSUME MinerInv, NEW w \in Workers, MinePipeline(w)
  PROVE  MinedTypeOK'
<1> DEFINE Shares == [job : Jobs, nonce : 0 .. Space - 1, dataset : Keys]
<1>0. PICK n \in 0 .. Count(w) : \E good \in Increasing(n, Filled(w)) :
        minedQ' = TrySendAll(minedQ, [k \in 1 .. n |-> Share(w, good[k])])
  BY DEF MinePipeline
<1>1. PICK good \in Increasing(n, Filled(w)) :
        minedQ' = TrySendAll(minedQ, [k \in 1 .. n |-> Share(w, good[k])])
  BY <1>0
<1>2. n \in Nat /\ good \in [1 .. n -> Filled(w)]
  BY <1>0, <1>1, PipelineNonces DEF Increasing
<1>3. [k \in 1 .. n |-> Share(w, good[k])] \in Seq(Shares)
  <2>1. \A i \in Filled(w) : Share(w, i) \in Shares
    BY PipelineNonces DEF Share
  <2>2. [k \in 1 .. n |-> Share(w, good[k])] \in [1 .. n -> Shares]
    BY <1>2, <2>1
  <2> QED BY <1>2, <2>2
<1>4. minedQ' \in Seq(Shares) /\ Len(minedQ') <= MinedCap
  <2> DEFINE all == minedQ \o [k \in 1 .. n |-> Share(w, good[k])]
             len == IF Len(all) < MinedCap THEN Len(all) ELSE MinedCap
  <2>1. all \in Seq(Shares) /\ Len(all) \in Nat
    BY <1>3 DEF MinerInv, MinedTypeOK
  <2>2. len \in 0 .. Len(all) /\ len <= MinedCap /\ len \in Nat
    BY <2>1, MinerAssumption
  <2>3. minedQ' = SubSeq(all, 1, len)
    BY <1>1 DEF TrySendAll
  <2> HIDE DEF all, len, Shares
  <2>4. SubSeq(all, 1, len) \in Seq(Shares) /\ Len(SubSeq(all, 1, len)) = len
    BY <2>1, <2>2
  <2> QED BY <2>2, <2>3, <2>4
<1>5. nonce' \in [Workers -> 0 .. Space - 1]
  <2>1. nonce' = [nonce EXCEPT ![w] = Advance(nonce[w], Count(w))]
    BY DEF MinePipeline
  <2>2. nonce[w] \in Nat
    BY SizesNat DEF MinerInv, MinedTypeOK
  <2> QED BY <2>1, <2>2, PipelineNonces, AdvanceRange DEF MinerInv, MinedTypeOK
<1>6. rem' \in [Workers -> 0 .. BatchSize]
  <2>1. rem' = [rem EXCEPT ![w] = rem[w] - Count(w)] /\ rem \in [Workers -> 0 .. BatchSize]
    BY DEF MinePipeline, MinerInv, MinedTypeOK
  <2>2. rem[w] - Count(w) \in 0 .. BatchSize
    BY <2>1, PipelineNonces, SizesNat
  <2> QED BY <2>1, <2>2
<1>7. closed' \in BOOLEAN
  BY DEF MinePipeline, MinerInv, MinedTypeOK
<1> QED BY <1>4, <1>5, <1>6, <1>7 DEF MinedTypeOK

LEMMA MinerStepInv == MinerInv /\ [MinerNext]_minerVars => MinerInv'
<1> SUFFICES ASSUME MinerInv, [MinerNext]_minerVars PROVE MinedTypeOK'
  BY LoopStepInv DEF MinerInv
<1> USE DEF MinedTypeOK
<1>0. MinedTypeOK
  BY DEF MinerInv
<1>1. CASE UNCHANGED minerVars
  BY <1>0, <1>1 DEF minerVars, threadVars
<1>2. CASE (\E j \in Jobs : Publish(j)) \/ Close
  BY <1>0, <1>2 DEF Publish, Close, threadVars
<1>3. CASE TakeShare
  <2>1. minedQ # << >> /\ minedQ' = Tail(minedQ)
    BY <1>3 DEF TakeShare
  <2>2. /\ minedQ' \in Seq([job : Jobs, nonce : 0 .. Space - 1, dataset : Keys])
        /\ Len(minedQ') <= MinedCap
    BY <1>0, <2>1, MinerAssumption
  <2> QED BY <1>0, <1>3, <2>2 DEF TakeShare, threadVars
<1>4. ASSUME NEW w \in Workers, Thread(w) \/ Wake(w)
      PROVE  MinedTypeOK'
  <2>0. w \in 0 .. Space - 1
    <3>1. LoSize <= LoSize * HiSize
      BY MinerAssumption
    <3> QED BY <3>1, MinerAssumption, WorkerNumbers, SizesNat DEF Space
  <2>1. CASE Unpark(w) \/ Exit(w) \/ InCreateVm(w) \/ Wake(w) \/ BatchDone(w)
    BY <1>0, <2>1 DEF Unpark, Exit, InCreateVm, Wake, BatchDone, threadVars
  <2>2. CASE Park(w) \/ StartVm(w) \/ StartBatch(w)
    <3>1. LookAtLatest(w) /\ rem' \in [Workers -> 0 .. BatchSize]
      BY <1>0, <2>2, SizesNat DEF Park, StartVm, StartBatch
    <3> QED BY <1>0, <2>0, <3>1 DEF LookAtLatest, SeenCursor
  <2>3. CASE VmReady(w)
    BY <1>0, <2>3, SizesNat DEF VmReady
  <2>4. CASE MineOut(w)
    <3>1. PICK stop \in Filled(w) : nonce' = [nonce EXCEPT ![w] = Advance(nonce[w], stop)]
      BY <2>4 DEF MineOut
    <3>2. stop \in Nat /\ nonce[w] \in Nat
      BY <1>0, SizesNat DEF Filled, Count
    <3>3. nonce' \in [Workers -> 0 .. Space - 1]
      BY <1>0, <3>1, <3>2, AdvanceRange
    <3> QED BY <1>0, <2>4, <3>3, SizesNat DEF MineOut
  <2>5. CASE MinePipeline(w)
    BY <2>5, MinePipelineType
  <2> QED BY <1>4, <2>1, <2>2, <2>3, <2>4, <2>5 DEF Thread, Mine
<1> QED BY <1>1, <1>2, <1>3, <1>4 DEF MinerNext

THEOREM MinerInvariant == MinerSpec => []MinerInv
<1>1. MinerInit => MinerInv
  BY LoopInitInv, MinedInitType DEF MinerInv
<1> QED BY <1>1, MinerStepInv, PTL DEF MinerSpec

(* The miner's variables keep their types, for any sizes.                  *)
THEOREM MinerTypeCorrect == MinerSpec => []MinerTypeOK
<1>1. MinerInv => MinerTypeOK
  BY DEF MinerInv, MinedTypeOK, MinerTypeOK, LoopInv, LoopTypeOK, CacheInv
<1> QED BY <1>1, MinerInvariant, PTL

-----------------------------------------------------------------------------
(* What NonceHistory writes down.  The cursor of a thread runs through w,  *)
(* w + T, w + 2T, ... as long as it has not passed 2^32 for its job; what  *)
(* a thread has hashed for a job, at whatever times it had it, are merged  *)
(* numbers of that sequence, and what it has hashed since it took up its   *)
(* present job lies behind the cursor.                                     *)
HistoryTypeOK ==
  /\ tried  \in [Workers -> [Jobs -> SUBSET (0 .. Space - 1)]]
  /\ stay   \in [Workers -> SUBSET (0 .. Space - 1)]
  /\ lapped \in [Workers -> SUBSET Jobs]

OnTrack(w, n) == \E k \in Nat : n = w + k * ThreadCount

CursorInv == \A w \in Workers : job[w] \notin lapped[w] => OnTrack(w, nonce[w])

TriedInv ==
  \A w \in Workers : \A j \in Jobs :
    \A n \in tried[w][j] :
      \E m \in 0 .. Mask(j) :
        n = Merge(j, m) /\ (j \notin lapped[w] => OnTrack(w, m))

StayInv ==
  \A w \in Workers :
    (job[w] \in Jobs /\ job[w] \notin lapped[w]) =>
      \A n \in stay[w] :
        \E m \in 0 .. Mask(job[w]) : n = Merge(job[w], m) /\ m < nonce[w]

(* A job whose nonces end before 2^32 is one the cursor cannot pass.       *)
Limited(j) == Mask(j) < Space - 1

NeverLapped == \A w \in Workers : \A j \in lapped[w] : ~Limited(j)

HistoryInv ==
  MinerInv /\ HistoryTypeOK /\ CursorInv /\ TriedInv /\ StayInv /\ NeverLapped

(* Behind a proxy a thread has hashed its whole track up to the cursor but *)
(* for one pipeline at most, the one that ran into the end.                *)
Searched(w, s) ==
  \A m \in Nat : OnTrack(w, m) /\ m < s => Merge(job[w], m) \in tried[w][job[w]]

TailInv ==
  \A w \in Workers :
    (job[w] \in Jobs /\ Limited(job[w])) =>
      \E s \in 0 .. nonce[w] :
        /\ nonce[w] - s <= ThreadCount * (PipelineSize - 1)
        /\ nonce[w] <= Mask(job[w]) => s = nonce[w]
        /\ Searched(w, s)

LEMMA OnTrackAdvance ==
  ASSUME NEW w \in Nat, NEW n \in Nat, NEW i \in Nat, OnTrack(w, n)
  PROVE  OnTrack(w, n + i * ThreadCount)
<1>1. PICK k \in Nat : n = w + k * ThreadCount
  BY DEF OnTrack
<1>2. n + i * ThreadCount = w + (k + i) * ThreadCount /\ k + i \in Nat
  BY <1>1, WorkerNumbers
<1> QED BY <1>2 DEF OnTrack

LEMMA HistoryUsesMiner == HistorySpec => MinerSpec
<1>1. HistoryInit => MinerInit
  BY DEF HistoryInit
<1>2. [HistoryNext]_historyVars => [MinerNext]_minerVars
  BY DEF HistoryNext, historyVars
<1> QED BY <1>1, <1>2, PTL DEF HistorySpec, MinerSpec

(* What a step of the program can be to one thread: its cursor stays, is   *)
(* moved on by a batch cut short, starts again because the job is another, *)
(* or is moved on by a pipeline that is hashed.                            *)
Keeps(w) == ~Hashes(w) /\ job'[w] = job[w] /\ nonce'[w] = nonce[w]
CutShort(w) == ~Hashes(w) /\ job'[w] = job[w] /\ MineOut(w)
Exchanges(w) == ~Hashes(w) /\ job'[w] # job[w] /\ nonce'[w] = w
Pipeline(w) == Hashes(w) /\ job'[w] = job[w] /\ MinePipeline(w)

LEMMA LookStep ==
  ASSUME MinerInv, NEW w \in Workers, LookAtLatest(w), NEW v \in Workers, ~Hashes(v)
  PROVE  Keeps(v) \/ Exchanges(v)
<1>0. job \in [Workers -> Jobs \cup {NoJob}] /\ nonce \in [Workers -> 0 .. Space - 1]
  BY DEF MinerInv, LoopInv, LoopTypeOK, MinedTypeOK
<1>1. /\ job' = [job EXCEPT ![w] = SeenJob(w)]
      /\ nonce' = [nonce EXCEPT ![w] = SeenCursor(w)]
  BY DEF LookAtLatest
<1>2. CASE v # w
  BY <1>0, <1>1, <1>2 DEF Keeps
<1>3. CASE v = w /\ IdOf(latest) # IdOf(job[w])
  BY <1>0, <1>1, <1>3 DEF SeenJob, SeenCursor, Exchanges
<1>4. CASE v = w /\ IdOf(latest) = IdOf(job[w])
  BY <1>0, <1>1, <1>4 DEF SeenJob, SeenCursor, Keeps
<1> QED BY <1>2, <1>3, <1>4

LEMMA StepOfThread ==
  ASSUME MinerInv, MinerNext, NEW v \in Workers
  PROVE  Keeps(v) \/ CutShort(v) \/ Exchanges(v) \/ Pipeline(v)
<1>0. /\ wpc \in [Workers -> LoopPositions] /\ rem \in [Workers -> Nat]
      /\ job \in [Workers -> Jobs \cup {NoJob}] /\ nonce \in [Workers -> 0 .. Space - 1]
  BY SizesNat DEF MinerInv, LoopInv, LoopTypeOK, MinedTypeOK
<1>1. CASE (\E j \in Jobs : Publish(j)) \/ Close \/ TakeShare
  BY <1>0, <1>1 DEF Publish, Close, TakeShare, threadVars, Hashes, Keeps
<1>2. ASSUME NEW w \in Workers, Thread(w) \/ Wake(w)
      PROVE  Keeps(v) \/ CutShort(v) \/ Exchanges(v) \/ Pipeline(v)
  <2>1. CASE Unpark(w) \/ Exit(w) \/ InCreateVm(w) \/ Wake(w) \/ BatchDone(w)
    BY <1>0, <2>1 DEF Unpark, Exit, InCreateVm, Wake, BatchDone, threadVars, Hashes, Keeps
  <2>2. CASE Park(w) \/ StartVm(w) \/ StartBatch(w)
    <3>1. LookAtLatest(w) /\ wpc[w] = "top"
      BY <2>2 DEF Park, StartVm, StartBatch, LookAtLatest
    <3>2. ~Hashes(v)
      BY <1>0, <2>2, <3>1 DEF Park, StartVm, StartBatch, Hashes
    <3> QED BY <3>1, <3>2, LookStep
  <2>3. CASE VmReady(w)
    <3>1. wpc[w] = "top"
      BY <2>3 DEF VmReady, VmOk, MinerInv, LoopInv, JobInv
    <3> QED BY <1>0, <2>3, <3>1 DEF VmReady, Hashes, Keeps
  <2>4. CASE MineOut(w)
    <3>1. CASE v = w
      BY <1>0, <2>4, <3>1 DEF MineOut, Hashes, CutShort
    <3>2. CASE v # w
      <4>1. PICK n : nonce' = [nonce EXCEPT ![w] = n]
        BY <2>4 DEF MineOut
      <4> QED BY <1>0, <2>4, <3>2, <4>1 DEF MineOut, Hashes, Keeps
    <3> QED BY <3>1, <3>2
  <2>5. CASE MinePipeline(w)
    <3>1. CASE v = w
      <4>1. Count(w) \in Nat \ {0}
        BY <1>0, <2>5, SizesNat DEF MinePipeline, Count
      <4>2. /\ wpc[w] = "mine" /\ wpc' = wpc /\ job' = job
            /\ rem' = [rem EXCEPT ![w] = rem[w] - Count(w)]
        BY <2>5 DEF MinePipeline
      <4>3. rem[w] \in Nat /\ rem'[w] = rem[w] - Count(w)
        BY <1>0, <4>2
      <4>4. rem'[w] < rem[w]
        BY <4>1, <4>3
      <4> QED BY <2>5, <3>1, <4>2, <4>4 DEF Hashes, Pipeline
    <3>2. CASE v # w
      BY <1>0, <2>5, <3>2 DEF MinePipeline, Hashes, Keeps
    <3> QED BY <3>1, <3>2
  <2> QED BY <1>2, <2>1, <2>2, <2>3, <2>4, <2>5 DEF Thread, Mine
<1> QED BY <1>1, <1>2 DEF MinerNext

(* What the observer writes down of a thread that hashes nothing.          *)
LEMMA ObservesNothing ==
  ASSUME Observe, NEW v \in Workers, ~Hashes(v), tried[v] \in [Jobs -> SUBSET (0 .. Space - 1)]
  PROVE  /\ tried'[v] = tried[v] /\ lapped'[v] = lapped[v]
         /\ stay'[v] = IF job'[v] = job[v] THEN stay[v] ELSE {}
<1>1. Hashed(v) = {} /\ ~Laps(v)
  BY DEF Hashed, HashedCount, Laps
<1> QED BY <1>1 DEF Observe

(* And of one that hashes a pipeline: the merged numbers from the cursor   *)
(* on, none beyond the mask.                                               *)
LEMMA ObservesPipeline ==
  ASSUME HistoryInv, Observe, NEW v \in Workers, Pipeline(v)
  PROVE  /\ job[v] \in Jobs /\ Count(v) \in Nat \ {0}
         /\ rem[v] - rem'[v] = Count(v)
         /\ Filled(v) = 0 .. Count(v) - 1
         /\ Hashed(v) = {BlobNonce(v, i) : i \in Filled(v)}
         /\ Hashed(v) \subseteq 0 .. Space - 1
         /\ \A i \in Filled(v) : Advance(nonce[v], i) \in 0 .. Mask(job[v])
         /\ tried'[v] = [tried[v] EXCEPT ![job[v]] = tried[v][job[v]] \cup Hashed(v)]
         /\ stay'[v] = stay[v] \cup Hashed(v)
         /\ lapped'[v] = IF nonce[v] + Count(v) * ThreadCount >= Space
                         THEN lapped[v] \cup {job[v]} ELSE lapped[v]
         /\ nonce'[v] = Advance(nonce[v], Count(v))
<1>0. /\ rem \in [Workers -> Nat] /\ nonce \in [Workers -> 0 .. Space - 1]
      /\ tried[v] \in [Jobs -> SUBSET (0 .. Space - 1)]
  BY SizesNat DEF HistoryInv, MinerInv, MinedTypeOK, HistoryTypeOK
<1>1. /\ job[v] \in Jobs /\ Count(v) \in Nat /\ Count(v) <= rem[v]
      /\ Filled(v) = 0 .. Count(v) - 1
      /\ \A i \in Filled(v) : /\ Advance(nonce[v], i) \in 0 .. Mask(job[v])
                              /\ BlobNonce(v, i) \in 0 .. Space - 1
  BY PipelineNonces DEF HistoryInv, Pipeline
<1>2. /\ rem' = [rem EXCEPT ![v] = rem[v] - Count(v)]
      /\ nonce' = [nonce EXCEPT ![v] = Advance(nonce[v], Count(v))]
  BY DEF Pipeline, MinePipeline
<1>3. rem'[v] = rem[v] - Count(v) /\ rem[v] \in Nat /\ rem'[v] < rem[v]
  BY <1>0, <1>2 DEF Pipeline, Hashes
<1>4. rem[v] - rem'[v] = Count(v) /\ Count(v) \in Nat \ {0}
  BY <1>1, <1>3
<1>5. HashedCount(v) = Count(v)
  BY <1>4 DEF HashedCount, Pipeline
<1>6. Hashed(v) = {BlobNonce(v, i) : i \in Filled(v)}
  BY <1>1, <1>5 DEF Hashed
<1>7. Laps(v) <=> nonce[v] + Count(v) * ThreadCount >= Space
  BY <1>5 DEF Laps, Pipeline
<1>8. /\ stay'[v] = stay[v] \cup Hashed(v)
      /\ lapped'[v] = IF Laps(v) THEN lapped[v] \cup {job[v]} ELSE lapped[v]
      /\ tried'[v] = [j \in Jobs |-> IF j = job[v] THEN tried[v][j] \cup Hashed(v) ELSE tried[v][j]]
  BY DEF Observe, Pipeline
<1>9. tried'[v] = [tried[v] EXCEPT ![job[v]] = tried[v][job[v]] \cup Hashed(v)]
  BY <1>0, <1>1, <1>8
<1>10. nonce'[v] = Advance(nonce[v], Count(v))
  BY <1>0, <1>2
<1>11. Hashed(v) \subseteq 0 .. Space - 1
  BY <1>1, <1>6
<1> QED BY <1>1, <1>4, <1>6, <1>7, <1>8, <1>9, <1>10, <1>11

(* As long as the cursor has not passed 2^32, a pipeline is the next       *)
(* numbers of the track, all before the new cursor.                        *)
LEMMA PipelineAhead ==
  ASSUME HistoryInv, Observe, NEW v \in Workers, Pipeline(v), job[v] \notin lapped'[v]
  PROVE  /\ job[v] \notin lapped[v]
         /\ OnTrack(v, nonce[v])
         /\ nonce'[v] = nonce[v] + Count(v) * ThreadCount
         /\ nonce'[v] \in Nat /\ nonce[v] \in Nat
         /\ \A i \in Filled(v) : /\ Advance(nonce[v], i) = nonce[v] + i * ThreadCount
                                 /\ OnTrack(v, Advance(nonce[v], i))
                                 /\ nonce[v] <= Advance(nonce[v], i)
                                 /\ Advance(nonce[v], i) < nonce'[v]
<1>1. nonce[v] \in Nat /\ v \in Nat /\ ThreadCount \in Nat \ {0}
  BY WorkerNumbers, SizesNat DEF HistoryInv, MinerInv, MinedTypeOK
<1>2. /\ Count(v) \in Nat \ {0} /\ Filled(v) = 0 .. Count(v) - 1
      /\ nonce'[v] = Advance(nonce[v], Count(v))
      /\ lapped'[v] = IF nonce[v] + Count(v) * ThreadCount >= Space
                      THEN lapped[v] \cup {job[v]} ELSE lapped[v]
  BY ObservesPipeline
<1>3. Count(v) * ThreadCount \in Nat
  BY <1>1, <1>2
<1>4. job[v] \notin lapped[v] /\ nonce[v] + Count(v) * ThreadCount < Space
  BY <1>1, <1>2, <1>3, SizesNat
<1>5. OnTrack(v, nonce[v])
  BY <1>4 DEF HistoryInv, CursorInv
<1>6. nonce'[v] = nonce[v] + Count(v) * ThreadCount
  BY <1>1, <1>2, <1>3, <1>4, AdvanceSmall
<1>7. ASSUME NEW i \in Filled(v)
      PROVE  /\ Advance(nonce[v], i) = nonce[v] + i * ThreadCount
             /\ OnTrack(v, Advance(nonce[v], i))
             /\ nonce[v] <= Advance(nonce[v], i)
             /\ Advance(nonce[v], i) < nonce'[v]
  <2>1. i \in Nat /\ i < Count(v)
    BY <1>1, <1>2, <1>3
  <2>2. i * ThreadCount \in Nat /\ i * ThreadCount < Count(v) * ThreadCount
    BY <1>1, <1>2, <1>3, <2>1
  <2>3. nonce[v] + i * ThreadCount < Space
    BY <1>1, <1>2, <1>3, <1>4, <2>2, SizesNat
  <2>4. Advance(nonce[v], i) = nonce[v] + i * ThreadCount
    BY <1>1, <1>2, <1>3, <2>1, <2>3, AdvanceSmall
  <2> QED BY <1>1, <1>2, <1>3, <1>5, <1>6, <2>1, <2>2, <2>4, OnTrackAdvance
<1> QED BY <1>1, <1>2, <1>3, <1>4, <1>5, <1>6, <1>7

(* A set of natural numbers that has an element has a smallest one.        *)
LEMMA SmallestOf ==
  ASSUME NEW S \in SUBSET Nat, S # {}
  PROVE  \E x \in S : \A y \in S : x <= y
<1>1. PICK x \in S : \A y \in S : <<y, x>> \notin OpToRel(<, Nat)
  BY NatLessThanWellFounded, WFMin
<1>2. \A y \in S : ~(y < x)
  BY <1>1 DEF OpToRel
<1> QED BY <1>2

(* The room above the mask is larger than a step of the cursor.            *)
LEMMA MaskOfLimited ==
  ASSUME NEW j \in Jobs, Limited(j)
  PROVE  Mask(j) = LoSize - 1 /\ LoSize - 1 + ThreadCount < Space
<1>1. Mask(j) = LoSize - 1 /\ LoSize < LoSize * HiSize
  BY MinerAssumption DEF Limited, Mask, Space
<1>2. LoSize * 2 <= LoSize * HiSize
  <2>1. HiSize # 1
    BY <1>1, MinerAssumption
  <2>2. HiSize >= 2
    BY <2>1, MinerAssumption
  <2> QED BY <2>2, MinerAssumption
<1> QED BY <1>1, <1>2, MinerAssumption DEF Space

(* So the cursor cannot jump over it: it does not wrap around.             *)
LEMMA NoWrap ==
  ASSUME NEW j \in Jobs, Limited(j), NEW n \in 0 .. Space - 1, NEW c \in Nat,
         \A i \in 0 .. c - 1 : Advance(n, i) <= Mask(j)
  PROVE  n + c * ThreadCount < Space
<1> DEFINE Over == {i \in Nat : n + i * ThreadCount >= Space}
<1>0. /\ ThreadCount \in Nat \ {0} /\ Space \in Nat \ {0} /\ LoSize \in Nat \ {0}
      /\ n \in Nat /\ n < Space
      /\ \A i \in Nat : i * ThreadCount \in Nat
  BY SizesNat, WorkerNumbers
<1> SUFFICES ASSUME c \in Over PROVE FALSE
  BY <1>0
<1>1. PICK i \in Over : \A k \in Over : i <= k
  BY SmallestOf
<1>2. i \in Nat /\ i <= c /\ i # 0
  BY <1>0, <1>1
<1>3. i - 1 \in 0 .. c - 1 /\ i - 1 \in Nat
  BY <1>2
<1>4. n + (i - 1) * ThreadCount < Space
  BY <1>0, <1>1, <1>3
<1>5. n + (i - 1) * ThreadCount <= LoSize - 1
  BY <1>0, <1>3, <1>4, AdvanceSmall, MaskOfLimited
<1>6. i * ThreadCount = (i - 1) * ThreadCount + ThreadCount
  BY <1>0, <1>2
<1>7. n + i * ThreadCount >= Space
  BY <1>1
<1> HIDE DEF Over
<1> QED BY <1>0, <1>2, <1>3, <1>5, <1>6, <1>7, MaskOfLimited

(* A batch is cut short only where the nonces end before 2^32, less than a *)
(* pipeline further on, and with the cursor beyond the mask.               *)
LEMMA CutShortMoves ==
  ASSUME MinerInv, NEW v \in Workers, CutShort(v)
  PROVE  /\ job[v] \in Jobs /\ Limited(job[v])
         /\ \E stop \in 0 .. PipelineSize - 1 :
              /\ nonce'[v] = nonce[v] + stop * ThreadCount
              /\ stop # 0 => nonce[v] <= Mask(job[v])
         /\ nonce'[v] > Mask(job[v])
<1>0. /\ nonce \in [Workers -> 0 .. Space - 1] /\ nonce[v] \in 0 .. Space - 1
      /\ nonce[v] \in Nat /\ rem[v] \in Nat
      /\ ThreadCount \in Nat \ {0} /\ PipelineSize \in Nat \ {0} /\ Space \in Nat \ {0}
  BY SizesNat, WorkerNumbers DEF MinerInv, MinedTypeOK
<1>1. job[v] \in Jobs /\ Mask(job[v]) \in Nat /\ Mask(job[v]) <= Space - 1
  BY MaskRange DEF CutShort, MineOut, MinerInv, LoopInv, JobInv
<1>2. PICK stop \in Filled(v) :
        /\ Advance(nonce[v], stop) > Mask(job[v])
        /\ \A i \in 0 .. stop - 1 : Advance(nonce[v], i) <= Mask(job[v])
        /\ nonce' = [nonce EXCEPT ![v] = Advance(nonce[v], stop)]
  BY DEF CutShort, MineOut
<1>3. stop \in 0 .. PipelineSize - 1 /\ stop \in Nat
  BY <1>0 DEF Filled, Count
<1>4. Limited(job[v])
  <2>1. Advance(nonce[v], stop) \in 0 .. Space - 1
    BY <1>0, <1>3, AdvanceRange
  <2> QED BY <1>0, <1>1, <1>2, <2>1 DEF Limited
<1>5. nonce[v] + stop * ThreadCount < Space
  BY <1>0, <1>1, <1>2, <1>3, <1>4, NoWrap
<1>6. nonce'[v] = Advance(nonce[v], stop)
  BY <1>0, <1>2
<1>7. nonce'[v] = nonce[v] + stop * ThreadCount
  BY <1>0, <1>3, <1>5, <1>6, AdvanceSmall
<1>8. ASSUME stop # 0 PROVE nonce[v] <= Mask(job[v])
  <2>1. 0 \in 0 .. stop - 1 /\ nonce[v] + 0 * ThreadCount < Space
    BY <1>0, <1>3, <1>8
  <2> QED BY <1>0, <1>2, <2>1, AdvanceSmall
<1> QED BY <1>1, <1>2, <1>3, <1>4, <1>6, <1>7, <1>8

LEMMA WorkersOnTrack == \A w \in Workers : w \in Nat /\ OnTrack(w, w)
<1> SUFFICES ASSUME NEW w \in Workers PROVE w \in Nat /\ OnTrack(w, w)
  OBVIOUS
<1>1. w \in Nat /\ w = w + 0 * ThreadCount
  BY WorkerNumbers
<1> QED BY <1>1 DEF OnTrack

LEMMA HistoryInitInv == HistoryInit => HistoryInv
<1> SUFFICES ASSUME HistoryInit PROVE HistoryInv
  OBVIOUS
<1>1. MinerInv
  BY LoopInitInv, MinedInitType DEF HistoryInit, MinerInv
<1>2. HistoryTypeOK /\ TriedInv /\ StayInv /\ NeverLapped
  BY DEF HistoryInit, HistoryTypeOK, TriedInv, StayInv, NeverLapped
<1>3. CursorInv
  BY WorkersOnTrack DEF HistoryInit, MinerInit, CursorInv
<1> QED BY <1>1, <1>2, <1>3 DEF HistoryInv

(* A thread that hashes a pipeline.                                        *)
LEMMA PipelineHistory ==
  ASSUME HistoryInv, Observe, NEW v \in Workers, Pipeline(v)
  PROVE  /\ tried'[v] \in [Jobs -> SUBSET (0 .. Space - 1)]
         /\ stay'[v] \in SUBSET (0 .. Space - 1) /\ lapped'[v] \in SUBSET Jobs
         /\ job[v] \notin lapped'[v] => OnTrack(v, nonce'[v])
         /\ \A j \in Jobs : \A n \in tried'[v][j] :
              \E m \in 0 .. Mask(j) : n = Merge(j, m) /\ (j \notin lapped'[v] => OnTrack(v, m))
         /\ job[v] \notin lapped'[v] =>
              \A n \in stay'[v] :
                \E m \in 0 .. Mask(job[v]) : n = Merge(job[v], m) /\ m < nonce'[v]
         /\ \A j \in lapped'[v] : ~Limited(j)
<1>1. /\ job[v] \in Jobs /\ Count(v) \in Nat \ {0} /\ Filled(v) = 0 .. Count(v) - 1
      /\ Hashed(v) = {Merge(job[v], Advance(nonce[v], i)) : i \in Filled(v)}
      /\ Hashed(v) \subseteq 0 .. Space - 1
      /\ \A i \in Filled(v) : Advance(nonce[v], i) \in 0 .. Mask(job[v])
      /\ tried'[v] = [tried[v] EXCEPT ![job[v]] = tried[v][job[v]] \cup Hashed(v)]
      /\ stay'[v] = stay[v] \cup Hashed(v)
      /\ lapped'[v] = IF nonce[v] + Count(v) * ThreadCount >= Space
                      THEN lapped[v] \cup {job[v]} ELSE lapped[v]
  BY ObservesPipeline DEF BlobNonce
<1>2. /\ tried[v] \in [Jobs -> SUBSET (0 .. Space - 1)]
      /\ stay[v] \in SUBSET (0 .. Space - 1) /\ lapped[v] \in SUBSET Jobs
  BY DEF HistoryInv, HistoryTypeOK
<1>3. /\ tried'[v] \in [Jobs -> SUBSET (0 .. Space - 1)]
      /\ stay'[v] \in SUBSET (0 .. Space - 1) /\ lapped'[v] \in SUBSET Jobs
  BY <1>1, <1>2
<1>4. ASSUME job[v] \notin lapped'[v] PROVE OnTrack(v, nonce'[v])
  BY <1>1, <1>4, PipelineAhead, OnTrackAdvance, WorkersOnTrack
<1>5. ASSUME NEW j \in Jobs, NEW n \in tried'[v][j]
      PROVE  \E m \in 0 .. Mask(j) : n = Merge(j, m) /\ (j \notin lapped'[v] => OnTrack(v, m))
  <2>1. CASE n \in tried[v][j]
    <3>1. PICK m \in 0 .. Mask(j) : n = Merge(j, m) /\ (j \notin lapped[v] => OnTrack(v, m))
      BY <2>1 DEF HistoryInv, TriedInv
    <3>2. j \notin lapped'[v] => j \notin lapped[v]
      BY <1>1
    <3> QED BY <3>1, <3>2
  <2>2. CASE n \notin tried[v][j]
    <3>1. j = job[v] /\ n \in Hashed(v)
      BY <1>1, <1>2, <1>5, <2>2
    <3>2. PICK i \in Filled(v) : n = Merge(job[v], Advance(nonce[v], i))
      BY <1>1, <3>1
    <3>3. job[v] \notin lapped'[v] => OnTrack(v, Advance(nonce[v], i))
      BY PipelineAhead
    <3> QED BY <1>1, <3>1, <3>2, <3>3
  <2> QED BY <2>1, <2>2
<1>6. ASSUME job[v] \notin lapped'[v], NEW n \in stay'[v]
      PROVE  \E m \in 0 .. Mask(job[v]) : n = Merge(job[v], m) /\ m < nonce'[v]
  <2>1. /\ job[v] \notin lapped[v] /\ nonce'[v] \in Nat /\ nonce[v] \in Nat
        /\ nonce[v] < nonce'[v]
        /\ \A i \in Filled(v) : Advance(nonce[v], i) < nonce'[v]
    <3>1. 0 \in Filled(v)
      BY <1>1
    <3>2. Advance(nonce[v], 0) \in Nat
      BY <1>6, PipelineAhead, AdvanceNat
    <3> QED BY <1>6, <3>1, <3>2, PipelineAhead
  <2>2. CASE n \in stay[v]
    <3>1. PICK m \in 0 .. Mask(job[v]) : n = Merge(job[v], m) /\ m < nonce[v]
      BY <1>1, <2>1, <2>2 DEF HistoryInv, StayInv
    <3>2. m < nonce'[v]
      BY <2>1, <3>1
    <3> QED BY <3>1, <3>2
  <2>3. CASE n \in Hashed(v)
    <3>1. PICK i \in Filled(v) : n = Merge(job[v], Advance(nonce[v], i))
      BY <1>1, <2>3
    <3> QED BY <1>1, <2>1, <3>1
  <2> QED BY <1>1, <1>6, <2>2, <2>3
<1>7. ASSUME NEW j \in lapped'[v], Limited(j) PROVE FALSE
  <2>1. j = job[v] /\ nonce[v] + Count(v) * ThreadCount >= Space
    BY <1>1, <1>7 DEF HistoryInv, NeverLapped
  <2>2. \A i \in 0 .. Count(v) - 1 : Advance(nonce[v], i) <= Mask(job[v])
    BY <1>1, MaskRange
  <2>3. nonce[v] \in 0 .. Space - 1 /\ Count(v) \in Nat /\ ThreadCount \in Nat
    BY <1>1, WorkerNumbers DEF HistoryInv, MinerInv, MinedTypeOK
  <2>4. nonce[v] + Count(v) * ThreadCount < Space
    BY <1>1, <1>7, <2>1, <2>2, <2>3, NoWrap
  <2>5. Count(v) * ThreadCount \in Nat
    BY <2>3
  <2> QED BY <2>1, <2>3, <2>4, <2>5, SizesNat
<1> QED BY <1>3, <1>4, <1>5, <1>6, <1>7

LEMMA HistoryStepInv == HistoryInv /\ [HistoryNext]_historyVars => HistoryInv'
<1> SUFFICES ASSUME HistoryInv, [HistoryNext]_historyVars PROVE HistoryInv'
  OBVIOUS
<1>1. MinerInv'
  BY MinerStepInv DEF HistoryInv, HistoryNext, historyVars
<1>2. CASE UNCHANGED historyVars
  <2>1. UNCHANGED <<job, nonce, tried, stay, lapped>>
    BY <1>2 DEF historyVars, minerVars, threadVars
  <2> QED BY <1>1, <2>1
        DEF HistoryInv, HistoryTypeOK, CursorInv, TriedInv, StayInv, NeverLapped
<1>3. CASE MinerNext /\ Observe
  <2>1. ASSUME NEW v \in Workers
        PROVE  /\ tried'[v] \in [Jobs -> SUBSET (0 .. Space - 1)]
               /\ stay'[v] \in SUBSET (0 .. Space - 1) /\ lapped'[v] \in SUBSET Jobs
               /\ job'[v] \notin lapped'[v] => OnTrack(v, nonce'[v])
               /\ \A j \in Jobs : \A n \in tried'[v][j] :
                    \E m \in 0 .. Mask(j) :
                      n = Merge(j, m) /\ (j \notin lapped'[v] => OnTrack(v, m))
               /\ (job'[v] \in Jobs /\ job'[v] \notin lapped'[v]) =>
                    \A n \in stay'[v] :
                      \E m \in 0 .. Mask(job'[v]) : n = Merge(job'[v], m) /\ m < nonce'[v]
               /\ \A j \in lapped'[v] : ~Limited(j)
    <3>0. /\ tried[v] \in [Jobs -> SUBSET (0 .. Space - 1)]
          /\ stay[v] \in SUBSET (0 .. Space - 1) /\ lapped[v] \in SUBSET Jobs
          /\ nonce[v] \in Nat /\ v \in Nat /\ ThreadCount \in Nat \ {0}
      BY WorkerNumbers, SizesNat DEF HistoryInv, HistoryTypeOK, MinerInv, MinedTypeOK
    <3>1. /\ job[v] \notin lapped[v] => OnTrack(v, nonce[v])
          /\ \A j \in Jobs : \A n \in tried[v][j] :
               \E m \in 0 .. Mask(j) : n = Merge(j, m) /\ (j \notin lapped[v] => OnTrack(v, m))
          /\ (job[v] \in Jobs /\ job[v] \notin lapped[v]) =>
               \A n \in stay[v] :
                 \E m \in 0 .. Mask(job[v]) : n = Merge(job[v], m) /\ m < nonce[v]
          /\ \A j \in lapped[v] : ~Limited(j)
      BY DEF HistoryInv, CursorInv, TriedInv, StayInv, NeverLapped
    <3>2. CASE Keeps(v)
      <4>1. /\ tried'[v] = tried[v] /\ lapped'[v] = lapped[v] /\ stay'[v] = stay[v]
            /\ job'[v] = job[v] /\ nonce'[v] = nonce[v]
        BY <1>3, <3>0, <3>2, ObservesNothing DEF Keeps
      <4> QED BY <3>0, <3>1, <4>1
    <3>3. CASE CutShort(v)
      <4>1. /\ tried'[v] = tried[v] /\ lapped'[v] = lapped[v] /\ stay'[v] = stay[v]
            /\ job'[v] = job[v]
        BY <1>3, <3>0, <3>3, ObservesNothing DEF CutShort
      <4>2. PICK stop \in 0 .. PipelineSize - 1 : nonce'[v] = nonce[v] + stop * ThreadCount
        BY <3>3, CutShortMoves DEF HistoryInv
      <4>3. stop \in Nat /\ stop * ThreadCount \in Nat
        BY <3>0
      <4>4. job'[v] \notin lapped'[v] => OnTrack(v, nonce'[v])
        BY <3>0, <3>1, <4>1, <4>2, <4>3, OnTrackAdvance
      <4>5. \A j \in Jobs : \A m \in 0 .. Mask(j) : m < nonce[v] => m < nonce'[v]
        BY <3>0, <4>2, <4>3
      <4> QED BY <3>0, <3>1, <4>1, <4>4, <4>5
    <3>4. CASE Exchanges(v)
      <4>1. /\ tried'[v] = tried[v] /\ lapped'[v] = lapped[v] /\ stay'[v] = {}
            /\ nonce'[v] = v
        BY <1>3, <3>0, <3>4, ObservesNothing DEF Exchanges
      <4> QED BY <3>0, <3>1, <4>1, WorkersOnTrack
    <3>5. CASE Pipeline(v)
      <4>1. job'[v] = job[v]
        BY <3>5 DEF Pipeline
      <4> QED BY <1>3, <3>5, <4>1, PipelineHistory
    <3> QED BY <1>3, <3>2, <3>3, <3>4, <3>5, StepOfThread DEF HistoryInv
  <2>2. HistoryTypeOK'
    <3>1. /\ tried' = [v \in Workers |-> tried'[v]] /\ stay' = [v \in Workers |-> stay'[v]]
          /\ lapped' = [v \in Workers |-> lapped'[v]]
      BY <1>3 DEF Observe
    <3> QED BY <2>1, <3>1 DEF HistoryTypeOK
  <2>3. CursorInv' /\ TriedInv' /\ StayInv' /\ NeverLapped'
    BY <2>1 DEF CursorInv, TriedInv, StayInv, NeverLapped
  <2> QED BY <1>1, <2>2, <2>3 DEF HistoryInv
<1> QED BY <1>2, <1>3 DEF HistoryNext

THEOREM HistoryInvariant == HistorySpec => []HistoryInv
  BY HistoryInitInv, HistoryStepInv, PTL DEF HistorySpec

(* No two threads ever hash the same nonce of the same job, for any number *)
(* of threads -- also when it does not divide 2^32 or 2^24 -- and however  *)
(* often they leave jobs and come back to them.                            *)
THEOREM NoncesDisjoint == HistorySpec => []DisjointNonces
<1>1. HistoryInv => DisjointNonces
  <2> SUFFICES ASSUME HistoryInv, NEW v \in Workers, NEW w \in Workers, NEW j \in Jobs,
                      v # w, j \notin lapped[v] \cup lapped[w],
                      NEW n \in tried[v][j], n \in tried[w][j]
               PROVE  FALSE
    BY DEF DisjointNonces
  <2>1. PICK m \in 0 .. Mask(j) : n = Merge(j, m) /\ OnTrack(v, m)
    BY DEF HistoryInv, TriedInv
  <2>2. PICK l \in 0 .. Mask(j) : n = Merge(j, l) /\ OnTrack(w, l)
    BY DEF HistoryInv, TriedInv
  <2>3. m = l
    BY <2>1, <2>2, MergeInjective
  <2>4. PICK i \in Nat, k \in Nat : v + i * ThreadCount = w + k * ThreadCount
    BY <2>1, <2>2, <2>3 DEF OnTrack
  <2> QED BY <2>4, WorkerNumbers, Residue
<1> QED BY <1>1, HistoryInvariant, PTL

(* If every proxy reserves a byte that is not zero, every nonce hashed     *)
(* keeps the reserved byte.                                                *)
ReservedNonZero == \A j \in Jobs : j.proxied => j.nonce # 0

THEOREM ReservedByteKept ==
  ASSUME ReservedNonZero
  PROVE  HistorySpec => []ReservedKept
<1>1. HistoryInv => ReservedKept
  <2> SUFFICES ASSUME HistoryInv, NEW w \in Workers, NEW j \in Jobs, NEW n \in tried[w][j],
                      j.proxied
               PROVE  n \div LoSize = j.nonce \div LoSize
    BY DEF ReservedKept
  <2>1. Nicehash(j) /\ j.nonce \in Nat
    BY MinerAssumption DEF ReservedNonZero, Nicehash
  <2>2. PICK m \in 0 .. Mask(j) : n = Merge(j, m)
    BY DEF HistoryInv, TriedInv
  <2>3. m % LoSize \in 0 .. LoSize - 1
    BY <2>2, SizesNat, MaskRange
  <2>4. j.nonce \div LoSize \in Nat
    BY <2>1, SizesNat
  <2> QED BY <2>1, <2>2, <2>3, <2>4, SizesNat, DivRem DEF Merge
<1> QED BY <1>1, HistoryInvariant, PTL

-----------------------------------------------------------------------------
(* The nonces of a pipeline are as many as its places, and none of them    *)
(* has been hashed since the job was taken up: those lie behind the cursor.*)
LEMMA PipelineIsNew ==
  ASSUME HistoryInv, Observe, NEW w \in Workers, Pipeline(w), job[w] \notin lapped'[w]
  PROVE  Hashed(w) \cap stay[w] = {} /\ Cardinality(Hashed(w)) = Count(w)
<1> DEFINE f == [i \in Filled(w) |-> BlobNonce(w, i)]
<1>1. /\ Filled(w) = 0 .. Count(w) - 1 /\ Count(w) \in Nat \ {0}
      /\ Hashed(w) = {BlobNonce(w, i) : i \in Filled(w)}
      /\ \A i \in Filled(w) : Advance(nonce[w], i) \in 0 .. Mask(job[w])
      /\ job[w] \in Jobs
  BY ObservesPipeline
<1>2. /\ nonce[w] \in Nat /\ ThreadCount \in Nat \ {0} /\ job[w] \notin lapped[w]
      /\ \A i \in Filled(w) : /\ Advance(nonce[w], i) = nonce[w] + i * ThreadCount
                              /\ nonce[w] <= Advance(nonce[w], i)
  BY PipelineAhead, WorkerNumbers
<1>3. ASSUME NEW i \in Filled(w), NEW k \in Filled(w), BlobNonce(w, i) = BlobNonce(w, k)
      PROVE  i = k
  <2>1. Advance(nonce[w], i) = Advance(nonce[w], k)
    BY <1>1, <1>3, MergeInjective DEF BlobNonce
  <2>2. i \in Nat /\ k \in Nat
    BY <1>1
  <2>3. nonce[w] + i * ThreadCount = nonce[w] + k * ThreadCount
    BY <1>2, <2>1
  <2>4. nonce[w] \in Nat /\ ThreadCount \in Nat \ {0}
    BY <1>2
  <2>5. i * ThreadCount = k * ThreadCount
    BY <2>2, <2>3, <2>4
  <2> QED BY <2>2, <2>4, <2>5
<1>4. Cardinality(Hashed(w)) = Count(w)
  <2>1. IsFiniteSet(Filled(w)) /\ Cardinality(Filled(w)) = Count(w)
    BY <1>1, FS_Interval
  <2>2. f \in Bijection(Filled(w), Hashed(w))
    BY <1>1, <1>3 DEF Bijection, Injection, Surjection, IsInjective
  <2>3. ExistsBijection(Filled(w), Hashed(w))
    BY <2>2 DEF ExistsBijection
  <2> HIDE DEF f
  <2> QED BY <2>1, <2>3, FS_Bijection
<1>5. ASSUME NEW i \in Filled(w), BlobNonce(w, i) \in stay[w]
      PROVE  FALSE
  <2>1. PICK m \in 0 .. Mask(job[w]) : BlobNonce(w, i) = Merge(job[w], m) /\ m < nonce[w]
    BY <1>1, <1>2, <1>5 DEF HistoryInv, StayInv
  <2>2. m = Advance(nonce[w], i)
    BY <1>1, <2>1, MergeInjective DEF BlobNonce
  <2> QED BY <1>1, <1>2, <2>1, <2>2
<1> QED BY <1>1, <1>4, <1>5

(* A thread hashes a nonce of a job again only if it hashed it before it   *)
(* exchanged the job for another one and came back to it (or if its cursor *)
(* has passed 2^32 for the job): not across pipelines, batches, waits for  *)
(* a dataset or repeated announcements.                                    *)
THEOREM NoNonceTwice == HistorySpec => NoRescan
<1> DEFINE Fresh ==
      \A w \in Workers :
        (Hashes(w) /\ job[w] \notin lapped'[w])
          => /\ Hashed(w) \cap tried[w][job[w]] \subseteq Earlier(w)
             /\ Cardinality(Hashed(w)) = rem[w] - rem'[w]
<1>1. HistoryInv /\ [HistoryNext]_historyVars => [Fresh]_historyVars
  <2> SUFFICES ASSUME HistoryInv, MinerNext, Observe, NEW w \in Workers,
                      Hashes(w), job[w] \notin lapped'[w]
               PROVE  /\ Hashed(w) \cap tried[w][job[w]] \subseteq Earlier(w)
                      /\ Cardinality(Hashed(w)) = rem[w] - rem'[w]
    BY DEF HistoryNext
  <2>1. Pipeline(w)
    BY StepOfThread DEF HistoryInv, Keeps, CutShort, Exchanges
  <2>2. Hashed(w) \cap stay[w] = {} /\ Cardinality(Hashed(w)) = rem[w] - rem'[w]
    BY <2>1, PipelineIsNew, ObservesPipeline
  <2> QED BY <2>2 DEF Earlier
<1>2. HistorySpec => [][Fresh]_historyVars
  <2> HIDE DEF Fresh
  <2> QED BY <1>1, HistoryInvariant, PTL DEF HistorySpec
<1> QED BY <1>2 DEF NoRescan

-----------------------------------------------------------------------------
LEMMA TailInit == HistoryInit => TailInv
  BY MinerAssumption DEF HistoryInit, MinerInit, TailInv

(* A batch cut short: what has been filled is the tail.                    *)
LEMMA CutShortTail ==
  ASSUME HistoryInv, TailInv, NEW v \in Workers, CutShort(v), tried'[v] = tried[v]
  PROVE  \E s \in 0 .. nonce'[v] :
           /\ nonce'[v] - s <= ThreadCount * (PipelineSize - 1)
           /\ nonce'[v] <= Mask(job[v]) => s = nonce'[v]
           /\ Searched(v, s)
<1>1. /\ nonce[v] \in Nat /\ ThreadCount \in Nat \ {0} /\ PipelineSize \in Nat \ {0}
  BY SizesNat, WorkerNumbers DEF HistoryInv, MinerInv, MinedTypeOK
<1>2. /\ job[v] \in Jobs /\ Limited(job[v]) /\ nonce'[v] > Mask(job[v])
      /\ Mask(job[v]) \in Nat
  BY CutShortMoves, MaskRange DEF HistoryInv
<1>3. PICK stop \in 0 .. PipelineSize - 1 :
        /\ nonce'[v] = nonce[v] + stop * ThreadCount
        /\ stop # 0 => nonce[v] <= Mask(job[v])
  BY CutShortMoves DEF HistoryInv
<1>4. PICK s \in 0 .. nonce[v] :
        /\ nonce[v] - s <= ThreadCount * (PipelineSize - 1)
        /\ nonce[v] <= Mask(job[v]) => s = nonce[v]
        /\ Searched(v, s)
  BY <1>2 DEF TailInv
<1>5. stop \in Nat /\ stop * ThreadCount \in Nat /\ ThreadCount * (PipelineSize - 1) \in Nat
  BY <1>1
<1>6. nonce'[v] - s <= ThreadCount * (PipelineSize - 1)
  <2>1. CASE stop = 0
    BY <1>1, <1>3, <1>4, <2>1
  <2>2. CASE stop # 0
    <3>1. s = nonce[v]
      BY <1>3, <1>4, <2>2
    <3>2. stop * ThreadCount <= (PipelineSize - 1) * ThreadCount
      BY <1>1
    <3> QED BY <1>1, <1>3, <1>5, <3>1, <3>2
  <2> QED BY <2>1, <2>2
<1>7. s \in 0 .. nonce'[v]
  BY <1>1, <1>3, <1>5
<1>8. ~(nonce'[v] <= Mask(job[v]))
  BY <1>1, <1>2, <1>3, <1>5
<1> QED BY <1>4, <1>6, <1>7, <1>8

(* A pipeline is hashed: everything up to the new cursor has been tried.   *)
LEMMA PipelineTail ==
  ASSUME HistoryInv, TailInv, Observe, NEW v \in Workers, Pipeline(v), Limited(job[v]),
         job[v] \notin lapped'[v],
         NEW m \in Nat, OnTrack(v, m), m < nonce'[v]
  PROVE  Merge(job[v], m) \in tried'[v][job[v]]
<1>1. /\ nonce[v] \in Nat /\ v \in Nat /\ ThreadCount \in Nat \ {0}
      /\ tried[v] \in [Jobs -> SUBSET (0 .. Space - 1)]
  BY WorkerNumbers, SizesNat DEF HistoryInv, MinerInv, MinedTypeOK, HistoryTypeOK
<1>2. /\ job[v] \in Jobs /\ Count(v) \in Nat \ {0} /\ Filled(v) = 0 .. Count(v) - 1
      /\ Hashed(v) = {Merge(job[v], Advance(nonce[v], i)) : i \in Filled(v)}
      /\ \A i \in Filled(v) : Advance(nonce[v], i) \in 0 .. Mask(job[v])
      /\ tried'[v] = [tried[v] EXCEPT ![job[v]] = tried[v][job[v]] \cup Hashed(v)]
  BY ObservesPipeline DEF BlobNonce
<1>3. /\ OnTrack(v, nonce[v]) /\ nonce'[v] = nonce[v] + Count(v) * ThreadCount
      /\ \A i \in Filled(v) : Advance(nonce[v], i) = nonce[v] + i * ThreadCount
  BY PipelineAhead
<1>4. tried'[v][job[v]] = tried[v][job[v]] \cup Hashed(v)
  BY <1>1, <1>2
<1>5. CASE m < nonce[v]
  <2>1. nonce[v] <= Mask(job[v])
    <3>1. 0 \in Filled(v)
      BY <1>2
    <3>2. Advance(nonce[v], 0) = nonce[v]
      BY <1>1, <1>3, <3>1
    <3> QED BY <1>2, <3>1, <3>2
  <2>2. Searched(v, nonce[v])
    BY <1>2, <2>1 DEF TailInv
  <2> QED BY <1>4, <1>5, <2>2 DEF Searched
<1>6. CASE ~(m < nonce[v])
  <2>1. PICK k \in Nat : nonce[v] = v + k * ThreadCount
    BY <1>3 DEF OnTrack
  <2>2. PICK l \in Nat : m = v + l * ThreadCount
    BY DEF OnTrack
  <2>3. l >= k
    <3>1. ASSUME l < k PROVE FALSE
      <4>1. l * ThreadCount < k * ThreadCount
        BY <1>1, <3>1
      <4> QED BY <1>1, <1>6, <2>1, <2>2, <4>1
    <3> QED BY <3>1
  <2>4. PICK i \in Nat : l = k + i
    <3>1. l - k \in Nat /\ l = k + (l - k)
      BY <2>3
    <3> QED BY <3>1
  <2>5. m = nonce[v] + i * ThreadCount
    BY <1>1, <2>1, <2>2, <2>4
  <2>6. i < Count(v)
    <3>1. ASSUME i >= Count(v) PROVE FALSE
      <4>1. Count(v) * ThreadCount <= i * ThreadCount
        BY <1>1, <1>2, <3>1
      <4>2. Count(v) * ThreadCount \in Nat /\ i * ThreadCount \in Nat
        BY <1>1, <1>2
      <4> QED BY <1>1, <1>3, <2>5, <4>1, <4>2
    <3> QED BY <1>2, <3>1
  <2>7. i \in Filled(v) /\ Advance(nonce[v], i) = m
    BY <1>2, <1>3, <2>5, <2>6
  <2> QED BY <1>2, <1>4, <2>7
<1> QED BY <1>5, <1>6

LEMMA TailStep ==
  HistoryInv /\ HistoryInv' /\ TailInv /\ [HistoryNext]_historyVars => TailInv'
<1> SUFFICES ASSUME HistoryInv, HistoryInv', TailInv, [HistoryNext]_historyVars
             PROVE  TailInv'
  OBVIOUS
<1>1. CASE UNCHANGED historyVars
  <2>1. UNCHANGED <<job, nonce, tried>>
    BY <1>1 DEF historyVars, minerVars, threadVars
  <2> QED BY <2>1 DEF TailInv, Searched
<1>2. CASE MinerNext /\ Observe
  <2> SUFFICES ASSUME NEW v \in Workers, job'[v] \in Jobs, Limited(job'[v])
               PROVE  \E s \in 0 .. nonce'[v] :
                        /\ nonce'[v] - s <= ThreadCount * (PipelineSize - 1)
                        /\ nonce'[v] <= Mask(job'[v]) => s = nonce'[v]
                        /\ \A m \in Nat : OnTrack(v, m) /\ m < s
                             => Merge(job'[v], m) \in tried'[v][job'[v]]
    BY DEF TailInv, Searched, Limited
  <2>0. /\ tried[v] \in [Jobs -> SUBSET (0 .. Space - 1)]
        /\ nonce'[v] \in Nat /\ v \in Nat /\ ThreadCount * (PipelineSize - 1) \in Nat
        /\ ThreadCount \in Nat \ {0}
    BY SizesNat, WorkerNumbers DEF HistoryInv, HistoryTypeOK, MinerInv, MinedTypeOK
  <2>1. CASE Keeps(v)
    <3>1. tried'[v] = tried[v] /\ job'[v] = job[v] /\ nonce'[v] = nonce[v]
      BY <1>2, <2>0, <2>1, ObservesNothing DEF Keeps
    <3> QED BY <3>1 DEF TailInv, Searched
  <2>2. CASE CutShort(v)
    <3>1. tried'[v] = tried[v] /\ job'[v] = job[v]
      BY <1>2, <2>0, <2>2, ObservesNothing DEF CutShort
    <3> QED BY <2>2, <3>1, CutShortTail DEF Searched
  <2>3. CASE Exchanges(v)
    <3>1. nonce'[v] = v
      BY <2>3 DEF Exchanges
    <3>2. \A m \in Nat : ~(OnTrack(v, m) /\ m < v)
      BY <2>0 DEF OnTrack
    <3> QED BY <2>0, <3>1, <3>2
  <2>4. CASE Pipeline(v)
    <3>1. job'[v] = job[v]
      BY <2>4 DEF Pipeline
    <3>2. job[v] \notin lapped'[v]
      BY <3>1 DEF HistoryInv, NeverLapped, Limited
    <3>3. \A m \in Nat : OnTrack(v, m) /\ m < nonce'[v]
            => Merge(job'[v], m) \in tried'[v][job'[v]]
      BY <1>2, <2>4, <3>1, <3>2, PipelineTail
    <3> QED BY <2>0, <3>3
  <2> QED BY <1>2, <2>1, <2>2, <2>3, <2>4, StepOfThread DEF HistoryInv
<1> QED BY <1>1, <1>2 DEF HistoryNext

LEMMA TailInvariant == HistorySpec => []TailInv
  BY TailInit, TailStep, HistoryInvariant, PTL DEF HistorySpec

(* What is missing of an exhausted job can be counted by thread and place: *)
(* each nonce belongs to the thread of its residue, and lies less than a   *)
(* pipeline before that thread's cursor.                                   *)
LEMMA MissingPlaces ==
  ASSUME HistoryInv, TailInv, NEW j \in Jobs, Exhausted(j),
         NEW m \in 0 .. Mask(j), Merge(j, m) \notin UNION {tried[w][j] : w \in Workers}
  PROVE  \E w \in Workers : \E p \in 1 .. PipelineSize - 1 : m = nonce[w] - p * ThreadCount
<1>0. /\ ThreadCount \in Nat \ {0} /\ PipelineSize \in Nat \ {0} /\ Space \in Nat \ {0}
      /\ Mask(j) \in Nat /\ m \in Nat
  BY SizesNat, WorkerNumbers, MaskRange
<1> DEFINE w == m % ThreadCount
           k == m \div ThreadCount
<1>1. w \in 0 .. ThreadCount - 1 /\ k \in Nat /\ m = w + k * ThreadCount
  BY <1>0
<1> HIDE DEF w, k
<1>2. w \in Workers /\ OnTrack(w, m)
  BY <1>1, MinerAssumption DEF OnTrack
<1>3. job[w] = j /\ nonce[w] > Mask(j) /\ nonce[w] \in Nat /\ nonce[w] <= Space - 1
  BY <1>0, <1>2 DEF Exhausted, HistoryInv, MinerInv, MinedTypeOK
<1>4. Limited(j)
  BY <1>0, <1>3 DEF Limited
<1>5. PICK s \in 0 .. nonce[w] : nonce[w] - s <= ThreadCount * (PipelineSize - 1) /\ Searched(w, s)
  BY <1>2, <1>3, <1>4 DEF TailInv
<1>6. ~(m < s)
  BY <1>0, <1>2, <1>3, <1>5 DEF Searched
<1>7. PICK l \in Nat : nonce[w] = w + l * ThreadCount
  BY <1>2, <1>3, <1>4 DEF HistoryInv, NeverLapped, CursorInv, OnTrack
<1>8. k < l
  <2>1. ASSUME l <= k PROVE FALSE
    <3>1. l * ThreadCount <= k * ThreadCount
      BY <1>0, <1>1, <2>1
    <3> QED BY <1>0, <1>1, <1>3, <1>7, <3>1
  <2> QED BY <1>1, <2>1
<1>9. PICK p \in Nat : l = k + p /\ p >= 1
  <2>1. l - k \in Nat /\ l = k + (l - k) /\ l - k >= 1
    BY <1>1, <1>8
  <2> QED BY <2>1
<1>10. nonce[w] = m + p * ThreadCount
  BY <1>0, <1>1, <1>7, <1>9
<1>11. p * ThreadCount <= (PipelineSize - 1) * ThreadCount
  <2>1. p * ThreadCount \in Nat
    BY <1>0
  <2>2. p * ThreadCount <= nonce[w] - s
    BY <1>0, <1>3, <1>5, <1>6, <1>10, <2>1
  <2> QED BY <1>0, <1>3, <1>5, <2>1, <2>2
<1>12. p <= PipelineSize - 1
  <2>1. ASSUME p >= PipelineSize PROVE FALSE
    <3>1. p * ThreadCount >= PipelineSize * ThreadCount
      BY <1>0, <2>1
    <3> QED BY <1>0, <1>11, <3>1
  <2> QED BY <1>0, <2>1
<1>13. p \in 1 .. PipelineSize - 1 /\ m = nonce[w] - p * ThreadCount
  <2>1. p * ThreadCount \in Nat
    BY <1>0
  <2> QED BY <1>0, <1>9, <1>10, <1>12, <2>1
<1> QED BY <1>2, <1>13

(* Of a job that is used up, no more has been skipped than the pipelines   *)
(* the threads could not fill any more.                                    *)
THEOREM OnlyTailsSkipped == HistorySpec => []TailOnlySkipped
<1>1. ASSUME HistoryInv, TailInv, NEW j \in Jobs, Exhausted(j)
      PROVE  Mask(j) + 1 - Cardinality(UNION {tried[w][j] : w \in Workers})
               <= ThreadCount * (PipelineSize - 1)
  <2> DEFINE done == UNION {tried[w][j] : w \in Workers}
             all == {Merge(j, m) : m \in 0 .. Mask(j)}
             places == Workers \X (1 .. PipelineSize - 1)
             rest == all \ done
             f == [n \in rest |-> CHOOSE q \in places :
                                    n = Merge(j, nonce[q[1]] - q[2] * ThreadCount)]
  <2>0. /\ ThreadCount \in Nat \ {0} /\ PipelineSize \in Nat \ {0} /\ Mask(j) \in Nat
    BY SizesNat, WorkerNumbers, MaskRange
  <2>1. IsFiniteSet(all) /\ Cardinality(all) = Mask(j) + 1
    <3> DEFINE g == [m \in 0 .. Mask(j) |-> Merge(j, m)]
    <3>1. g \in Bijection(0 .. Mask(j), all)
      BY MergeInjective DEF Bijection, Injection, Surjection, IsInjective
    <3>2. ExistsBijection(0 .. Mask(j), all)
      BY <3>1 DEF ExistsBijection
    <3>3. IsFiniteSet(0 .. Mask(j)) /\ Cardinality(0 .. Mask(j)) = Mask(j) + 1
      BY <2>0, FS_Interval
    <3> HIDE DEF all, g
    <3> QED BY <3>2, <3>3, FS_Bijection
  <2>2. IsFiniteSet(done) /\ Cardinality(done) \in Nat
    <3>1. done \subseteq 0 .. Space - 1
      BY <1>1 DEF HistoryInv, HistoryTypeOK
    <3>2. IsFiniteSet(0 .. Space - 1)
      BY SizesNat, FS_Interval
    <3> QED BY <3>1, <3>2, FS_Subset, FS_CardinalityType
  <2>3. IsFiniteSet(places) /\ Cardinality(places) = ThreadCount * (PipelineSize - 1)
    <3>1. IsFiniteSet(Workers) /\ Cardinality(Workers) = ThreadCount
      BY <2>0, MinerAssumption, FS_Interval
    <3>2. IsFiniteSet(1 .. PipelineSize - 1) /\ Cardinality(1 .. PipelineSize - 1) = PipelineSize - 1
      BY <2>0, FS_Interval
    <3> QED BY <3>1, <3>2, FS_Product
  <2>4. ASSUME NEW n \in rest
        PROVE  f[n] \in places /\ n = Merge(j, nonce[f[n][1]] - f[n][2] * ThreadCount)
    <3>1. PICK m \in 0 .. Mask(j) : n = Merge(j, m) /\ Merge(j, m) \notin done
      BY <2>4
    <3>2. PICK w \in Workers, p \in 1 .. PipelineSize - 1 : m = nonce[w] - p * ThreadCount
      BY <1>1, <3>1, MissingPlaces
    <3>3. <<w, p>> \in places /\ n = Merge(j, nonce[<<w, p>>[1]] - <<w, p>>[2] * ThreadCount)
      BY <3>1, <3>2
    <3>4. \E q \in places : n = Merge(j, nonce[q[1]] - q[2] * ThreadCount)
      BY <3>3
    <3> HIDE DEF places, rest
    <3> QED BY <2>4, <3>4
  <2>5. f \in Injection(rest, places)
    <3> HIDE DEF places
    <3>1. f \in [rest -> places]
      <4> HIDE DEF rest
      <4> QED BY <2>4
    <3>2. \A a, b \in rest : f[a] = f[b] => a = b
      <4> HIDE DEF rest, f
      <4> QED BY <2>4
    <3> HIDE DEF rest, f
    <3> QED BY <3>1, <3>2 DEF Injection, IsInjective
  <2>6. Cardinality(rest) <= ThreadCount * (PipelineSize - 1)
    <3> HIDE DEF rest, places, f
    <3> QED BY <2>3, <2>5, FS_Injection
  <2>7. Cardinality(rest) = Cardinality(all) - Cardinality(all \cap done)
    <3> HIDE DEF all, done, f
    <3> QED BY <2>1, FS_Difference
  <2>8. Cardinality(all \cap done) <= Cardinality(done) /\ Cardinality(all \cap done) \in Nat
    <3> HIDE DEF all, done
    <3>1. all \cap done \subseteq done
      OBVIOUS
    <3> QED BY <2>2, <3>1, FS_Subset, FS_CardinalityType
  <2>9. ThreadCount * (PipelineSize - 1) \in Nat
    BY <2>0
  <2> HIDE DEF all, done, rest
  <2>10. Mask(j) + 1 - Cardinality(done) <= ThreadCount * (PipelineSize - 1)
    BY <2>0, <2>1, <2>2, <2>6, <2>7, <2>8, <2>9
  <2> QED BY <2>10 DEF done
<1>2. HistoryInv /\ TailInv => TailOnlySkipped
  BY <1>1 DEF TailOnlySkipped
<1> QED BY <1>2, HistoryInvariant, TailInvariant, PTL
=============================================================================
