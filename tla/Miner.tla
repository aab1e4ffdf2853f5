---------------------------------- MODULE Miner ----------------------------------
(***************************************************************************)
(* The mining threads (src/src/miner.rs) over the dataset cache: each      *)
(* thread takes the latest job from a watch channel, makes sure its VM is  *)
(* for the job's seed, and hashes one batch of nonces in pipelines,        *)
(* offering every hash that meets the difficulty to a bounded queue.       *)
(*                                                                         *)
(* A nonce is a number below Space = LoSize * HiSize, which stands for     *)
(* 2^32; LoSize stands for 2^24, so that n \div LoSize is the byte an      *)
(* xmrig-proxy reserves and n % LoSize the part it leaves to the miner.    *)
(* Which hashes meet the difficulty is left open.                          *)
(***************************************************************************)
EXTENDS DatasetCache, Integers, Sequences, FiniteSets

CONSTANTS
  ThreadCount,   \* thread_count; the threads are 0 .. ThreadCount - 1
  Jobs,          \* jobs: [id, key, nonce, proxied], see JobsAssumption
  NoJob,         \* the watch channel before the first job
  LoSize,        \* nonces below the reserved byte
  HiSize,        \* values of the reserved byte
  BatchSize,     \* BATCH_SIZE
  PipelineSize,  \* PIPELINE_SIZE
  MinedCap       \* capacity of the queue of mined shares

Space == LoSize * HiSize

(* "nonce" is the nonce field of the blob as the pool sent it, "proxied"   *)
(* whether its top byte is reserved (the code has no such flag: it guesses *)
(* it, see Nicehash).                                                      *)
ASSUME MinerAssumption ==
  /\ ThreadCount \in Nat \ {0}
  /\ Workers = 0 .. ThreadCount - 1
  /\ LoSize \in Nat \ {0} /\ HiSize \in Nat \ {0}
  /\ ThreadCount <= LoSize
  /\ BatchSize \in Nat \ {0} /\ PipelineSize \in Nat \ {0}
  /\ MinedCap \in Nat \ {0}
  /\ NoJob \notin Jobs
  /\ \A j \in Jobs : /\ j.key \in Keys
                     /\ j.nonce \in 0 .. Space - 1
                     /\ j.proxied \in BOOLEAN
                     /\ ~j.proxied => j.nonce = 0

VARIABLES
  latest,   \* the value of the watch channel
  closed,   \* its sender is gone
  wpc,      \* where a thread outside create_randomx_vm stands in its loop
  job,      \* current_job of each thread
  nonce,    \* the nonce cursor of each thread
  rem,      \* remaining: nonces left in the thread's batch
  minedQ    \* the bounded queue of mined shares

threadVars == <<wpc, job, nonce, rem>>
minerVars == <<cacheVars, latest, closed, minedQ, threadVars>>

LoopPositions == {"top", "park", "mine", "exit"}

MinerTypeOK ==
  /\ CacheTypeOK
  /\ latest \in Jobs \cup {NoJob}
  /\ closed \in BOOLEAN
  /\ wpc    \in [Workers -> LoopPositions]
  /\ job    \in [Workers -> Jobs \cup {NoJob}]
  /\ nonce  \in [Workers -> 0 .. Space - 1]
  /\ rem    \in [Workers -> 0 .. BatchSize]
  /\ minedQ \in Seq([job : Jobs, nonce : 0 .. Space - 1, dataset : Keys])
  /\ Len(minedQ) <= MinedCap

MinerInit ==
  /\ CacheInit
  /\ latest = NoJob
  /\ closed = FALSE
  /\ wpc    = [w \in Workers |-> "top"]
  /\ job    = [w \in Workers |-> NoJob]
  /\ nonce  = [w \in Workers |-> w]
  /\ rem    = [w \in Workers |-> 0]
  /\ minedQ = << >>

-----------------------------------------------------------------------------
(* Nonce arithmetic.                                                       *)

(* detects_nicehash_nonce: a blob whose nonce field is not zero is taken   *)
(* to come from a proxy that has reserved the top byte.                    *)
Nicehash(j) == j.nonce # 0

(* nonce_mask *)
Mask(j) == IF Nicehash(j) THEN LoSize - 1 ELSE Space - 1

(* write_nonce: the bits outside the mask stay as the pool sent them.      *)
MergeNoMask(j, n) == n
Merge(j, n) ==
  IF Nicehash(j) THEN (j.nonce \div LoSize) * LoSize + (n % LoSize) ELSE n

(* The cursor after i increments of wrapping_add(thread_count).            *)
AdvanceByOne(n, i) == (n + i) % Space
Advance(n, i) == (n + i * ThreadCount) % Space

CountWholeBatch(w) == rem[w]
Count(w) == IF rem[w] < PipelineSize THEN rem[w] ELSE PipelineSize
Filled(w) == 0 .. Count(w) - 1

-----------------------------------------------------------------------------
(* The environment: the stratum client publishes jobs and finally drops    *)
(* the sender, the controller takes shares.                                *)
Publish(j) ==
  /\ ~closed
  /\ latest' = j
  /\ UNCHANGED <<cacheVars, closed, minedQ, threadVars>>

Close ==
  /\ ~closed
  /\ closed' = TRUE
  /\ UNCHANGED <<cacheVars, latest, minedQ, threadVars>>

TakeShare ==
  /\ minedQ # << >>
  /\ minedQ' = Tail(minedQ)
  /\ UNCHANGED <<cacheVars, latest, closed, threadVars>>

-----------------------------------------------------------------------------
IdOf(j) == IF j = NoJob THEN NoJob ELSE j.id

(* borrow_and_update at the top of the loop: a job with another id becomes *)
(* the current job and resets the cursor; the same id changes nothing.     *)
SeenJob(w) == IF IdOf(latest) # IdOf(job[w]) THEN latest ELSE job[w]
CursorAlwaysReset(w) == w
SeenCursor(w) == IF IdOf(latest) # IdOf(job[w]) THEN w ELSE nonce[w]
LookAtLatest(w) ==
  /\ pc[w] = "run" /\ wpc[w] = "top"
  /\ job' = [job EXCEPT ![w] = SeenJob(w)]
  /\ nonce' = [nonce EXCEPT ![w] = SeenCursor(w)]
  /\ UNCHANGED <<latest, closed, minedQ>>

(* No job yet: block on job_rx.changed().                                  *)
Park(w) ==
  /\ LookAtLatest(w)
  /\ SeenJob(w) = NoJob
  /\ wpc' = [wpc EXCEPT ![w] = "park"]
  /\ UNCHANGED <<cacheVars, rem>>

(* changed() compares versions, so a job published since the last look     *)
(* wakes the thread; with none and the sender gone it fails.               *)
Unpark(w) ==
  /\ wpc[w] = "park"
  /\ latest # NoJob
  /\ wpc' = [wpc EXCEPT ![w] = "top"]
  /\ UNCHANGED <<cacheVars, latest, closed, minedQ, job, nonce, rem>>

Exit(w) ==
  /\ wpc[w] = "park"
  /\ latest = NoJob /\ closed
  /\ wpc' = [wpc EXCEPT ![w] = "exit"]
  /\ UNCHANGED <<cacheVars, latest, closed, minedQ, job, nonce, rem>>

(* The job is for another seed or algorithm than the VM.                   *)
NeedsVmOnlyFirst(w, j) == cur[w] = NoKey
NeedsVm(w, j) == cur[w] # j.key
StartVm(w) ==
  /\ LookAtLatest(w)
  /\ SeenJob(w) # NoJob
  /\ NeedsVm(w, SeenJob(w))
  /\ Request(w, SeenJob(w).key)
  /\ UNCHANGED <<wpc, rem>>

StartBatch(w) ==
  /\ LookAtLatest(w)
  /\ SeenJob(w) # NoJob
  /\ ~NeedsVm(w, SeenJob(w))
  /\ wpc' = [wpc EXCEPT ![w] = "mine"]
  /\ rem' = [rem EXCEPT ![w] = BatchSize]
  /\ UNCHANGED cacheVars

(* create_randomx_vm: an error (no dataset, no VM) sends the thread back   *)
(* to the top of its loop, success straight on to a batch for the job it   *)
(* took before it went to wait.                                            *)
VmReady(w) ==
  /\ VmOk(w)
  /\ wpc' = [wpc EXCEPT ![w] = "mine"]
  /\ rem' = [rem EXCEPT ![w] = BatchSize]
  /\ UNCHANGED <<latest, closed, minedQ, job, nonce>>

InCreateVm(w) ==
  /\ Examine(w) \/ Build(w) \/ VmFail(w)
  /\ UNCHANGED <<latest, closed, minedQ, threadVars>>

Wake(w) ==
  /\ SpuriousWake(w)
  /\ UNCHANGED <<latest, closed, minedQ, threadVars>>

-----------------------------------------------------------------------------
(* mine_one_batch, one pipeline at a time.  The fill loop checks the mask  *)
(* before each blob.                                                       *)
RoomForPipeline(w) ==
  \A i \in Filled(w) : Advance(nonce[w], i) <= Mask(job[w])

(* A nonce above the mask: sleep 10 ms and leave the batch, without        *)
(* hashing the blobs already filled; the cursor stays where it stopped.    *)
MineOut(w) ==
  /\ pc[w] = "run" /\ wpc[w] = "mine"
  /\ rem[w] > 0
  /\ \E stop \in Filled(w) :
       /\ Advance(nonce[w], stop) > Mask(job[w])
       /\ \A i \in 0 .. stop - 1 : Advance(nonce[w], i) <= Mask(job[w])
       /\ nonce' = [nonce EXCEPT ![w] = Advance(@, stop)]
  /\ wpc' = [wpc EXCEPT ![w] = "top"]
  /\ rem' = [rem EXCEPT ![w] = 0]
  /\ UNCHANGED <<cacheVars, latest, closed, minedQ, job>>

BlobNonce(w, i) == Merge(job[w], Advance(nonce[w], i))
Share(w, i) == [job |-> job[w], nonce |-> BlobNonce(w, i), dataset |-> vm[w]]

(* try_send: a share that finds the queue full is dropped.                 *)
TrySendUnbounded(q, shares) == q \o shares
TrySendAll(q, shares) ==
  LET all == q \o shares
  IN  SubSeq(all, 1, IF Len(all) < MinedCap THEN Len(all) ELSE MinedCap)

(* Hash a full pipeline and offer the hashes that meet the difficulty, in  *)
(* the order of the pipeline.                                              *)
Increasing(n, S) == {f \in [1 .. n -> S] : \A k \in 1 .. n - 1 : f[k] < f[k + 1]}
MinePipeline(w) ==
  /\ pc[w] = "run" /\ wpc[w] = "mine"
  /\ rem[w] > 0
  /\ RoomForPipeline(w)
  /\ \E n \in 0 .. Count(w) : \E good \in Increasing(n, Filled(w)) :
       minedQ' = TrySendAll(minedQ, [k \in 1 .. n |-> Share(w, good[k])])
  /\ nonce' = [nonce EXCEPT ![w] = Advance(@, Count(w))]
  /\ rem'   = [rem EXCEPT ![w] = @ - Count(w)]
  /\ UNCHANGED <<cacheVars, latest, closed, wpc, job>>

(* The batch is done: back to the top of the loop, keeping the cursor.     *)
BatchDone(w) ==
  /\ pc[w] = "run" /\ wpc[w] = "mine"
  /\ rem[w] = 0
  /\ wpc' = [wpc EXCEPT ![w] = "top"]
  /\ UNCHANGED <<cacheVars, latest, closed, minedQ, job, nonce, rem>>

-----------------------------------------------------------------------------
Mine(w) == MineOut(w) \/ MinePipeline(w) \/ BatchDone(w)

(* What a thread does by itself; a wake-up without cause is not its doing. *)
Thread(w) ==
  \/ Park(w) \/ Unpark(w) \/ Exit(w)
  \/ StartVm(w) \/ InCreateVm(w) \/ VmReady(w)
  \/ StartBatch(w) \/ Mine(w)

MinerNext ==
  \/ \E j \in Jobs : Publish(j)
  \/ Close \/ TakeShare
  \/ \E w \in Workers : Thread(w) \/ Wake(w)

MinerSpec == MinerInit /\ [][MinerNext]_minerVars

(* The threads are operating-system threads that the scheduler runs again  *)
(* and again, and a dataset build ends one way or the other.  Nothing is   *)
(* assumed of the pool or of whoever takes the shares.                     *)
FairMinerSpec == MinerSpec /\ \A w \in Workers : WF_minerVars(Thread(w))

-----------------------------------------------------------------------------
(* A nonce is only ever hashed with the dataset of its job's seed, however *)
(* jobs, dataset builds and failures interleave: wherever a thread may     *)
(* hash, its VM is for the key of its current job.                         *)
VmOfItsJob ==
  \A w \in Workers :
    pc[w] = "run" /\ wpc[w] = "mine" => vm[w] = job[w].key

(* A job that stays the latest is taken up by every thread in the end: no  *)
(* thread is left parked, asleep on a dataset or spinning on an old job.   *)
FollowsLatest ==
  \A j \in Jobs :
    <>[](latest = j) => <>[](\A w \in Workers : IdOf(job[w]) = IdOf(j))

(* "RandomX dataset init failed ...; falling back to light mode": a thread *)
(* whose dataset could not be built goes on to mine without it.            *)
LightModeFallback ==
  \A w \in Workers :
    (pc[w] = "enter" /\ Matches(w, "Failed")) ~> (pc[w] = "run" /\ wpc[w] = "mine")
=============================================================================
