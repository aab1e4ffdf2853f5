-------------------------------- MODULE NonceHistory --------------------------------
(***************************************************************************)
(* Which nonces the mining threads of Miner hash: an observer that writes  *)
(* down, for each thread and job, the nonces it has ever hashed.  It sees  *)
(* what a step does to the current jobs and to the rest of the batch and   *)
(* nothing of how the program comes to it; in particular it never looks at *)
(* where or why a cursor starts again (worker_loop_sync and mine_one_batch *)
(* in src/src/miner.rs).                                                   *)
(***************************************************************************)
EXTENDS Miner

VARIABLES
  tried,   \* the nonces each thread has hashed for each job; nothing is forgotten
  stay,    \* those among them hashed since the thread last exchanged its job
  lapped   \* the jobs for which a thread's cursor has passed 2^32

historyVars == <<minerVars, tried, stay, lapped>>

HistoryInit ==
  /\ MinerInit
  /\ tried  = [w \in Workers |-> [j \in Jobs |-> {}]]
  /\ stay   = [w \in Workers |-> {}]
  /\ lapped = [w \in Workers |-> {}]

(* The thread hashes a pipeline in this step: so many nonces, and these.   *)
Hashes(w) == wpc[w] = "mine" /\ wpc'[w] = "mine" /\ rem'[w] < rem[w]
HashedCount(w) == IF Hashes(w) THEN rem[w] - rem'[w] ELSE 0
Hashed(w) == {BlobNonce(w, i) : i \in 0 .. HashedCount(w) - 1}

(* Its cursor runs over the end of the nonce space while it does so.       *)
Laps(w) == Hashes(w) /\ nonce[w] + HashedCount(w) * ThreadCount >= Space

Observe ==
  /\ tried' = [w \in Workers |-> [j \in Jobs |->
                  IF j = job[w] THEN tried[w][j] \cup Hashed(w) ELSE tried[w][j]]]
  /\ stay' = [w \in Workers |->
                  IF job'[w] = job[w] THEN stay[w] \cup Hashed(w) ELSE {}]
  /\ lapped' = [w \in Workers |->
                  IF Laps(w) THEN lapped[w] \cup {job[w]} ELSE lapped[w]]

HistoryNext == MinerNext /\ Observe

HistorySpec == HistoryInit /\ [][HistoryNext]_historyVars

-----------------------------------------------------------------------------
(* No two threads ever hash the same nonce of the same job, unless one of  *)
(* them has used up the 32-bit nonce space: the cursors start at the       *)
(* thread's number and advance by the number of threads, at whatever times *)
(* the threads take the job up, leave it and come back to it.              *)
DisjointNonces ==
  \A v, w \in Workers : \A j \in Jobs :
    (v # w /\ j \notin lapped[v] \cup lapped[w])
      => tried[v][j] \cap tried[w][j] = {}

(* A thread hashes a nonce of a job again only if it hashed it before it   *)
(* exchanged the job for another one and came back.  While it stays with a *)
(* job, each pipeline is of new nonces, all of them different: across      *)
(* pipelines, batches, waits for a dataset, failed builds and repeated     *)
(* announcements.  The exception is real: a job that comes back after      *)
(* another one is searched from the thread's number again, because the     *)
(* loop compares a job with the current one only.                          *)
Earlier(w) == tried[w][job[w]] \ stay[w]
NoRescan ==
  [][\A w \in Workers :
       (Hashes(w) /\ job[w] \notin lapped'[w])
         => /\ Hashed(w) \cap tried[w][job[w]] \subseteq Earlier(w)
            /\ Cardinality(Hashed(w)) = rem[w] - rem'[w]]_historyVars

(* Through a proxy, every nonce hashed keeps the byte the proxy reserved,  *)
(* so that two miners behind one proxy never hash the same nonce.          *)
ReservedKept ==
  \A w \in Workers : \A j \in Jobs :
    \A n \in tried[w][j] :
      j.proxied => n \div LoSize = j.nonce \div LoSize

(* A job whose nonces are used up has been searched but for the nonces of  *)
(* the pipeline each thread could not fill any more.                       *)
Exhausted(j) == \A w \in Workers : job[w] = j /\ nonce[w] > Mask(j)
TailOnlySkipped ==
  \A j \in Jobs :
    Exhausted(j) =>
      Mask(j) + 1 - Cardinality(UNION {tried[w][j] : w \in Workers})
        <= ThreadCount * (PipelineSize - 1)
=============================================================================
