------------------------------- MODULE DaemonSolo -------------------------------
(***************************************************************************)
(* Controller::run_daemon_rpc (src/src/controller.rs) over DaemonRpcClient *)
(* (src/src/daemon_rpc.rs): solo mining against a monerod.                 *)
(*                                                                         *)
(* A job task polls the daemon, files each block template under its job id *)
(* and publishes the job when the id is new; the mining threads hash the   *)
(* job they hold; the select loop looks up the template of each candidate  *)
(* and submits the block.  The job task, the threads and the select loop   *)
(* run in parallel and share the map of templates and two channels.        *)
(***************************************************************************)
EXTENDS Integers, Sequences, FiniteSets

CONSTANTS
  Threads,     \* the mining threads
  Templates,   \* [id, body, fits]: what the daemon may hand out
  NoTemplate,  \* no template filed, or no job
  MinedCap,    \* capacity of the queue of candidates (256 in Miner::start)
  MaxFound     \* bound of the model: candidates the threads find

(* The id is made of the height and the first eight bytes of the hashing   *)
(* blob, so that different templates may have the same; "fits" tells       *)
(* whether the template is long enough to have a nonce written into it.    *)
ASSUME SoloAssumption ==
  /\ NoTemplate \notin Templates
  /\ \A t \in Templates : t.fits \in BOOLEAN
  /\ MinedCap \in Nat \ {0}
  /\ MaxFound \in Nat

Ids == {t.id : t \in Templates}

VARIABLES
  current,    \* environment: the daemon's template; NoTemplate: it has none to give
  fPc,        \* where the job task stands
  fetched,    \* the job task's answer from the daemon
  templates,  \* the map of templates, by job id
  latest,     \* the watch channel (its id is last_job_id)
  job,        \* the job each thread hashes
  minedQ,     \* the queue of candidates; a candidate is its job's template
  cPc,        \* where the select loop stands
  candidate,  \* the candidate being submitted
  block,      \* the template its block is made from
  ctrlC,      \* the signal task has seen Ctrl+C
  accepted, rejected,  \* stats
  queued,     \* history: candidates that found room in minedQ
  found,      \* history: candidates found
  reused      \* history: ids filed again for another template

fetchVars == <<fPc, fetched, templates, latest, reused>>
loopVars  == <<cPc, candidate, block, ctrlC, accepted, rejected>>
mineVars  == <<job, minedQ, queued, found>>
vars == <<current, fetchVars, mineVars, loopVars>>

SoloTypeOK ==
  /\ current \in Templates \cup {NoTemplate}
  /\ fPc \in {"rpc", "store", "publish", "sleep", "aborted"}
  /\ fetched \in Templates \cup {NoTemplate}
  /\ templates \in [Ids -> Templates \cup {NoTemplate}]
  /\ latest \in Templates \cup {NoTemplate}
  /\ job \in [Threads -> Templates \cup {NoTemplate}]
  /\ minedQ \in Seq(Templates) /\ Len(minedQ) <= MinedCap
  /\ cPc \in {"select", "submit", "stopped"}
  /\ candidate \in Templates \cup {NoTemplate}
  /\ block \in Templates \cup {NoTemplate}
  /\ ctrlC \in BOOLEAN
  /\ accepted \in 0 .. MaxFound
  /\ rejected \in 0 .. MaxFound
  /\ queued \in 0 .. MaxFound
  /\ found \in 0 .. MaxFound
  /\ reused \subseteq Ids

Init ==
  /\ current = NoTemplate
  /\ fPc = "rpc"
  /\ fetched = NoTemplate
  /\ templates = [i \in Ids |-> NoTemplate]
  /\ latest = NoTemplate
  /\ job = [t \in Threads |-> NoTemplate]
  /\ minedQ = << >>
  /\ cPc = "select"
  /\ candidate = NoTemplate
  /\ block = NoTemplate
  /\ ctrlC = FALSE
  /\ accepted = 0 /\ rejected = 0
  /\ queued = 0 /\ found = 0
  /\ reused = {}

-----------------------------------------------------------------------------
(* The environment: the daemon moves on to another template, or stops and  *)
(* starts to answer; the user presses Ctrl+C.                              *)
DaemonChanges ==
  /\ current' \in Templates \cup {NoTemplate}
  /\ UNCHANGED <<fetchVars, mineVars, loopVars>>

CtrlC ==
  /\ ctrlC' = TRUE
  /\ UNCHANGED <<current, fetchVars, mineVars,
                 cPc, candidate, block, accepted, rejected>>

-----------------------------------------------------------------------------
(* The job task.  get_block_template has its answer.                       *)
RpcOk ==
  /\ fPc = "rpc"
  /\ current # NoTemplate
  /\ fetched' = current
  /\ fPc' = "store"
  /\ UNCHANGED <<templates, latest, reused>>

(* No answer within the timeout, or none that can be used.                 *)
RpcFailsForGood ==
  /\ fPc = "rpc"
  /\ current = NoTemplate
  /\ fPc' = "aborted"
  /\ UNCHANGED <<fetched, templates, latest, reused>>
RpcFails ==
  /\ fPc = "rpc"
  /\ current = NoTemplate
  /\ fPc' = "sleep"
  /\ UNCHANGED <<fetched, templates, latest, reused>>

(* templates.insert, which replaces what is there.                         *)
FiledAlone(t) == [i \in Ids |-> IF i = t.id THEN t ELSE NoTemplate]
Filed(t) == [templates EXCEPT ![t.id] = t]
StoreTemplate ==
  /\ fPc = "store"
  /\ templates' = Filed(fetched)
  /\ reused' = IF templates[fetched.id] \in {NoTemplate, fetched}
               THEN reused ELSE reused \cup {fetched.id}
  /\ fPc' = "publish"
  /\ UNCHANGED <<fetched, latest>>

(* job_tx.send, if the id is not last_job_id.                              *)
IdOf(t) == IF t = NoTemplate THEN NoTemplate ELSE t.id
PublishJob ==
  /\ fPc = "publish"
  /\ latest' = IF fetched.id # IdOf(latest) THEN fetched ELSE latest
  /\ fetched' = NoTemplate
  /\ fPc' = "sleep"
  /\ UNCHANGED <<templates, reused>>

(* The fifteen seconds are over.                                           *)
SleepEnds ==
  /\ fPc = "sleep"
  /\ fPc' = "rpc"
  /\ UNCHANGED <<fetched, templates, latest, reused>>

JobTask ==
  /\ RpcOk \/ RpcFails \/ StoreTemplate \/ PublishJob \/ SleepEnds
  /\ UNCHANGED <<current, mineVars, loopVars>>

-----------------------------------------------------------------------------
(* A thread looks at the watch channel: a job with another id becomes its  *)
(* own.                                                                    *)
TakeJob(t) ==
  /\ cPc # "stopped"
  /\ IdOf(latest) # IdOf(job[t])
  /\ job' = [job EXCEPT ![t] = latest]
  /\ UNCHANGED <<current, fetchVars, minedQ, queued, found, loopVars>>

(* A hash meets the difficulty: try_send, the candidate being dropped if   *)
(* the queue is full.                                                      *)
Find(t) ==
  /\ cPc # "stopped"
  /\ job[t] # NoTemplate
  /\ found < MaxFound
  /\ found' = found + 1
  /\ IF Len(minedQ) < MinedCap
     THEN minedQ' = Append(minedQ, job[t]) /\ queued' = queued + 1
     ELSE UNCHANGED <<minedQ, queued>>
  /\ UNCHANGED <<current, fetchVars, job, loopVars>>

-----------------------------------------------------------------------------
(* The select loop.  The template filed under the candidate's job id.      *)
LookUpLatest(c) == latest
LookUp(c) == templates[c.id]

(* No template, or one too short for a nonce: rejected locally.            *)
RejectLocally ==
  /\ cPc = "select"
  /\ minedQ # << >>
  /\ LET t == LookUp(Head(minedQ)) IN t # NoTemplate => ~t.fits
  /\ minedQ' = Tail(minedQ)
  /\ rejected' = rejected + 1
  /\ UNCHANGED <<current, fetchVars, job, queued, found,
                 cPc, candidate, block, ctrlC, accepted>>

(* Otherwise the block is submitted; the loop waits for the answer.        *)
StartSubmit ==
  /\ cPc = "select"
  /\ minedQ # << >>
  /\ LET t == LookUp(Head(minedQ)) IN
     /\ t # NoTemplate /\ t.fits
     /\ block' = t
  /\ candidate' = Head(minedQ)
  /\ minedQ' = Tail(minedQ)
  /\ cPc' = "submit"
  /\ UNCHANGED <<current, fetchVars, job, queued, found,
                 ctrlC, accepted, rejected>>

(* The answer of the daemon, or the timeout of the RPC.                    *)
SubmitEndsOnAnswer(outcome) ==
  /\ cPc = "submit"
  /\ current # NoTemplate
  /\ accepted' = accepted + (IF outcome = "Accepted" THEN 1 ELSE 0)
  /\ rejected' = rejected + (IF outcome = "Rejected" THEN 1 ELSE 0)
  /\ cPc' = "select"
  /\ candidate' = NoTemplate
  /\ block' = NoTemplate
  /\ UNCHANGED ctrlC
SubmitEndsUncounted(outcome) ==
  /\ cPc = "submit"
  /\ accepted' = accepted + (IF outcome = "Accepted" THEN 1 ELSE 0)
  /\ cPc' = "select"
  /\ candidate' = NoTemplate
  /\ block' = NoTemplate
  /\ UNCHANGED <<ctrlC, rejected>>
SubmitEnds(outcome) ==
  /\ cPc = "submit"
  /\ outcome = "Accepted" => current # NoTemplate
  /\ accepted' = accepted + (IF outcome = "Accepted" THEN 1 ELSE 0)
  /\ rejected' = rejected + (IF outcome = "Rejected" THEN 1 ELSE 0)
  /\ cPc' = "select"
  /\ candidate' = NoTemplate
  /\ block' = NoTemplate
  /\ UNCHANGED ctrlC

SubmitAnswered ==
  /\ \E outcome \in {"Accepted", "Rejected"} : SubmitEnds(outcome)
  /\ UNCHANGED <<current, fetchVars, mineVars>>

(* The shutdown branch: leave the loop and abort the job task.             *)
Stop ==
  /\ cPc = "select"
  /\ ctrlC
  /\ cPc' = "stopped"
  /\ fPc' = "aborted"
  /\ UNCHANGED <<current, fetched, templates, latest, reused, mineVars,
                 candidate, block, ctrlC, accepted, rejected>>

-----------------------------------------------------------------------------
Next ==
  \/ DaemonChanges \/ CtrlC
  \/ JobTask
  \/ \E t \in Threads : TakeJob(t) \/ Find(t)
  \/ RejectLocally \/ StartSubmit \/ SubmitAnswered \/ Stop

Spec == Init /\ [][Next]_vars

(* The runtime polls a task that can go on (weak fairness), and each RPC   *)
(* ends within fifteen seconds (timeout_global); select! takes a branch    *)
(* that is ready again and again some time (strong fairness); the threads  *)
(* are scheduled and finish their batches.  Nothing is assumed of the      *)
(* daemon.                                                                 *)
Fairness ==
  /\ WF_vars(JobTask)
  /\ \A t \in Threads : WF_vars(TakeJob(t))
  /\ WF_vars(SubmitAnswered) /\ SF_vars(Stop)

FairSpec == Spec /\ Fairness

-----------------------------------------------------------------------------
(* No candidate is "rejected locally: missing block template": the template *)
(* of every job that a thread hashes, or may have hashed, stays on file.   *)
TemplateOnFile ==
  /\ \A n \in 1 .. Len(minedQ) : templates[minedQ[n].id] # NoTemplate
  /\ \A t \in Threads : job[t] # NoTemplate => templates[job[t].id] # NoTemplate
  /\ latest # NoTemplate => templates[latest.id] # NoTemplate

(* The block submitted is made from the template that was hashed, however  *)
(* many jobs were published since -- unless the daemon handed out another  *)
(* template with the same id in the meantime.                              *)
BlockOfItsCandidate ==
  cPc = "submit" => block = candidate \/ candidate.id \in reused

(* Every candidate that reaches the select loop is counted exactly once.   *)
SoloTally ==
  queued = Len(minedQ) + accepted + rejected + (IF cPc = "submit" THEN 1 ELSE 0)

(* "shutting down...": after Ctrl+C the program stops, whatever the daemon *)
(* does, because no RPC lasts longer than its timeout.                     *)
SoloStopsOnCtrlC == ctrlC ~> cPc = "stopped"

(* A template that the daemon keeps long enough is the one every thread    *)
(* hashes in the end: errors do not end the polling.                       *)
FollowsDaemon ==
  \A t \in Templates :
    <>[](current = t) =>
      \/ <>[](\A th \in Threads : IdOf(job[th]) = t.id)
      \/ <>(cPc = "stopped")
=============================================================================
