--------------------------------- MODULE Channels ---------------------------------
(***************************************************************************)
(* The channels Controller::run (src/src/controller.rs) creates between    *)
(* the mining threads, its own select loop and the stratum client task:    *)
(*                                                                         *)
(*   threads --minedQ--> controller --submitQ--> client --> pool           *)
(*                       controller <--eventQ--- client <-- pool           *)
(*   threads <-----------job (a watch channel)-- client                    *)
(*                                                                         *)
(* The threads use try_send, which drops a share that finds minedQ full;   *)
(* the two tasks use send().await, which waits for room.  Shares are the   *)
(* numbers 1, 2, ... in the order in which they are found.                 *)
(***************************************************************************)
EXTENDS Settings, Integers, Sequences

CONSTANTS
  MinedCap,   \* capacity of minedQ  (256 in Miner::start)
  SubmitCap,  \* capacity of submitQ (256 in Controller::run)
  EventCap,   \* capacity of eventQ  (256 in Controller::run)
  MaxShares   \* bound of the model: shares the threads find

ASSUME ChannelsAssumption ==
  /\ MinedCap \in Nat \ {0}
  /\ SubmitCap \in Nat \ {0}
  /\ EventCap \in Nat \ {0}
  /\ MaxShares \in Nat

VARIABLES
  minedQ,     \* shares found, not yet taken by the controller
  submitQ,    \* shares on their way to the stratum client
  eventQ,     \* StratumEvents on their way to the controller
  hasJob,     \* the watch channel holds a job
  submitOpen, \* the client still holds the receiver of submitQ
  found       \* number of shares found so far

channelVars == <<minedQ, submitQ, eventQ, hasJob, submitOpen, found>>

Events == {"NewJob", "Accepted", "Rejected", "Connected", "Disconnected"}

ChannelsTypeOK ==
  /\ minedQ \in Seq(1 .. MaxShares)
  /\ Len(minedQ) <= MinedCap
  /\ submitQ \in Seq(1 .. MaxShares)
  /\ Len(submitQ) <= SubmitCap
  /\ eventQ \in Seq(Events)
  /\ Len(eventQ) <= EventCap
  /\ hasJob \in BOOLEAN
  /\ submitOpen \in BOOLEAN
  /\ found \in 0 .. MaxShares

ChannelsInit ==
  /\ minedQ = << >>
  /\ submitQ = << >>
  /\ eventQ = << >>
  /\ hasJob = FALSE
  /\ submitOpen = TRUE
  /\ found = 0

(* A thread finds a share.  In keepalive mode no thread is started, and    *)
(* without a job they are parked.                                          *)
Find ==
  /\ ~config.keepalive /\ hasJob
  /\ found < MaxShares
  /\ found' = found + 1
  /\ minedQ' = IF Len(minedQ) < MinedCap THEN Append(minedQ, found + 1) ELSE minedQ
  /\ UNCHANGED <<submitQ, eventQ, hasJob, submitOpen>>
=============================================================================
