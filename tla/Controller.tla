-------------------------------- MODULE Controller --------------------------------
(***************************************************************************)
(* The select loop of Controller::run (src/src/controller.rs): it counts   *)
(* the pool's answers, follows whether the client is logged in, forwards   *)
(* the mined shares, and stops on Ctrl+C -- all one at a time, so that     *)
(* while it waits for room in the submit queue it does nothing else.       *)
(***************************************************************************)
EXTENDS Channels

VARIABLES
  cPc,        \* where the select loop stands
  pending,    \* the share being forwarded: << >> or one element
  loggedIn,   \* logged_in
  accepted,   \* stats.accepted
  rejected,   \* stats.rejected
  ctrlC       \* the signal task has seen Ctrl+C

controllerVars == <<cPc, pending, loggedIn, accepted, rejected, ctrlC>>

ControllerTypeOK ==
  /\ cPc \in {"select", "sending", "stopped"}
  /\ pending \in Seq(1 .. MaxShares)
  /\ Len(pending) = IF cPc = "sending" THEN 1 ELSE 0
  /\ loggedIn \in BOOLEAN
  /\ accepted \in 0 .. MaxShares
  /\ rejected \in 0 .. MaxShares
  /\ ctrlC \in BOOLEAN

ControllerInit ==
  /\ cPc = "select"
  /\ pending = << >>
  /\ loggedIn = FALSE
  /\ accepted = 0
  /\ rejected = 0
  /\ ctrlC = FALSE

(* tokio::signal::ctrl_c replaces the default handler, so the signal only  *)
(* sets a flag for the select loop.                                        *)
CtrlC ==
  /\ ~ctrlC
  /\ ctrlC' = TRUE
  /\ UNCHANGED <<channelVars, cPc, pending, loggedIn, accepted, rejected>>

(* The branch of the event channel, with its match.                        *)
HandleEvent ==
  /\ cPc = "select"
  /\ eventQ # << >>
  /\ eventQ' = Tail(eventQ)
  /\ LET e == Head(eventQ) IN
     /\ accepted' = accepted + (IF e = "Accepted" THEN 1 ELSE 0)
     /\ rejected' = rejected + (IF e = "Rejected" THEN 1 ELSE 0)
     /\ loggedIn' = CASE e = "Connected"    -> TRUE
                      [] e = "Disconnected" -> FALSE
                      [] OTHER              -> loggedIn
  /\ UNCHANGED <<minedQ, submitQ, hasJob, submitOpen, found, cPc, pending, ctrlC>>

(* The branch of the mined shares: from here the loop is inside            *)
(* submit_tx.send(share).await.                                            *)
TakeShare ==
  /\ cPc = "select"
  /\ minedQ # << >>
  /\ pending' = <<Head(minedQ)>>
  /\ minedQ' = Tail(minedQ)
  /\ cPc' = "sending"
  /\ UNCHANGED <<submitQ, eventQ, hasJob, submitOpen, found, loggedIn, accepted, rejected, ctrlC>>

(* There is room.                                                          *)
ForwardShare ==
  /\ cPc = "sending"
  /\ submitOpen
  /\ Len(submitQ) < SubmitCap
  /\ submitQ' = submitQ \o pending
  /\ pending' = << >>
  /\ cPc' = "select"
  /\ UNCHANGED <<minedQ, eventQ, hasJob, submitOpen, found, loggedIn, accepted, rejected, ctrlC>>

(* "submit queue closed": the client task has ended; the share is lost.    *)
LoseShare ==
  /\ cPc = "sending"
  /\ ~submitOpen
  /\ pending' = << >>
  /\ cPc' = "select"
  /\ UNCHANGED <<channelVars, loggedIn, accepted, rejected, ctrlC>>

(* The shutdown branch: leave the loop and abort the client; whatever is   *)
(* in the queues goes with their receivers.                                *)
StopWithoutBreak ==
  /\ cPc = "select"
  /\ ctrlC
  /\ UNCHANGED <<channelVars, controllerVars>>
Stop ==
  /\ cPc = "select"
  /\ ctrlC
  /\ cPc' = "stopped"
  /\ minedQ' = << >> /\ submitQ' = << >> /\ eventQ' = << >>
  /\ submitOpen' = FALSE
  /\ UNCHANGED <<hasJob, found, pending, loggedIn, accepted, rejected, ctrlC>>
=============================================================================
