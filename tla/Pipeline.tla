---------------------------------- MODULE Pipeline ----------------------------------
(***************************************************************************)
(* The mining threads, the controller and the stratum client together,     *)
(* over the channels of Controller::run.                                   *)
(***************************************************************************)
EXTENDS Controller, StratumClient, FiniteSets

vars == <<channelVars, controllerVars, clientVars>>

PipelineTypeOK == ChannelsTypeOK /\ ControllerTypeOK /\ ClientTypeOK

Init == ChannelsInit /\ ControllerInit /\ ClientInit

ThreadFinds    == Find /\ cPc # "stopped" /\ UNCHANGED <<controllerVars, clientVars>>
UserStops      == CtrlC /\ UNCHANGED clientVars
EventBranch    == HandleEvent /\ UNCHANGED clientVars
ShareBranch    == TakeShare /\ UNCHANGED clientVars
ShareForwarded == (ForwardShare \/ LoseShare) /\ UNCHANGED clientVars
ShutdownBranch == Stop /\ Abort

EventSent    == SendEvent /\ UNCHANGED controllerVars
SubmitBranch == Submit /\ UNCHANGED controllerVars
BackoffEnds  == EndBackoff /\ UNCHANGED controllerVars
PoolActs ==
  /\ \/ Connecting \/ Connect \/ Break \/ LoginOk \/ HandleJob \/ SubmitBreaks \/ PoolCloses
     \/ \E e \in {"Accepted", "Rejected"} : HandleAnswer(e)
  /\ UNCHANGED controllerVars

Next ==
  \/ ThreadFinds \/ UserStops
  \/ EventBranch \/ ShareBranch \/ ShareForwarded \/ ShutdownBranch
  \/ EventSent \/ SubmitBranch \/ BackoffEnds \/ PoolActs

Spec == Init /\ [][Next]_vars

(* A task that can go on is polled again (weak fairness); a branch of a    *)
(* tokio::select! that is ready again and again is taken some time, since  *)
(* select! starts with a random branch (strong fairness).  Nothing is      *)
(* assumed of the pool: connecting, logging in and answering may hang, as  *)
(* the client sets no timeouts.                                            *)
Fairness ==
  /\ SF_vars(EventBranch) /\ SF_vars(ShareBranch) /\ SF_vars(ShutdownBranch)
  /\ WF_vars(ShareForwarded)
  /\ WF_vars(EventSent) /\ WF_vars(BackoffEnds)
  /\ SF_vars(SubmitBranch)

FairSpec == Spec /\ Fairness

-----------------------------------------------------------------------------
AnswersIn(seq) == Cardinality({i \in DOMAIN seq : seq[i] \in {"Accepted", "Rejected"}})

(* The statistics never count an answer twice nor one to a share that was  *)
(* not submitted: what is counted, what is still on its way to be counted  *)
(* and what the pool still owes never exceed the shares written to it --   *)
(* although handle_msg does not look at the id it answers.                 *)
AnswersTally ==
  accepted + rejected + AnswersIn(eventQ) + AnswersIn(outbox) + outstanding <= Len(sent)

(* Once the controller has read all events, it counts the client as logged *)
(* in if it has a session, and otherwise only while the next login profile *)
(* is being tried or after the client has ended: a loss that is reported   *)
(* to nobody, as run sends Disconnected only when all profiles are used up *)
(* and nothing at the end of the stream.                                   *)
LoginKnown ==
  eventQ = << >> /\ outbox = << >> =>
    /\ sPc = "session" => loggedIn
    /\ loggedIn => sPc \in {"session", "ended", "aborted"} \/ profile > 1

(* The shares reach the pool in the order they were found, none twice and  *)
(* none invented, across the two queues, reconnections and shutdown.       *)
Delivery ==
  INSTANCE ShareDelivery WITH
    queue <- submitQ \o pending \o minedQ,
    lastFound <- found,
    delivered <- sent
SharesDelivered == Delivery!DeliverySpec

(* Both tasks wait for the other: the controller for room in the submit    *)
(* queue, the client for room in the event queue.                          *)
WaitForEachOther ==
  /\ cPc = "sending" /\ submitOpen /\ Len(submitQ) = SubmitCap
  /\ outbox # << >> /\ Len(eventQ) = EventCap

(* Ctrl+C stops the program unless the controller hangs for ever, waiting  *)
(* for room in the submit queue.                                           *)
StopsUnlessQueueFull ==
  <>ctrlC => \/ <>(cPc = "stopped")
             \/ <>[](cPc = "sending" /\ Len(submitQ) = SubmitCap)

(* "received Ctrl+C, shutting down...": the program then shuts down.       *)
StopsOnCtrlC == ctrlC ~> cPc = "stopped"

(* "pool connection error: ..., reconnecting in 5s...": a connection lost  *)
(* to an error is followed by a new attempt, unless the program stops or   *)
(* the two tasks wait for each other.                                      *)
ReconnectsUnlessStuck ==
  sPc = "backoff" ~> (sPc \in {"connect", "aborted"} \/ WaitForEachOther)

(* A session -- login included -- runs only over a connection whose        *)
(* certificate has the fingerprint configured, whichever library made it   *)
(* and after whatever failures, and never with a malformed fingerprint.    *)
InSession == sPc \in {"login", "session"}
PinnedCertificate ==
  InSession /\ config.tls /\ config.pin # NoCert => link.cert = config.pin

(* It runs over the connection that was configured: through the proxy if   *)
(* there is one, encrypted if TLS is on, in a version that is allowed, and *)
(* with nothing of the proxy's reply left for the reader of the login.     *)
LinkAsConfigured ==
  InSession =>
    /\ link.stage = "up"
    /\ link.proxied = config.proxy
    /\ link.version \in IF config.tls THEN Offered ELSE {NoVersion}
    /\ link.unread = 0
=============================================================================
