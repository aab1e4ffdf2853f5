------------------------------ MODULE StratumClient ------------------------------
(***************************************************************************)
(* StratumClient::run (src/src/stratum/client.rs): connect, log in, and    *)
(* serve the session until it breaks; then try the next login profile, or  *)
(* report the loss, wait and start again.                                  *)
(*                                                                         *)
(* The pool is the environment: it may answer, announce jobs, stay silent  *)
(* or fail at any point, but answers only what was submitted on this       *)
(* connection.  Events wait in "outbox" until eventQ has room, and while   *)
(* one waits the client neither reads nor submits.  StratumClient::stop is *)
(* never called, so the shutdown branch of the session loops never fires.  *)
(***************************************************************************)
EXTENDS Channels, Transport

VARIABLES
  sPc,          \* where the client task stands
  profile,      \* index of the login profile in run_session
  outbox,       \* events the client is waiting to send
  outstanding,  \* submits written on this connection and not answered
  sent          \* history: shares written to the pool

clientVars == <<sPc, profile, outbox, outstanding, sent, linkVars>>

LastProfile == 3   \* Lite, XmrigCompat, Minimal

(* "ended": run has returned, "aborted": the controller has stopped it.    *)
ClientPositions == {"connect", "login", "session", "backoff", "ended", "aborted"}

ClientTypeOK ==
  /\ TransportTypeOK
  /\ sPc \in ClientPositions
  /\ profile \in 1 .. LastProfile
  /\ outbox \in Seq(Events)
  /\ Len(outbox) <= 2
  /\ outstanding \in 0 .. MaxShares
  /\ sent \in Seq(1 .. MaxShares)

ClientInit ==
  /\ SettingsInit /\ TransportInit
  /\ sPc = "connect"
  /\ profile = 1
  /\ outbox = << >>
  /\ outstanding = 0
  /\ sent = << >>

-----------------------------------------------------------------------------
(* event_tx.send(e).await                                                  *)
SendEvent ==
  /\ outbox # << >>
  /\ sPc \notin {"ended", "aborted"}
  /\ Len(eventQ) < EventCap
  /\ eventQ' = Append(eventQ, Head(outbox))
  /\ outbox' = Tail(outbox)
  /\ UNCHANGED <<minedQ, submitQ, hasJob, submitOpen, found, sPc, profile, outstanding, sent, linkVars>>

(* The client is at "where", with nothing left to send.                    *)
At(where) == sPc = where /\ outbox = << >>

(* run_session_with_profile: StratumTransport::connect at work.            *)
Connecting ==
  /\ At("connect")
  /\ TransportStep
  /\ UNCHANGED <<channelVars, sPc, profile, outbox, outstanding, sent>>

(* The connection stands and the login is written.                         *)
Connect ==
  /\ At("connect")
  /\ link.stage = "up"
  /\ sPc' = "login"
  /\ outstanding' = 0
  /\ UNCHANGED <<channelVars, profile, outbox, sent, linkVars>>

(* An error leaves run_session_with_profile.  run_session goes on to the   *)
(* next profile if is_login_retryable says so, wherever the error came     *)
(* from; otherwise run reports the loss and sleeps before it reconnects.   *)
(* Either way the transport is dropped.                                    *)
BreaksSilently(retryable) ==
  IF retryable /\ profile < LastProfile
  THEN /\ sPc' = "connect"
       /\ profile' = profile + 1
       /\ link' = Dialing("rustls")
       /\ UNCHANGED outbox
  ELSE /\ sPc' = "backoff"
       /\ profile' = 1
       /\ link' = Closed
       /\ UNCHANGED outbox
Breaks(retryable) ==
  IF retryable /\ profile < LastProfile
  THEN /\ sPc' = "connect"
       /\ profile' = profile + 1
       /\ link' = Dialing("rustls")
       /\ UNCHANGED outbox
  ELSE /\ sPc' = "backoff"
       /\ profile' = 1
       /\ link' = Closed
       /\ outbox' = <<"Disconnected">>

(* Connecting, writing the login, reading its answer or reading in the     *)
(* session fails; the login is refused or the pool hangs up on it.         *)
Break ==
  /\ At("connect") \/ At("login") \/ At("session")
  /\ MayFail
  /\ \E retryable \in BOOLEAN : Breaks(retryable)
  /\ outstanding' = 0
  /\ UNCHANGED <<channelVars, sent, config>>

(* The five seconds are over and the notice of the loss is in the queue.   *)
EndBackoffGivesUp ==
  /\ At("backoff")
  /\ sPc' = "ended"
  /\ UNCHANGED <<channelVars, profile, outbox, outstanding, sent, linkVars>>
EndBackoff ==
  /\ At("backoff")
  /\ sPc' = "connect"
  /\ link' = Dialing("rustls")
  /\ UNCHANGED <<channelVars, profile, outbox, outstanding, sent, config>>

-----------------------------------------------------------------------------
(* job_tx.send(job), then event_tx.send(NewJob).  A job that cannot be     *)
(* parsed or whose algorithm is not supported changes nothing.             *)
PublishJob ==
  /\ hasJob' = TRUE
  /\ UNCHANGED <<minedQ, submitQ, eventQ, submitOpen, found>>

(* The login is accepted, with or without a usable job in the answer.      *)
LoginOk ==
  /\ At("login")
  /\ sPc' = "session"
  /\ \/ PublishJob /\ outbox' = <<"NewJob", "Connected">>
     \/ UNCHANGED channelVars /\ outbox' = <<"Connected">>
  /\ UNCHANGED <<profile, outstanding, sent, linkVars>>

(* handle_msg on a job notification: before the answer to the login, or in *)
(* mining_loop.  keepalive_loop ignores what it reads.                     *)
HandleJob ==
  /\ At("login") \/ (At("session") /\ ~config.keepalive)
  /\ PublishJob
  /\ outbox' = <<"NewJob">>
  /\ UNCHANGED <<sPc, profile, outstanding, sent, linkVars>>

(* handle_msg on a message with an id: it counts as the answer to a submit. *)
HandleAnswerTwice(e) ==
  /\ At("session") /\ ~config.keepalive
  /\ outstanding > 0
  /\ outbox' = IF e = "Rejected" THEN <<"Accepted", "Rejected">> ELSE <<e>>
  /\ outstanding' = outstanding - 1
  /\ UNCHANGED <<channelVars, sPc, profile, sent, linkVars>>
HandleAnswer(e) ==
  /\ At("session") /\ ~config.keepalive
  /\ outstanding > 0
  /\ outbox' = <<e>>
  /\ outstanding' = outstanding - 1
  /\ UNCHANGED <<channelVars, sPc, profile, sent, linkVars>>

(* The submit branch of mining_loop, the write going through.              *)
Submit ==
  /\ At("session") /\ ~config.keepalive
  /\ submitQ # << >>
  /\ submitQ' = Tail(submitQ)
  /\ sent' = Append(sent, Head(submitQ))
  /\ outstanding' = outstanding + 1
  /\ UNCHANGED <<minedQ, eventQ, hasJob, submitOpen, found, sPc, profile, outbox, linkVars>>

(* The write or the flush fails: the share is gone with the connection --  *)
(* or has reached the pool all the same, when only the flush failed.       *)
SubmitBreaksRequeued ==
  /\ At("session") /\ ~config.keepalive
  /\ submitQ # << >>
  /\ submitQ' = Append(Tail(submitQ), Head(submitQ))
  /\ sent' \in {sent, Append(sent, Head(submitQ))}
  /\ \E retryable \in BOOLEAN : Breaks(retryable)
  /\ outstanding' = 0
  /\ UNCHANGED <<minedQ, eventQ, hasJob, submitOpen, found, config>>
SubmitBreaks ==
  /\ At("session") /\ ~config.keepalive
  /\ submitQ # << >>
  /\ submitQ' = Tail(submitQ)
  /\ sent' \in {sent, Append(sent, Head(submitQ))}
  /\ \E retryable \in BOOLEAN : Breaks(retryable)
  /\ outstanding' = 0
  /\ UNCHANGED <<minedQ, eventQ, hasJob, submitOpen, found, config>>

(* End of the stream in a session: the loop breaks, run_session returns Ok *)
(* and so does run.  The client is gone, and with it its ends of the       *)
(* channels.                                                               *)
PoolCloses ==
  /\ At("session")
  /\ sPc' = "ended"
  /\ submitQ' = << >>
  /\ submitOpen' = FALSE
  /\ outstanding' = 0
  /\ link' = Closed
  /\ UNCHANGED <<minedQ, eventQ, hasJob, found, profile, outbox, sent, config>>

(* stratum_handle.abort(), while the controller stops.                     *)
Abort ==
  /\ sPc' = IF sPc = "ended" THEN "ended" ELSE "aborted"
  /\ outbox' = << >>
  /\ outstanding' = 0
  /\ link' = Closed
  /\ UNCHANGED <<profile, sent, config>>
=============================================================================
