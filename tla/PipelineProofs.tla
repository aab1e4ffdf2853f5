------------------------------- MODULE PipelineProofs -------------------------------
(***************************************************************************)
(* Proofs about Pipeline, for queues of any capacity, any number of shares *)
(* and any set of configurations and certificates.                         *)
(***************************************************************************)
EXTENDS Pipeline, SequenceTheorems, FiniteSetTheorems, FunctionTheorems, TLAPS

-----------------------------------------------------------------------------
(* The connection.  What a session promises holds of a connection that is  *)
(* up; on the way there, the proxy and TLS are those of the configuration, *)
(* and no version has been agreed on before a handshake.                   *)
LinkInv ==
  /\ TransportTypeOK
  /\ link.unread = 0
  /\ link.stage \in {"socks", "rustls", "openssl", "up"} => link.proxied = config.proxy
  /\ link.stage \in {"rustls", "openssl"} => config.tls
  /\ link.stage \in {"dial", "socks"} => link.version = NoVersion
  /\ link.stage = "up" =>
       /\ link.version \in IF config.tls THEN Offered ELSE {NoVersion}
       /\ config.tls /\ config.pin # NoCert => link.cert = config.pin
  /\ InSession => link.stage = "up"

(* A new connection and a closed one satisfy it.                           *)
LEMMA FreshLink ==
  ASSUME config' = config, config \in Configs, ~InSession',
         link' \in {Dialing("rustls"), Dialing("openssl"), Closed}
  PROVE  LinkInv'
<1>1. PICK stage \in {"dial", "closed"}, library \in {"rustls", "openssl"} :
        link' = Unconnected(stage, library)
  BY DEF Dialing, Closed
<1>2. TransportTypeOK'
  BY <1>1 DEF Unconnected, TransportTypeOK
<1>3. link'.unread = 0 /\ link'.version = NoVersion /\ link'.stage \in {"dial", "closed"}
  BY <1>1 DEF Unconnected
<1> QED
  BY <1>2, <1>3 DEF LinkInv

(* Whatever the proxy's reply, all of it is read.                          *)
LEMMA ReplyIsRead ==
  ASSUME NEW type \in {"v4", "v6", "name"}, NEW n \in 0 .. MaxName
  PROVE  ReplySize(type, n) - ReadOfReply(type, n) = 0
<1>0. n \in Int
  BY TransportAssumption
<1>1. CASE type = "v4"
  BY <1>1 DEF ReplySize, ReadOfReply
<1>2. CASE type = "v6"
  BY <1>2 DEF ReplySize, ReadOfReply
<1>3. CASE type = "name"
  BY <1>0, <1>3 DEF ReplySize, ReadOfReply
<1> QED
  BY <1>1, <1>2, <1>3

(* Each step towards a connection keeps it.                                *)
LEMMA ConnectingKeepsLink ==
  ASSUME LinkInv, TransportStep, ~InSession'
  PROVE  LinkInv'
<1> USE DEF LinkInv, TransportTypeOK, Offered, Versions, NoVersion
<1>0. config.proxy \in BOOLEAN /\ config.tls \in BOOLEAN
  BY SettingsAssumption
<1>1. CASE Dial
  <2>1. CASE config.proxy
    BY <1>0, <1>1, <2>1 DEF Dial, UsesProxy
  <2>2. CASE ~config.proxy
    BY <1>0, <1>1, <2>2 DEF Dial, UsesProxy, AfterTcp
  <2> QED BY <2>1, <2>2
<1>2. ASSUME NEW type \in {"v4", "v6", "name"}, NEW n \in 0 .. MaxName, SocksConnect(type, n)
      PROVE  LinkInv'
  BY <1>2, ReplyIsRead DEF SocksConnect, AfterTcp
<1>3. ASSUME NEW c \in Certs, NEW v \in Versions, Rustls(c, v)
      PROVE  LinkInv'
  BY <1>3 DEF Rustls, RustlsAccepts
<1>4. ASSUME NEW c \in Certs, NEW v \in Versions, OpenSsl(c, v)
      PROVE  LinkInv'
  BY <1>4 DEF OpenSsl, OpenSslAccepts
<1>5. CASE RustlsFails
  BY <1>5, FreshLink DEF RustlsFails
<1> QED
  BY <1>1, <1>2, <1>3, <1>4, <1>5 DEF TransportStep

LEMMA LinkStep == LinkInv /\ [Next]_vars => LinkInv'
<1> SUFFICES ASSUME LinkInv, [Next]_vars PROVE LinkInv'
  OBVIOUS
<1>0. config \in Configs
  BY DEF LinkInv, TransportTypeOK
<1>1. CASE UNCHANGED <<sPc, linkVars>>
  BY <1>1 DEF LinkInv, TransportTypeOK, linkVars, InSession, Offered
<1>2. CASE ShutdownBranch
  <2>1. ~InSession' /\ link' = Closed /\ config' = config
    BY <1>2 DEF ShutdownBranch, Abort, InSession
  <2> QED BY <1>0, <2>1, FreshLink
<1>3. CASE BackoffEnds
  <2>1. ~InSession' /\ link' = Dialing("rustls") /\ config' = config
    BY <1>3 DEF BackoffEnds, EndBackoff, InSession
  <2> QED BY <1>0, <2>1, FreshLink
<1>4. CASE Connecting
  <2>1. ~InSession'
    BY <1>4 DEF Connecting, At, InSession
  <2> QED BY <1>4, <2>1, ConnectingKeepsLink DEF Connecting
<1>5. CASE Connect
  BY <1>5 DEF Connect, At, linkVars, LinkInv, TransportTypeOK, InSession, Offered
<1>6. CASE Break \/ SubmitBreaks
  <2>1. PICK retryable \in BOOLEAN : Breaks(retryable)
    BY <1>6 DEF Break, SubmitBreaks
  <2>2. ~InSession' /\ link' \in {Dialing("rustls"), Closed} /\ config' = config
    BY <1>6, <2>1 DEF Break, SubmitBreaks, Breaks, InSession
  <2> QED BY <1>0, <2>2, FreshLink
<1>7. CASE LoginOk
  BY <1>7 DEF LoginOk, At, linkVars, LinkInv, TransportTypeOK, InSession, Offered
<1>8. CASE PoolCloses
  <2>1. ~InSession' /\ link' = Closed /\ config' = config
    BY <1>8 DEF PoolCloses, InSession
  <2> QED BY <1>0, <2>1, FreshLink
<1>9. CASE ThreadFinds \/ UserStops \/ EventBranch \/ ShareBranch \/ ShareForwarded
  BY <1>1, <1>9 DEF ThreadFinds, UserStops, EventBranch, ShareBranch, ShareForwarded, clientVars
<1>10. CASE EventSent \/ SubmitBranch
  BY <1>1, <1>10 DEF EventSent, SendEvent, SubmitBranch, Submit
<1>11. CASE HandleJob \/ \E e \in {"Accepted", "Rejected"} : HandleAnswer(e)
  BY <1>1, <1>11 DEF HandleJob, HandleAnswer
<1>12. CASE UNCHANGED vars
  BY <1>1, <1>12 DEF vars, clientVars
<1> QED
  BY <1>2, <1>3, <1>4, <1>5, <1>6, <1>7, <1>8, <1>9, <1>10, <1>11, <1>12 DEF Next, PoolActs

LEMMA LinkCorrect == Spec => []LinkInv
<1>1. Init => LinkInv
  BY DEF Init, ClientInit, SettingsInit, TransportInit, LinkInv, TransportTypeOK, Dialing,
         Unconnected, NoVersion, InSession
<1> QED BY <1>1, LinkStep, PTL DEF Spec

(* Once a fingerprint is configured, no login is sent over a connection    *)
(* with another certificate, by whichever of the two libraries and after   *)
(* however many failures.                                                  *)
THEOREM FingerprintHolds == Spec => []PinnedCertificate
<1>1. LinkInv => PinnedCertificate
  BY DEF LinkInv, PinnedCertificate
<1> QED BY <1>1, LinkCorrect, PTL

(* A session runs through the proxy that was configured, in a version of   *)
(* TLS that is allowed, and reads from the first byte the pool sends.      *)
THEOREM SessionsAsConfigured == Spec => []LinkAsConfigured
<1>1. LinkInv => LinkAsConfigured
  BY DEF LinkInv, LinkAsConfigured
<1> QED BY <1>1, LinkCorrect, PTL

-----------------------------------------------------------------------------
(* Counting the answers in a queue of events.                              *)
IsAnswer(e) == IF e \in {"Accepted", "Rejected"} THEN 1 ELSE 0

LEMMA AnswersNone == AnswersIn(<< >>) = 0
<1>1. {i \in DOMAIN << >> : << >>[i] \in {"Accepted", "Rejected"}} = {}
  OBVIOUS
<1> QED BY <1>1, FS_EmptySet DEF AnswersIn

LEMMA AnswersFinite ==
  ASSUME NEW q \in Seq(Events)
  PROVE  /\ IsFiniteSet({i \in DOMAIN q : q[i] \in {"Accepted", "Rejected"}})
         /\ AnswersIn(q) \in Nat
<1> DEFINE A == {i \in DOMAIN q : q[i] \in {"Accepted", "Rejected"}}
<1>1. DOMAIN q = 1 .. Len(q) /\ Len(q) \in Nat
  OBVIOUS
<1>2. IsFiniteSet(1 .. Len(q))
  BY <1>1, FS_Interval
<1>3. A \in SUBSET (1 .. Len(q))
  BY <1>1
<1>4. IsFiniteSet(A)
  BY <1>2, <1>3, FS_Subset
<1> QED BY <1>4, FS_CardinalityType DEF AnswersIn

LEMMA AnswersAppend ==
  ASSUME NEW q \in Seq(Events), NEW e \in Events
  PROVE  AnswersIn(Append(q, e)) = AnswersIn(q) + IsAnswer(e)
<1> DEFINE A == {i \in DOMAIN q : q[i] \in {"Accepted", "Rejected"}}
           B == {i \in DOMAIN Append(q, e) : Append(q, e)[i] \in {"Accepted", "Rejected"}}
<1>1. DOMAIN q = 1 .. Len(q) /\ Len(q) \in Nat /\ DOMAIN Append(q, e) = 1 .. Len(q) + 1
  OBVIOUS
<1>2. \A i \in 1 .. Len(q) + 1 : Append(q, e)[i] = IF i = Len(q) + 1 THEN e ELSE q[i]
  OBVIOUS
<1>3. IsFiniteSet(A) /\ AnswersIn(q) = Cardinality(A) /\ Cardinality(A) \in Nat
  BY AnswersFinite DEF AnswersIn
<1>4. AnswersIn(Append(q, e)) = Cardinality(B)
  BY DEF AnswersIn
<1>5. Len(q) + 1 \notin A
  BY <1>1
<1> HIDE DEF A, B
<1>6. CASE e \in {"Accepted", "Rejected"}
  <2>1. B = A \cup {Len(q) + 1}
    BY <1>1, <1>2, <1>6 DEF A, B
  <2>2. Cardinality(B) = Cardinality(A) + 1
    BY <1>3, <1>5, <2>1, FS_AddElement
  <2> QED BY <1>3, <1>4, <1>6, <2>2 DEF IsAnswer
<1>7. CASE e \notin {"Accepted", "Rejected"}
  <2>1. B = A
    BY <1>1, <1>2, <1>7 DEF A, B
  <2> QED BY <1>3, <1>4, <1>7, <2>1 DEF IsAnswer
<1> QED BY <1>6, <1>7

LEMMA AnswersTail ==
  ASSUME NEW q \in Seq(Events), q # << >>
  PROVE  AnswersIn(q) = IsAnswer(Head(q)) + AnswersIn(Tail(q))
<1> DEFINE A == {i \in DOMAIN q : q[i] \in {"Accepted", "Rejected"}}
           B == {i \in DOMAIN Tail(q) : Tail(q)[i] \in {"Accepted", "Rejected"}}
           f == [i \in B |-> i + 1]
<1>1. /\ DOMAIN q = 1 .. Len(q) /\ Len(q) \in Nat \ {0}
      /\ Tail(q) \in Seq(Events)
      /\ DOMAIN Tail(q) = 1 .. Len(q) - 1
      /\ \A i \in 1 .. Len(q) - 1 : Tail(q)[i] = q[i + 1]
      /\ Head(q) = q[1]
  BY HeadTailProperties
<1>2. IsFiniteSet(A) /\ AnswersIn(q) = Cardinality(A) /\ Cardinality(A) \in Nat
  BY AnswersFinite DEF AnswersIn
<1>3. IsFiniteSet(B) /\ AnswersIn(Tail(q)) = Cardinality(B) /\ Cardinality(B) \in Nat
  BY <1>1, AnswersFinite DEF AnswersIn
<1> HIDE DEF A, B, f
<1>4. IsFiniteSet(A \ {1}) /\ Cardinality(A \ {1}) = Cardinality(A) - IsAnswer(Head(q))
  <2>1. Cardinality(A \ {1}) = IF 1 \in A THEN Cardinality(A) - 1 ELSE Cardinality(A)
    BY <1>2, FS_RemoveElement
  <2>2. 1 \in A <=> Head(q) \in {"Accepted", "Rejected"}
    BY <1>1 DEF A
  <2>3. IsFiniteSet(A \ {1})
    BY <1>2, FS_RemoveElement
  <2> QED BY <1>2, <2>1, <2>2, <2>3 DEF IsAnswer
<1>5. f \in Bijection(B, A \ {1})
  <2>1. \A i \in B : i \in 1 .. Len(q) - 1 /\ i + 1 \in A /\ i + 1 # 1
    BY <1>1 DEF A, B
  <2>2. f \in [B -> A \ {1}]
    BY <2>1 DEF f
  <2>3. \A i, j \in B : f[i] = f[j] => i = j
    BY <2>1 DEF f
  <2>4. \A k \in A \ {1} : k - 1 \in B /\ f[k - 1] = k
    BY <1>1 DEF A, B, f
  <2> QED BY <2>2, <2>3, <2>4, Fun_IsBij
<1>6. Cardinality(A \ {1}) = Cardinality(B)
  BY <1>3, <1>5, FS_Bijection DEF ExistsBijection
<1> QED BY <1>2, <1>3, <1>4, <1>6 DEF IsAnswer

-----------------------------------------------------------------------------
(* The path of the shares: each is in one place, so that there are no more *)
(* of them on the way and delivered than were found; and an answer that is *)
(* counted belongs to one that was delivered.  The counters keep within    *)
(* their bound for that reason only.                                       *)
EachInOnePlace == Len(sent) + Len(submitQ) + Len(pending) + Len(minedQ) <= found

SessionTypeOK ==
  /\ sPc \in ClientPositions
  /\ profile \in 1 .. LastProfile
  /\ outbox \in Seq(Events)
  /\ Len(outbox) <= 2
  /\ outstanding \in 0 .. MaxShares
  /\ sent \in Seq(1 .. MaxShares)

ClosedIsEmpty == ~submitOpen => submitQ = << >>

PathInv ==
  /\ ChannelsTypeOK
  /\ ControllerTypeOK
  /\ SessionTypeOK
  /\ AnswersTally
  /\ EachInOnePlace
  /\ ClosedIsEmpty

LEMMA PathInit == Init => PathInv
<1> SUFFICES ASSUME Init PROVE PathInv
  OBVIOUS
<1>1. ChannelsTypeOK
  <2>1. hasJob \in BOOLEAN /\ submitOpen \in BOOLEAN
    BY Zenon DEF Init, ChannelsInit
  <2> QED BY <2>1, ChannelsAssumption DEF Init, ChannelsInit, ChannelsTypeOK
<1>2. ControllerTypeOK
  <2>1. loggedIn \in BOOLEAN /\ ctrlC \in BOOLEAN
    BY Zenon DEF Init, ControllerInit
  <2> QED BY <2>1, ChannelsAssumption DEF Init, ControllerInit, ControllerTypeOK
<1>3. SessionTypeOK
  BY EmptySeq, ChannelsAssumption DEF Init, ClientInit, SessionTypeOK, ClientPositions, LastProfile
<1>4. AnswersTally
  BY AnswersNone, EmptySeq DEF Init, ChannelsInit, ControllerInit, ClientInit, AnswersTally
<1>5. EachInOnePlace /\ ClosedIsEmpty
  BY EmptySeq DEF Init, ChannelsInit, ControllerInit, ClientInit, EachInOnePlace, ClosedIsEmpty
<1> QED BY <1>1, <1>2, <1>3, <1>4, <1>5 DEF PathInv

(* The facts about the state that the steps below start from.              *)
LEMMA PathSequences ==
  ASSUME PathInv
  PROVE  /\ minedQ \in Seq(1 .. MaxShares) /\ submitQ \in Seq(1 .. MaxShares)
         /\ pending \in Seq(1 .. MaxShares) /\ sent \in Seq(1 .. MaxShares)
         /\ eventQ \in Seq(Events) /\ outbox \in Seq(Events)
BY DEF PathInv, ChannelsTypeOK, ControllerTypeOK, SessionTypeOK

Numbers ==
  /\ AnswersIn(eventQ) \in Nat /\ AnswersIn(outbox) \in Nat
  /\ Len(sent) \in Nat /\ Len(submitQ) \in Nat /\ Len(pending) \in Nat /\ Len(minedQ) \in Nat
  /\ Len(eventQ) \in Nat /\ Len(outbox) \in Nat
  /\ found \in Nat /\ accepted \in Nat /\ rejected \in Nat /\ outstanding \in Nat
  /\ found <= MaxShares /\ MaxShares \in Nat
  /\ accepted + rejected + AnswersIn(eventQ) + AnswersIn(outbox) + outstanding <= Len(sent)
  /\ Len(sent) + Len(submitQ) + Len(pending) + Len(minedQ) <= found

LEMMA PathNumbers ==
  ASSUME PathInv
  PROVE  Numbers
<1>1. AnswersIn(eventQ) \in Nat /\ AnswersIn(outbox) \in Nat
  BY PathSequences, AnswersFinite
<1>2. found \in 0 .. MaxShares /\ MaxShares \in Nat
  BY ChannelsAssumption DEF PathInv, ChannelsTypeOK
<1>3. accepted \in 0 .. MaxShares /\ rejected \in 0 .. MaxShares
  BY DEF PathInv, ControllerTypeOK
<1>4. outstanding \in 0 .. MaxShares
  BY DEF PathInv, SessionTypeOK
<1>5. /\ Len(sent) \in Nat /\ Len(submitQ) \in Nat /\ Len(pending) \in Nat /\ Len(minedQ) \in Nat
      /\ Len(eventQ) \in Nat /\ Len(outbox) \in Nat
  BY PathSequences, LenProperties
<1>6. /\ accepted + rejected + AnswersIn(eventQ) + AnswersIn(outbox) + outstanding <= Len(sent)
      /\ Len(sent) + Len(submitQ) + Len(pending) + Len(minedQ) <= found
  BY DEF PathInv, AnswersTally, EachInOnePlace
<1> QED BY <1>1, <1>2, <1>3, <1>4, <1>5, <1>6 DEF Numbers

(* The threads and the controller, whose steps leave the client alone.     *)
LEMMA ControllerKeepsPath ==
  ASSUME PathInv, UNCHANGED clientVars,
         ThreadFinds \/ UserStops \/ EventBranch \/ ShareBranch \/ ShareForwarded
  PROVE  PathInv'
<1>n. Numbers
  BY PathNumbers
<1>0. SessionTypeOK' /\ sent' = sent /\ outbox' = outbox /\ outstanding' = outstanding
  BY DEF clientVars, PathInv, SessionTypeOK
<1>1. CASE ThreadFinds
  <2>1. /\ ControllerTypeOK' /\ AnswersTally' /\ ClosedIsEmpty'
        /\ submitQ' = submitQ /\ eventQ' = eventQ /\ pending' = pending
        /\ hasJob' = hasJob /\ submitOpen' = submitOpen
    BY <1>0, <1>1
       DEF PathInv, ThreadFinds, Find, controllerVars, ControllerTypeOK, AnswersTally, ClosedIsEmpty
  <2>2. /\ found' = found + 1 /\ found' \in 0 .. MaxShares /\ found + 1 \in 1 .. MaxShares
        /\ minedQ' = IF Len(minedQ) < MinedCap THEN Append(minedQ, found + 1) ELSE minedQ
    BY <1>1, <1>n DEF ThreadFinds, Find, Numbers
  <2>3. /\ minedQ' \in Seq(1 .. MaxShares) /\ Len(minedQ') \in Nat
        /\ Len(minedQ') <= MinedCap /\ Len(minedQ') <= Len(minedQ) + 1
    <3>1. Len(minedQ) <= MinedCap /\ Len(minedQ) \in Nat /\ MinedCap \in Nat
      BY <1>n, ChannelsAssumption DEF PathInv, ChannelsTypeOK, Numbers
    <3>2. CASE Len(minedQ) < MinedCap
      <4>1. minedQ' \in Seq(1 .. MaxShares) /\ Len(minedQ') = Len(minedQ) + 1
        BY <2>2, <3>2, PathSequences, AppendProperties
      <4> QED BY <3>1, <3>2, <4>1
    <3>3. CASE ~(Len(minedQ) < MinedCap)
      BY <2>2, <3>1, <3>3, PathSequences
    <3> QED BY <3>2, <3>3
  <2>4. ChannelsTypeOK'
    BY <2>1, <2>2, <2>3 DEF PathInv, ChannelsTypeOK
  <2>5. EachInOnePlace'
    <3>1. Len(sent') = Len(sent) /\ Len(submitQ') = Len(submitQ) /\ Len(pending') = Len(pending)
      BY <1>0, <2>1
    <3>2. found' = found + 1
      BY <2>2
    <3>3. Len(sent') + Len(submitQ') + Len(pending') + Len(minedQ') <= found'
      BY <2>3, <3>1, <3>2, <1>n DEF Numbers
    <3> QED BY <3>3 DEF EachInOnePlace
  <2> QED BY <1>0, <2>1, <2>4, <2>5 DEF PathInv
<1>2. CASE UserStops
  <2>1. UNCHANGED <<minedQ, submitQ, eventQ, hasJob, submitOpen, found, cPc, pending, loggedIn, accepted,
                    rejected>> /\ ctrlC' = TRUE
    BY <1>2 DEF UserStops, CtrlC, channelVars
  <2> QED BY <1>0, <2>1
         DEF PathInv, ChannelsTypeOK, ControllerTypeOK, AnswersTally, EachInOnePlace, ClosedIsEmpty
<1>3. CASE EventBranch
  <2>1. /\ eventQ # << >> /\ eventQ' = Tail(eventQ)
        /\ accepted' = accepted + (IF Head(eventQ) = "Accepted" THEN 1 ELSE 0)
        /\ rejected' = rejected + (IF Head(eventQ) = "Rejected" THEN 1 ELSE 0)
        /\ UNCHANGED <<minedQ, submitQ, hasJob, submitOpen, found, cPc, pending, ctrlC>>
    BY <1>3 DEF EventBranch, HandleEvent
  <2>2. loggedIn' \in BOOLEAN
    <3>1. loggedIn \in BOOLEAN
      BY DEF PathInv, ControllerTypeOK
    <3>2. CASE Head(eventQ) = "Connected"
      BY <1>3, <3>2 DEF EventBranch, HandleEvent
    <3>3. CASE Head(eventQ) = "Disconnected"
      BY <1>3, <3>3 DEF EventBranch, HandleEvent
    <3>4. CASE Head(eventQ) \notin {"Connected", "Disconnected"}
      BY <1>3, <3>1, <3>4 DEF EventBranch, HandleEvent
    <3> QED BY <3>2, <3>3, <3>4
  <2>3. /\ eventQ' \in Seq(Events) /\ Len(eventQ') = Len(eventQ) - 1
    BY <2>1, PathSequences, HeadTailProperties
  <2>4. /\ AnswersIn(eventQ') \in Nat
        /\ AnswersIn(eventQ) = IsAnswer(Head(eventQ)) + AnswersIn(eventQ')
    BY <2>1, <2>3, PathSequences, AnswersTail, AnswersFinite
  <2>5. /\ accepted' \in Nat /\ rejected' \in Nat /\ IsAnswer(Head(eventQ)) \in Nat
        /\ accepted' + rejected' = accepted + rejected + IsAnswer(Head(eventQ))
    BY <2>1, <1>n DEF IsAnswer, Numbers
  <2>6. accepted' + rejected' + AnswersIn(eventQ') + AnswersIn(outbox) + outstanding <= Len(sent)
    BY <1>n, <2>5, <2>4, SMTT(60) DEF Numbers
  <2>6a. accepted' <= Len(sent) /\ rejected' <= Len(sent)
    <3>1. PICK a \in Nat, r \in Nat, q \in Nat, o \in Nat, u \in Nat, n \in Nat :
            /\ a = accepted' /\ r = rejected' /\ q = AnswersIn(eventQ')
            /\ o = AnswersIn(outbox) /\ u = outstanding /\ n = Len(sent)
      BY <1>n, <2>4, <2>5 DEF Numbers
    <3>2. a + r + q + o + u <= n
      BY <2>6, <3>1
    <3>3. a <= n /\ r <= n
      BY <3>2
    <3> QED BY <3>1, <3>3
  <2>7. AnswersTally'
    <3>1. Len(sent') = Len(sent) /\ AnswersIn(outbox') = AnswersIn(outbox)
      BY <1>0
    <3> QED BY <1>0, <2>6, <3>1 DEF AnswersTally
  <2>8. EachInOnePlace' /\ ClosedIsEmpty'
    BY <1>0, <2>1 DEF PathInv, EachInOnePlace, ClosedIsEmpty
  <2>9. ChannelsTypeOK'
    BY <2>1, <2>3, <1>n, ChannelsAssumption DEF PathInv, ChannelsTypeOK, Numbers
  <2>10. accepted' \in 0 .. MaxShares /\ rejected' \in 0 .. MaxShares
    <3>1. Len(sent) <= MaxShares
      BY <1>n DEF Numbers
    <3>2. MaxShares \in Nat /\ Len(sent) \in Nat
      BY <1>n DEF Numbers
    <3> QED BY <2>5, <2>6a, <3>1, <3>2
  <2>11. ControllerTypeOK'
    BY <2>1, <2>2, <2>10 DEF PathInv, ControllerTypeOK
  <2> QED BY <1>0, <2>7, <2>8, <2>9, <2>11 DEF PathInv
<1>4. CASE ShareBranch
  <2>1. /\ minedQ # << >> /\ pending' = <<Head(minedQ)>> /\ minedQ' = Tail(minedQ)
        /\ cPc = "select" /\ cPc' = "sending"
        /\ UNCHANGED <<submitQ, eventQ, hasJob, submitOpen, found, loggedIn, accepted, rejected, ctrlC>>
    BY <1>4 DEF ShareBranch, TakeShare
  <2>2. /\ minedQ' \in Seq(1 .. MaxShares) /\ Len(minedQ') = Len(minedQ) - 1
        /\ pending' \in Seq(1 .. MaxShares) /\ Len(pending') = 1
    <3>1. minedQ \in Seq(1 .. MaxShares)
      BY PathSequences
    <3>2. Head(minedQ) \in 1 .. MaxShares /\ Tail(minedQ) \in Seq(1 .. MaxShares)
          /\ Len(Tail(minedQ)) = Len(minedQ) - 1
      BY <2>1, <3>1, HeadTailProperties
    <3> QED BY <2>1, <3>2
  <2>3. Len(pending) = 0
    BY <2>1 DEF PathInv, ControllerTypeOK
  <2>4. ChannelsTypeOK' /\ ControllerTypeOK'
    BY <2>1, <2>2, <1>n, ChannelsAssumption DEF PathInv, ChannelsTypeOK, ControllerTypeOK, Numbers
  <2>5. AnswersTally' /\ ClosedIsEmpty'
    BY <1>0, <2>1 DEF PathInv, AnswersTally, ClosedIsEmpty
  <2>6. EachInOnePlace'
    <3>1. Len(sent') = Len(sent) /\ Len(submitQ') = Len(submitQ) /\ found' = found
      BY <1>0, <2>1
    <3>2. Len(sent') + Len(submitQ') + Len(pending') + Len(minedQ') <= found'
      BY <2>2, <2>3, <3>1, <1>n DEF Numbers
    <3> QED BY <3>2 DEF EachInOnePlace
  <2> QED BY <1>0, <2>4, <2>5, <2>6 DEF PathInv
<1>5. CASE ShareForwarded
  <2>1. /\ pending' = << >> /\ cPc = "sending" /\ cPc' = "select"
        /\ pending' \in Seq(1 .. MaxShares) /\ Len(pending') = 0
        /\ UNCHANGED <<minedQ, eventQ, hasJob, submitOpen, found, loggedIn, accepted, rejected, ctrlC>>
    BY <1>5, EmptySeq DEF ShareForwarded, ForwardShare, LoseShare, channelVars
  <2>2. Len(pending) = 1
    BY <2>1 DEF PathInv, ControllerTypeOK
  <2>3. \/ submitQ' = submitQ
        \/ submitQ' = submitQ \o pending /\ Len(submitQ) < SubmitCap /\ submitOpen
    BY <1>5 DEF ShareForwarded, ForwardShare, LoseShare, channelVars
  <2>4. /\ submitQ' \in Seq(1 .. MaxShares)
        /\ Len(submitQ') <= Len(submitQ) + 1 /\ Len(submitQ') <= SubmitCap /\ Len(submitQ') \in Nat
    <3>1. Len(submitQ) <= SubmitCap /\ Len(submitQ) \in Nat /\ SubmitCap \in Nat
      BY <1>n, ChannelsAssumption DEF PathInv, ChannelsTypeOK, Numbers
    <3>2. CASE submitQ' = submitQ
      BY <3>1, <3>2, PathSequences
    <3>3. CASE submitQ' = submitQ \o pending /\ Len(submitQ) < SubmitCap
      <4>1. submitQ' \in Seq(1 .. MaxShares) /\ Len(submitQ') = Len(submitQ) + Len(pending)
        BY <3>3, PathSequences, ConcatProperties
      <4> QED BY <2>2, <3>1, <3>3, <4>1
    <3> QED BY <2>3, <3>2, <3>3
  <2>5. ChannelsTypeOK' /\ ControllerTypeOK'
    BY <2>1, <2>4 DEF PathInv, ChannelsTypeOK, ControllerTypeOK
  <2>6. EachInOnePlace'
    <3>1. Len(sent') = Len(sent) /\ Len(minedQ') = Len(minedQ) /\ Len(pending') = 0 /\ found' = found
      BY <1>0, <2>1
    <3>2. Len(sent') + Len(submitQ') + Len(pending') + Len(minedQ') <= found'
      BY <2>2, <2>4, <3>1, <1>n DEF Numbers
    <3> QED BY <3>2 DEF EachInOnePlace
  <2>7. AnswersTally'
    BY <1>0, <2>1 DEF PathInv, AnswersTally
  <2>8. ClosedIsEmpty'
    BY <2>1, <2>3 DEF PathInv, ClosedIsEmpty
  <2> QED BY <1>0, <2>5, <2>6, <2>7, <2>8 DEF PathInv
<1> QED BY <1>1, <1>2, <1>3, <1>4, <1>5
(* The tally and the places after a step of the client, from what it did   *)
(* to each number.                                                         *)
LEMMA TallyKept ==
  ASSUME Numbers, UNCHANGED <<accepted, rejected>>,
         AnswersIn(eventQ') \in Nat, AnswersIn(outbox') \in Nat, outstanding' \in Nat, Len(sent') \in Nat,
         AnswersIn(eventQ') + AnswersIn(outbox') + outstanding' + Len(sent)
           <= AnswersIn(eventQ) + AnswersIn(outbox) + outstanding + Len(sent')
  PROVE  AnswersTally'
<1>1. PICK a \in Nat, r \in Nat, q \in Nat, o \in Nat, u \in Nat, n \in Nat,
           q2 \in Nat, o2 \in Nat, u2 \in Nat, n2 \in Nat :
        /\ a = accepted /\ r = rejected
        /\ q = AnswersIn(eventQ) /\ o = AnswersIn(outbox) /\ u = outstanding /\ n = Len(sent)
        /\ q2 = AnswersIn(eventQ') /\ o2 = AnswersIn(outbox') /\ u2 = outstanding' /\ n2 = Len(sent')
  BY DEF Numbers
<1>2. a + r + q + o + u <= n /\ q2 + o2 + u2 + n <= q + o + u + n2
  BY <1>1 DEF Numbers
<1>3. a + r + q2 + o2 + u2 <= n2
  BY <1>2
<1>4. accepted' = a /\ rejected' = r
  BY <1>1
<1> QED BY <1>1, <1>3, <1>4 DEF AnswersTally

LEMMA PlacesKept ==
  ASSUME Numbers, UNCHANGED <<minedQ, pending, found>>,
         Len(sent') \in Nat, Len(submitQ') \in Nat,
         Len(sent') + Len(submitQ') <= Len(sent) + Len(submitQ)
  PROVE  EachInOnePlace' /\ Len(sent') <= MaxShares
<1>1. PICK n \in Nat, s \in Nat, p \in Nat, m \in Nat, n2 \in Nat, s2 \in Nat, f \in Nat, k \in Nat :
        /\ n = Len(sent) /\ s = Len(submitQ) /\ p = Len(pending) /\ m = Len(minedQ)
        /\ n2 = Len(sent') /\ s2 = Len(submitQ') /\ f = found /\ k = MaxShares
  BY DEF Numbers
<1>2. n + s + p + m <= f /\ n2 + s2 <= n + s /\ f <= k
  BY <1>1 DEF Numbers
<1>3. n2 + s2 + p + m <= f /\ n2 <= k
  BY <1>2
<1>4. Len(pending') = p /\ Len(minedQ') = m /\ found' = f
  BY <1>1
<1> QED BY <1>1, <1>3, <1>4 DEF EachInOnePlace

(* A step that writes at most two events, none an answer, and leaves the   *)
(* channels alone but for the job.                                         *)
LEMMA QuietStep ==
  ASSUME PathInv, UNCHANGED controllerVars,
         UNCHANGED <<minedQ, submitQ, eventQ, submitOpen, found, sent>>,
         hasJob' \in BOOLEAN, sPc' \in ClientPositions, profile' \in 1 .. LastProfile,
         outbox' \in {outbox, << >>, <<"NewJob">>, <<"Connected">>, <<"Disconnected">>,
                      <<"NewJob", "Connected">>},
         outstanding' \in {outstanding, 0}
  PROVE  PathInv'
<1>n. Numbers
  BY PathNumbers
<1>1. ChannelsTypeOK' /\ ControllerTypeOK' /\ ClosedIsEmpty' /\ EachInOnePlace'
  BY DEF PathInv, ChannelsTypeOK, ControllerTypeOK, ClosedIsEmpty, EachInOnePlace, controllerVars
<1>2. outbox' \in Seq(Events) /\ Len(outbox') <= 2 /\ AnswersIn(outbox') \in Nat
      /\ AnswersIn(outbox') <= AnswersIn(outbox)
  <2>1. CASE outbox' = outbox
    BY <1>n, <2>1 DEF PathInv, SessionTypeOK, Numbers
  <2>2. /\ << >> \in Seq(Events) /\ Len(<< >>) = 0 /\ AnswersIn(<< >>) = 0
    BY AnswersNone, EmptySeq
  <2>3. ASSUME NEW e \in {"NewJob", "Connected", "Disconnected"}
        PROVE  /\ <<e>> \in Seq(Events) /\ Len(<<e>>) = 1 /\ AnswersIn(<<e>>) = 0
    <3>1. <<e>> \in Seq(Events) /\ Len(<<e>>) = 1
      BY DEF Events
    <3>2. {i \in DOMAIN <<e>> : <<e>>[i] \in {"Accepted", "Rejected"}} = {}
      OBVIOUS
    <3> QED BY <3>1, <3>2, FS_EmptySet DEF AnswersIn
  <2>4. /\ <<"NewJob", "Connected">> \in Seq(Events) /\ Len(<<"NewJob", "Connected">>) = 2
        /\ AnswersIn(<<"NewJob", "Connected">>) = 0
    <3> DEFINE two == <<"NewJob", "Connected">>
    <3>1. two \in Seq(Events) /\ Len(two) = 2
      BY DEF Events
    <3>2. {i \in DOMAIN two : two[i] \in {"Accepted", "Rejected"}} = {}
      OBVIOUS
    <3> QED BY <3>1, <3>2, FS_EmptySet DEF AnswersIn
  <2>5. CASE outbox' # outbox
    <3>1. outbox' \in {<< >>, <<"NewJob">>, <<"Connected">>, <<"Disconnected">>,
                       <<"NewJob", "Connected">>}
      BY <2>5
    <3>2. outbox' \in Seq(Events) /\ Len(outbox') <= 2 /\ AnswersIn(outbox') = 0
      <4>1. CASE outbox' = << >>
        BY <2>2, <4>1
      <4>2. CASE outbox' = <<"NewJob", "Connected">>
        BY <2>4, <4>2
      <4>3. ASSUME NEW e \in {"NewJob", "Connected", "Disconnected"}, outbox' = <<e>>
            PROVE  outbox' \in Seq(Events) /\ Len(outbox') <= 2 /\ AnswersIn(outbox') = 0
        BY <2>3, <4>3
      <4> QED BY <3>1, <4>1, <4>2, <4>3
    <3> QED BY <1>n, <3>2 DEF Numbers
  <2> QED BY <2>1, <2>5
<1>3. outstanding' \in 0 .. MaxShares /\ outstanding' \in Nat /\ outstanding' <= outstanding
  <2>1. outstanding \in 0 .. MaxShares /\ outstanding \in Nat /\ MaxShares \in Nat
    BY <1>n DEF PathInv, SessionTypeOK, Numbers
  <2>2. CASE outstanding' = outstanding
    BY <2>1, <2>2
  <2>3. CASE outstanding' = 0
    BY <2>1, <2>3
  <2> QED BY <2>2, <2>3
<1>4. SessionTypeOK'
  BY <1>2, <1>3 DEF PathInv, SessionTypeOK
<1>5. AnswersTally'
  <2>1. UNCHANGED <<accepted, rejected>> /\ Len(sent') \in Nat /\ Len(sent') = Len(sent)
        /\ AnswersIn(eventQ') \in Nat /\ AnswersIn(eventQ') = AnswersIn(eventQ)
    BY <1>n DEF controllerVars, Numbers
  <2>2. AnswersIn(eventQ') + AnswersIn(outbox') + outstanding' + Len(sent)
          <= AnswersIn(eventQ) + AnswersIn(outbox) + outstanding + Len(sent')
    <3>1. PICK q \in Nat, o \in Nat, u \in Nat, n \in Nat, o2 \in Nat, u2 \in Nat :
            /\ q = AnswersIn(eventQ) /\ o = AnswersIn(outbox) /\ u = outstanding /\ n = Len(sent)
            /\ o2 = AnswersIn(outbox') /\ u2 = outstanding'
      BY <1>n, <1>2, <1>3 DEF Numbers
    <3>2. o2 <= o /\ u2 <= u
      BY <1>2, <1>3, <3>1
    <3>3. q + o2 + u2 + n <= q + o + u + n
      BY <3>2
    <3> QED BY <2>1, <3>1, <3>3
  <2> QED BY <1>n, <1>2, <1>3, <2>1, <2>2, TallyKept
<1> QED BY <1>1, <1>4, <1>5 DEF PathInv

(* The events and the answers, which move between the two queues.          *)
LEMMA EventMoves ==
  ASSUME PathInv, EventSent
  PROVE  PathInv'
<1>n. Numbers
  BY PathNumbers
<1>1. /\ outbox # << >> /\ outbox' = Tail(outbox) /\ eventQ' = Append(eventQ, Head(outbox))
      /\ Len(eventQ) < EventCap
      /\ UNCHANGED <<minedQ, submitQ, hasJob, submitOpen, found, sPc, profile, outstanding, sent>>
      /\ UNCHANGED controllerVars
  BY DEF EventSent, SendEvent
<1>2. /\ Head(outbox) \in Events /\ Tail(outbox) \in Seq(Events) /\ Len(Tail(outbox)) = Len(outbox) - 1
  BY <1>1, PathSequences, HeadTailProperties
<1>3. /\ Append(eventQ, Head(outbox)) \in Seq(Events)
      /\ Len(Append(eventQ, Head(outbox))) = Len(eventQ) + 1
  BY <1>2, PathSequences, AppendProperties
<1>4. ChannelsTypeOK'
  <2>1. Len(eventQ') <= EventCap
    BY <1>1, <1>3, <1>n, ChannelsAssumption DEF Numbers
  <2> QED BY <1>1, <1>3, <2>1 DEF PathInv, ChannelsTypeOK
<1>5. SessionTypeOK'
  <2>1. Len(outbox') <= 2
    <3>1. Len(outbox) <= 2 /\ Len(outbox) \in Nat
      BY <1>n DEF PathInv, SessionTypeOK, Numbers
    <3> QED BY <1>1, <1>2, <3>1
  <2> QED BY <1>1, <1>2, <2>1 DEF PathInv, SessionTypeOK
<1>6. ControllerTypeOK' /\ EachInOnePlace' /\ ClosedIsEmpty'
  BY <1>1 DEF PathInv, ControllerTypeOK, EachInOnePlace, ClosedIsEmpty, controllerVars
<1>7. AnswersTally'
  <2>1. /\ AnswersIn(eventQ') = AnswersIn(eventQ) + IsAnswer(Head(outbox))
        /\ AnswersIn(outbox) = IsAnswer(Head(outbox)) + AnswersIn(outbox')
    BY <1>1, <1>2, PathSequences, AnswersAppend, AnswersTail
  <2>2. AnswersIn(eventQ') \in Nat /\ AnswersIn(outbox') \in Nat
    BY <1>1, <1>2, <1>3, AnswersFinite
  <2>3. UNCHANGED <<accepted, rejected>> /\ outstanding' = outstanding /\ Len(sent') = Len(sent)
    BY <1>1 DEF controllerVars
  <2>4. PICK h \in Nat, q \in Nat, o2 \in Nat, u \in Nat, n \in Nat :
          /\ h = IsAnswer(Head(outbox)) /\ q = AnswersIn(eventQ) /\ o2 = AnswersIn(outbox')
          /\ u = outstanding /\ n = Len(sent)
    BY <2>2, <1>n DEF IsAnswer, Numbers
  <2>5. AnswersIn(eventQ') = q + h /\ AnswersIn(outbox) = h + o2
    BY <2>1, <2>4
  <2>6. (q + h) + o2 + u + n <= q + (h + o2) + u + n
    OBVIOUS
  <2>7. AnswersIn(eventQ') + AnswersIn(outbox') + outstanding' + Len(sent)
          <= AnswersIn(eventQ) + AnswersIn(outbox) + outstanding + Len(sent')
    BY <2>3, <2>4, <2>5, <2>6
  <2>8. outstanding' \in Nat /\ Len(sent') \in Nat
    BY <2>3, <1>n DEF Numbers
  <2> QED BY <1>n, <2>2, <2>3, <2>7, <2>8, TallyKept
<1> QED BY <1>4, <1>5, <1>6, <1>7 DEF PathInv

LEMMA AnswerArrives ==
  ASSUME PathInv, UNCHANGED controllerVars,
         NEW e \in {"Accepted", "Rejected"}, HandleAnswer(e)
  PROVE  PathInv'
<1>n. Numbers
  BY PathNumbers
<1>1. /\ outbox = << >> /\ outbox' = <<e>> /\ outstanding > 0 /\ outstanding' = outstanding - 1
      /\ UNCHANGED <<channelVars, sPc, profile, sent>>
  BY DEF HandleAnswer, At
<1>2. <<e>> \in Seq(Events) /\ Len(<<e>>) = 1 /\ AnswersIn(<<e>>) = 1
  <2>1. <<e>> \in Seq(Events) /\ Len(<<e>>) = 1
    BY DEF Events
  <2>2. {i \in DOMAIN <<e>> : <<e>>[i] \in {"Accepted", "Rejected"}} = {1}
    OBVIOUS
  <2> QED BY <2>1, <2>2, FS_Singleton DEF AnswersIn
<1>3. outstanding' \in 0 .. MaxShares /\ outstanding' \in Nat
  <2>1. outstanding \in 0 .. MaxShares /\ outstanding \in Nat /\ MaxShares \in Nat
    BY <1>n DEF PathInv, SessionTypeOK, Numbers
  <2> QED BY <1>1, <2>1
<1>4. ChannelsTypeOK' /\ ControllerTypeOK' /\ EachInOnePlace' /\ ClosedIsEmpty'
  BY <1>1 DEF PathInv, ChannelsTypeOK, ControllerTypeOK, EachInOnePlace, ClosedIsEmpty,
              controllerVars, channelVars
<1>5. SessionTypeOK'
  BY <1>1, <1>2, <1>3 DEF PathInv, SessionTypeOK
<1>6. AnswersTally'
  <2>1. UNCHANGED <<accepted, rejected>> /\ AnswersIn(eventQ') = AnswersIn(eventQ) /\ Len(sent') = Len(sent)
    BY <1>1 DEF controllerVars, channelVars
  <2>2. AnswersIn(outbox) = 0 /\ AnswersIn(outbox') = 1
    BY <1>1, <1>2, AnswersNone
  <2>3. PICK q \in Nat, u \in Nat, n \in Nat :
          q = AnswersIn(eventQ) /\ u = outstanding /\ n = Len(sent)
    BY <1>n DEF Numbers
  <2>4. q + 1 + (u - 1) + n <= q + 0 + u + n
    OBVIOUS
  <2>5. AnswersIn(eventQ') + AnswersIn(outbox') + outstanding' + Len(sent)
          <= AnswersIn(eventQ) + AnswersIn(outbox) + outstanding + Len(sent')
    BY <1>1, <2>1, <2>2, <2>3, <2>4
  <2>6. AnswersIn(eventQ') \in Nat /\ AnswersIn(outbox') \in Nat /\ Len(sent') \in Nat
    BY <2>1, <2>2, <1>n DEF Numbers
  <2> QED BY <1>n, <1>3, <2>1, <2>5, <2>6, TallyKept
<1> QED BY <1>4, <1>5, <1>6 DEF PathInv

(* What Breaks leaves behind.                                              *)
LEMMA AfterBreak ==
  ASSUME NEW retryable \in BOOLEAN, Breaks(retryable), profile \in 1 .. LastProfile, outbox = << >>
  PROVE  /\ sPc' \in {"connect", "backoff"} /\ profile' \in 1 .. LastProfile
         /\ outbox' \in {<< >>, <<"Disconnected">>}
BY DEF Breaks, LastProfile

(* A share taken from the submit queue: written to the pool, or lost with  *)
(* the connection, or both.                                                *)
LEMMA ShareSubmitted ==
  ASSUME PathInv, SubmitBranch \/ (SubmitBreaks /\ UNCHANGED controllerVars)
  PROVE  PathInv'
<1>n. Numbers
  BY PathNumbers
<1>1. /\ submitQ # << >> /\ submitQ' = Tail(submitQ) /\ outbox = << >>
      /\ sent' \in {sent, Append(sent, Head(submitQ))}
      /\ UNCHANGED <<minedQ, eventQ, hasJob, submitOpen, found>> /\ UNCHANGED controllerVars
  BY DEF SubmitBranch, Submit, SubmitBreaks, At
<1>2. /\ submitQ \in Seq(1 .. MaxShares) /\ sent \in Seq(1 .. MaxShares)
      /\ profile \in 1 .. LastProfile /\ sPc \in ClientPositions
  BY DEF PathInv, ChannelsTypeOK, SessionTypeOK
<1>3. /\ Tail(submitQ) \in Seq(1 .. MaxShares) /\ Head(submitQ) \in 1 .. MaxShares
      /\ Len(Tail(submitQ)) = Len(submitQ) - 1
  BY <1>1, <1>2, HeadTailProperties
<1>4. /\ Append(sent, Head(submitQ)) \in Seq(1 .. MaxShares)
      /\ Len(Append(sent, Head(submitQ))) = Len(sent) + 1
  BY <1>2, <1>3, AppendProperties
<1>5. /\ submitQ' \in Seq(1 .. MaxShares) /\ Len(submitQ') = Len(submitQ) - 1 /\ Len(submitQ') \in Nat
      /\ sent' \in Seq(1 .. MaxShares) /\ Len(sent') \in Nat
      /\ Len(sent') \in {Len(sent), Len(sent) + 1}
  BY <1>1, <1>2, <1>3, <1>4, LenProperties
<1>6. EachInOnePlace' /\ Len(sent') <= MaxShares
  <2>1. UNCHANGED <<minedQ, pending, found>>
    BY <1>1 DEF controllerVars
  <2>2. PICK n \in Nat, s \in Nat : n = Len(sent) /\ s = Len(submitQ)
    BY <1>n DEF Numbers
  <2>3. Len(sent') + Len(submitQ') <= Len(sent) + Len(submitQ)
    BY <1>5, <2>2
  <2> QED BY <1>n, <1>5, <2>1, <2>3, PlacesKept
<1>7. /\ sPc' \in ClientPositions /\ profile' \in 1 .. LastProfile
      /\ outbox' \in {<< >>, <<"Disconnected">>}
      /\ \/ outstanding' = outstanding + 1 /\ Len(sent') = Len(sent) + 1
         \/ outstanding' = 0
  <2>1. CASE SubmitBranch
    BY <1>1, <1>2, <1>4, <2>1 DEF SubmitBranch, Submit
  <2>2. CASE SubmitBreaks
    <3>1. PICK retryable \in BOOLEAN : Breaks(retryable)
      BY <2>2 DEF SubmitBreaks
    <3>2. outstanding' = 0
      BY <2>2 DEF SubmitBreaks
    <3> QED BY <1>1, <1>2, <3>1, <3>2, AfterBreak DEF ClientPositions
  <2> QED BY <2>1, <2>2
<1>7a. outstanding' \in Nat
  <2>1. outstanding \in Nat
    BY <1>n DEF Numbers
  <2> QED BY <1>7, <2>1
<1>8. outbox' \in Seq(Events) /\ Len(outbox') <= 2 /\ AnswersIn(outbox') = 0 /\ AnswersIn(outbox) = 0
  <2>1. << >> \in Seq(Events) /\ Len(<< >>) = 0 /\ AnswersIn(<< >>) = 0
    BY AnswersNone, EmptySeq
  <2>2. <<"Disconnected">> \in Seq(Events) /\ Len(<<"Disconnected">>) = 1 /\ AnswersIn(<<"Disconnected">>) = 0
    <3>1. <<"Disconnected">> \in Seq(Events) /\ Len(<<"Disconnected">>) = 1
      BY DEF Events
    <3>2. {i \in DOMAIN <<"Disconnected">> : <<"Disconnected">>[i] \in {"Accepted", "Rejected"}} = {}
      OBVIOUS
    <3> QED BY <3>1, <3>2, FS_EmptySet DEF AnswersIn
  <2>3. CASE outbox' = << >>
    BY <1>1, <2>1, <2>3
  <2>4. CASE outbox' = <<"Disconnected">>
    BY <1>1, <2>1, <2>2, <2>4
  <2> QED BY <1>7, <2>3, <2>4
<1>9. AnswersTally'
  <2>1. UNCHANGED <<accepted, rejected>> /\ AnswersIn(eventQ') = AnswersIn(eventQ)
    BY <1>1 DEF controllerVars
  <2>2. PICK q \in Nat, u \in Nat, n \in Nat, u2 \in Nat, n2 \in Nat :
          /\ q = AnswersIn(eventQ) /\ u = outstanding /\ n = Len(sent)
          /\ u2 = outstanding' /\ n2 = Len(sent')
    BY <1>n, <1>5, <1>7a DEF Numbers
  <2>3. (u2 = u + 1 /\ n2 = n + 1) \/ (u2 = 0 /\ n2 \in {n, n + 1})
    BY <1>5, <1>7, <2>2
  <2>4. q + 0 + u2 + n <= q + 0 + u + n2
    BY <2>3
  <2>5. AnswersIn(eventQ') + AnswersIn(outbox') + outstanding' + Len(sent)
          <= AnswersIn(eventQ) + AnswersIn(outbox) + outstanding + Len(sent')
    BY <1>8, <2>1, <2>2, <2>4
  <2>6. AnswersIn(eventQ') \in Nat /\ AnswersIn(outbox') \in Nat /\ outstanding' \in Nat
    BY <1>8, <2>1, <2>2
  <2> QED BY <1>n, <1>5, <2>1, <2>5, <2>6, TallyKept
<1>10. outstanding' \in 0 .. MaxShares
  <2>1. PICK a \in Nat, r \in Nat, q \in Nat, u2 \in Nat, n2 \in Nat, k \in Nat :
          /\ a = accepted' /\ r = rejected' /\ q = AnswersIn(eventQ') /\ u2 = outstanding'
          /\ n2 = Len(sent') /\ k = MaxShares
    <3>1. accepted' \in Nat /\ rejected' \in Nat /\ AnswersIn(eventQ') \in Nat /\ MaxShares \in Nat
      BY <1>1, <1>n DEF Numbers, controllerVars
    <3> QED BY <1>5, <1>7a, <3>1
  <2>2. a + r + q + 0 + u2 <= n2 /\ n2 <= k
    BY <1>6, <1>8, <1>9, <2>1 DEF AnswersTally
  <2>3. u2 <= k
    BY <2>2
  <2> QED BY <2>1, <2>3
<1>11. SessionTypeOK'
  BY <1>5, <1>7, <1>8, <1>10 DEF SessionTypeOK
<1>12. ChannelsTypeOK' /\ ControllerTypeOK'
  <2>1. Len(submitQ') <= SubmitCap
    <3>1. Len(submitQ) <= SubmitCap /\ Len(submitQ) \in Nat /\ SubmitCap \in Nat
      BY <1>n, ChannelsAssumption DEF PathInv, ChannelsTypeOK, Numbers
    <3> QED BY <1>5, <3>1
  <2> QED BY <1>1, <1>5, <2>1 DEF PathInv, ChannelsTypeOK, ControllerTypeOK, controllerVars
<1>13. ClosedIsEmpty'
  BY <1>1 DEF PathInv, ClosedIsEmpty
<1> QED BY <1>6, <1>9, <1>11, <1>12, <1>13 DEF PathInv

(* The client ends, or the controller stops: the receivers drop what is in *)
(* their queues.                                                           *)
LEMMA ReceiversDropped ==
  ASSUME PathInv, (PoolCloses /\ UNCHANGED controllerVars) \/ ShutdownBranch
  PROVE  PathInv'
<1>n. Numbers
  BY PathNumbers
<1>1. /\ submitQ' = << >> /\ submitOpen' = FALSE /\ outstanding' = 0
      /\ eventQ' \in {eventQ, << >>} /\ outbox' \in {outbox, << >>}
      /\ minedQ' \in {minedQ, << >>}
      /\ sPc' \in ClientPositions
      /\ UNCHANGED <<hasJob, found, profile, sent, pending, loggedIn, accepted, rejected, ctrlC>>
  <2>1. sPc' \in ClientPositions
    BY DEF PoolCloses, ShutdownBranch, Abort, ClientPositions
  <2> QED BY <2>1 DEF PoolCloses, ShutdownBranch, Abort, Stop, controllerVars
<1>2. /\ << >> \in Seq(1 .. MaxShares) /\ << >> \in Seq(Events) /\ Len(<< >>) = 0
      /\ AnswersIn(<< >>) = 0
  BY EmptySeq, AnswersNone
<1>3. ControllerTypeOK'
  BY <1>1 DEF PathInv, ControllerTypeOK, PoolCloses, ShutdownBranch, Stop, controllerVars
<1>4. ChannelsTypeOK'
  <2>1. MinedCap \in Nat /\ SubmitCap \in Nat /\ EventCap \in Nat
    BY ChannelsAssumption
  <2>2. minedQ' \in Seq(1 .. MaxShares) /\ Len(minedQ') <= MinedCap
    <3>1. CASE minedQ' = minedQ
      BY <3>1 DEF PathInv, ChannelsTypeOK
    <3>2. CASE minedQ' = << >>
      BY <1>2, <2>1, <3>2
    <3> QED BY <1>1, <3>1, <3>2
  <2>3. eventQ' \in Seq(Events) /\ Len(eventQ') <= EventCap
    <3>1. CASE eventQ' = eventQ
      BY <3>1 DEF PathInv, ChannelsTypeOK
    <3>2. CASE eventQ' = << >>
      BY <1>2, <2>1, <3>2
    <3> QED BY <1>1, <3>1, <3>2
  <2>4. submitQ' \in Seq(1 .. MaxShares) /\ Len(submitQ') <= SubmitCap
    BY <1>1, <1>2, <2>1
  <2> QED BY <1>1, <2>2, <2>3, <2>4 DEF PathInv, ChannelsTypeOK
<1>5. SessionTypeOK'
  <2>1. outbox' \in Seq(Events) /\ Len(outbox') <= 2
    <3>1. CASE outbox' = outbox
      BY <3>1 DEF PathInv, SessionTypeOK
    <3>2. CASE outbox' = << >>
      BY <1>2, <3>2
    <3> QED BY <1>1, <3>1, <3>2
  <2>2. outstanding' \in 0 .. MaxShares
    BY <1>1, ChannelsAssumption
  <2> QED BY <1>1, <2>1, <2>2 DEF PathInv, SessionTypeOK
<1>6. AnswersTally'
  <2>1. UNCHANGED <<accepted, rejected>> /\ Len(sent') = Len(sent) /\ outstanding' = 0
    BY <1>1
  <2>2. AnswersIn(eventQ') \in {AnswersIn(eventQ), 0} /\ AnswersIn(outbox') \in {AnswersIn(outbox), 0}
    BY <1>1, <1>2
  <2>3. PICK q \in Nat, o \in Nat, u \in Nat, n \in Nat, q2 \in Nat, o2 \in Nat :
          /\ q = AnswersIn(eventQ) /\ o = AnswersIn(outbox) /\ u = outstanding /\ n = Len(sent)
          /\ q2 = AnswersIn(eventQ') /\ o2 = AnswersIn(outbox')
    BY <2>2, <1>n DEF Numbers
  <2>4. q2 <= q /\ o2 <= o
    BY <2>2, <2>3
  <2>5. q2 + o2 + 0 + n <= q + o + u + n
    BY <2>4
  <2>6. AnswersIn(eventQ') + AnswersIn(outbox') + outstanding' + Len(sent)
          <= AnswersIn(eventQ) + AnswersIn(outbox) + outstanding + Len(sent')
    BY <2>1, <2>3, <2>5
  <2>7. AnswersIn(eventQ') \in Nat /\ AnswersIn(outbox') \in Nat /\ outstanding' \in Nat /\ Len(sent') \in Nat
    BY <2>1, <2>3
  <2> QED BY <1>n, <2>1, <2>6, <2>7, TallyKept
<1>7. EachInOnePlace'
  <2>1. /\ Len(submitQ') = 0 /\ Len(sent') = Len(sent) /\ Len(pending') = Len(pending) /\ found' = found
        /\ Len(minedQ') \in {Len(minedQ), 0}
    BY <1>1, <1>2
  <2>2. PICK n \in Nat, s \in Nat, p \in Nat, m \in Nat, f \in Nat, m2 \in Nat :
          /\ n = Len(sent) /\ s = Len(submitQ) /\ p = Len(pending) /\ m = Len(minedQ) /\ f = found
          /\ m2 = Len(minedQ')
    <3>1. Len(minedQ') \in Nat
      BY <1>n, <2>1 DEF Numbers
    <3> QED BY <1>n, <3>1 DEF Numbers
  <2>3. n + s + p + m <= f
    BY <1>n, <2>2 DEF Numbers
  <2>4. m2 <= m
    BY <2>1, <2>2
  <2>5. n + 0 + p + m2 <= f
    BY <2>3, <2>4
  <2> QED BY <2>1, <2>2, <2>5 DEF EachInOnePlace
<1>8. ClosedIsEmpty'
  BY <1>1 DEF ClosedIsEmpty
<1> QED BY <1>3, <1>4, <1>5, <1>6, <1>7, <1>8 DEF PathInv

LEMMA PathStep == PathInv /\ [Next]_vars => PathInv'
<1> SUFFICES ASSUME PathInv, [Next]_vars PROVE PathInv'
  OBVIOUS
<1>0. /\ hasJob \in BOOLEAN /\ sPc \in ClientPositions /\ profile \in 1 .. LastProfile
  BY DEF PathInv, ChannelsTypeOK, SessionTypeOK
<1>1. CASE ThreadFinds \/ UserStops \/ EventBranch \/ ShareBranch \/ ShareForwarded
  <2>1. UNCHANGED clientVars
    BY <1>1 DEF ThreadFinds, UserStops, EventBranch, ShareBranch, ShareForwarded
  <2> QED BY <1>1, <2>1, ControllerKeepsPath
<1>2. CASE EventSent
  BY <1>2, EventMoves
<1>3. CASE SubmitBranch \/ (SubmitBreaks /\ UNCHANGED controllerVars)
  BY <1>3, ShareSubmitted
<1>4. CASE (PoolCloses /\ UNCHANGED controllerVars) \/ ShutdownBranch
  BY <1>4, ReceiversDropped
<1>5. CASE UNCHANGED controllerVars /\ \E e \in {"Accepted", "Rejected"} : HandleAnswer(e)
  BY <1>5, AnswerArrives
<1>6. CASE BackoffEnds
  BY <1>0, <1>6, QuietStep DEF BackoffEnds, EndBackoff, channelVars, ClientPositions
<1>7. CASE (Connecting \/ Connect) /\ UNCHANGED controllerVars
  BY <1>0, <1>7, QuietStep DEF Connecting, Connect, channelVars, ClientPositions
<1>8. CASE Break /\ UNCHANGED controllerVars
  <2>1. PICK retryable \in BOOLEAN : Breaks(retryable)
    BY <1>8 DEF Break
  <2>2. outbox = << >> /\ outstanding' = 0 /\ UNCHANGED <<channelVars, sent>>
    BY <1>8 DEF Break, At
  <2>3. sPc' \in ClientPositions /\ profile' \in 1 .. LastProfile /\ outbox' \in {<< >>, <<"Disconnected">>}
    BY <1>0, <2>1, <2>2, AfterBreak DEF ClientPositions
  <2> QED BY <1>0, <1>8, <2>2, <2>3, QuietStep DEF channelVars
<1>9. CASE (LoginOk \/ HandleJob) /\ UNCHANGED controllerVars
  BY <1>0, <1>9, QuietStep DEF LoginOk, HandleJob, PublishJob, channelVars, ClientPositions
<1>10. CASE UNCHANGED vars
  BY <1>0, <1>10, QuietStep DEF vars, channelVars, controllerVars, clientVars
<1> QED
  BY <1>1, <1>2, <1>3, <1>4, <1>5, <1>6, <1>7, <1>8, <1>9, <1>10 DEF Next, PoolActs

LEMMA PathCorrect == Spec => []PathInv
BY PathInit, PathStep, PTL DEF Spec

(* The state is of its type: no queue exceeds its capacity, and no counter *)
(* the number of shares found.                                             *)
THEOREM PipelineTypeCorrect == Spec => []PipelineTypeOK
<1>1. LinkInv /\ PathInv => PipelineTypeOK
  BY DEF LinkInv, PathInv, PipelineTypeOK, ClientTypeOK, SessionTypeOK
<1> QED BY <1>1, LinkCorrect, PathCorrect, PTL

(* No answer is counted twice, nor one to a share that was never written.  *)
THEOREM AnswersCountedOnce == Spec => []AnswersTally
<1>1. PathInv => AnswersTally
  BY DEF PathInv
<1> QED BY <1>1, PathCorrect, PTL

-----------------------------------------------------------------------------
(* The refinement: the two queues and the share in the controller's hands  *)
(* are one queue, which each step leaves alone, extends at the end or      *)
(* shortens at the front.                                                  *)
Path == submitQ \o pending \o minedQ

LEMMA FrontDropped ==
  ASSUME NEW S, NEW s \in Seq(S), NEW t \in Seq(S), s # << >>
  PROVE  /\ s \o t # << >>
         /\ Len(s) \in 1 .. Len(s \o t)
         /\ SubSeq(s \o t, Len(s) + 1, Len(s \o t)) = t
<1> DEFINE w == s \o t
<1>1. Len(s) \in Nat \ {0} /\ Len(t) \in Nat
  BY EmptySeq, LenProperties
<1>2. w \in Seq(S) /\ Len(w) = Len(s) + Len(t)
      /\ \A i \in 1 .. Len(s) + Len(t) : w[i] = IF i <= Len(s) THEN s[i] ELSE t[i - Len(s)]
  BY ConcatProperties
<1> HIDE DEF w
<1>3. Len(s) \in 1 .. Len(w)
  BY <1>1, <1>2
<1>4. w # << >>
  BY <1>1, <1>2, EmptySeq
<1>5. CASE t = << >>
  <2>1. Len(t) = 0
    BY <1>5, EmptySeq
  <2>2. SubSeq(w, Len(s) + 1, Len(w)) = << >>
    BY <1>1, <1>2, <2>1, SubSeqEmpty
  <2> QED BY <1>3, <1>4, <1>5, <2>2 DEF w
<1>6. CASE t # << >>
  <2>1. Len(t) \in Nat \ {0}
    BY <1>6, EmptySeq
  <2>2. Len(s) + 1 \in Len(s) + 1 .. Len(s) + Len(t) /\ Len(w) \in Len(s) + 1 .. Len(s) + Len(t)
    BY <1>1, <1>2, <2>1
  <2>3. SubSeq(s \o t, Len(s) + 1, Len(w)) = SubSeq(t, (Len(s) + 1) - Len(s), Len(w) - Len(s))
    BY <2>2, SubSeqOfConcat2
  <2>4. (Len(s) + 1) - Len(s) = 1 /\ Len(w) - Len(s) = Len(t)
    BY <1>1, <1>2
  <2>5. SubSeq(t, 1, Len(t)) = t
    BY SubSeqFull
  <2> QED BY <1>3, <1>4, <2>3, <2>4, <2>5 DEF w
<1> QED BY <1>5, <1>6

(* The same for one element.                                               *)
LEMMA FirstDropped ==
  ASSUME NEW S, NEW s \in Seq(S), NEW t \in Seq(S), s # << >>
  PROVE  /\ s \o t # << >>
         /\ Head(s \o t) = Head(s)
         /\ Tail(s \o t) = Tail(s) \o t
         /\ 1 \in 1 .. Len(s \o t)
         /\ SubSeq(s \o t, 1 + 1, Len(s \o t)) = Tail(s) \o t
<1> DEFINE w == s \o t
<1>1. Len(s) \in Nat \ {0} /\ Len(t) \in Nat
  BY EmptySeq, LenProperties
<1>2. w \in Seq(S) /\ Len(w) = Len(s) + Len(t)
      /\ \A i \in 1 .. Len(s) + Len(t) : w[i] = IF i <= Len(s) THEN s[i] ELSE t[i - Len(s)]
  BY ConcatProperties
<1>3. Tail(s) \in Seq(S) /\ Len(Tail(s)) = Len(s) - 1 /\ \A i \in 1 .. Len(s) - 1 : Tail(s)[i] = s[i + 1]
  BY HeadTailProperties
<1> DEFINE v == Tail(s) \o t
<1>4. v \in Seq(S) /\ Len(v) = Len(Tail(s)) + Len(t)
      /\ \A i \in 1 .. Len(Tail(s)) + Len(t) : v[i] = IF i <= Len(Tail(s)) THEN Tail(s)[i] ELSE t[i - Len(Tail(s))]
  BY <1>3, ConcatProperties
<1> HIDE DEF w, v
<1>5. w # << >>
  BY <1>1, <1>2, EmptySeq
<1>6. Head(w) = Head(s)
  <2>1. w[1] = s[1]
    BY <1>1, <1>2
  <2> QED BY <2>1, <1>2, <1>5
<1>7. Tail(w) \in Seq(S) /\ Len(Tail(w)) = Len(w) - 1 /\ \A i \in 1 .. Len(w) - 1 : Tail(w)[i] = w[i + 1]
  BY <1>2, <1>5, HeadTailProperties
<1>8. Tail(w) = v
  <2>1. Len(Tail(w)) = Len(v)
    BY <1>1, <1>2, <1>3, <1>4, <1>7
  <2>2. ASSUME NEW i \in 1 .. Len(Tail(w))
        PROVE  Tail(w)[i] = v[i]
    <3>1. i \in Nat /\ i >= 1 /\ i <= Len(s) + Len(t) - 1
      BY <1>1, <1>2, <1>7
    <3>2. Tail(w)[i] = IF i + 1 <= Len(s) THEN s[i + 1] ELSE t[(i + 1) - Len(s)]
      BY <1>1, <1>2, <1>7, <3>1
    <3>3. v[i] = IF i <= Len(s) - 1 THEN Tail(s)[i] ELSE t[i - (Len(s) - 1)]
      BY <1>1, <1>3, <1>4, <3>1
    <3>4. CASE i + 1 <= Len(s)
      BY <1>1, <1>3, <3>1, <3>2, <3>3, <3>4
    <3>5. CASE ~(i + 1 <= Len(s))
      <4>1. (i + 1) - Len(s) = i - (Len(s) - 1)
        BY <1>1, <3>1
      <4> QED BY <1>1, <3>1, <3>2, <3>3, <3>5, <4>1
    <3> QED BY <3>4, <3>5
  <2> QED BY <1>4, <1>7, <2>1, <2>2, SeqEqual
<1>9. Tail(w) = SubSeq(w, 2, Len(w)) /\ 1 + 1 = 2
  BY <1>2, <1>5, TailIsSubSeq
<1>10. 1 \in 1 .. Len(w)
  BY <1>1, <1>2
<1> QED BY <1>5, <1>6, <1>8, <1>9, <1>10 DEF w, v

(* A sequence is its head and its tail.                                    *)
LEMMA HeadFirst ==
  ASSUME NEW S, NEW s \in Seq(S), s # << >>
  PROVE  Head(s) \in S /\ Tail(s) \in Seq(S) /\ s = <<Head(s)>> \o Tail(s)
<1>1. Head(s) \in S /\ Tail(s) \in Seq(S)
  BY HeadTailProperties
<1>2. /\ <<Head(s)>> \in Seq(S) /\ <<Head(s)>> # << >>
      /\ Head(<<Head(s)>>) = Head(s) /\ Len(<<Head(s)>>) = 1
  BY <1>1
<1>3. /\ <<Head(s)>> \o Tail(s) \in Seq(S)
      /\ Len(<<Head(s)>> \o Tail(s)) = 1 + Len(Tail(s))
      /\ \A i \in 1 .. 1 + Len(Tail(s)) :
           (<<Head(s)>> \o Tail(s))[i] = IF i <= 1 THEN <<Head(s)>>[i] ELSE Tail(s)[i - 1]
  BY <1>1, <1>2, ConcatProperties
<1>4. /\ Len(s) = 1 + Len(Tail(s)) /\ Len(Tail(s)) \in Nat
      /\ \A i \in 1 .. Len(s) : s[i] = IF i <= 1 THEN Head(s) ELSE Tail(s)[i - 1]
  <2>1. /\ Len(Tail(s)) = Len(s) - 1 /\ Len(s) \in Nat /\ Len(Tail(s)) \in Nat
        /\ \A i \in 1 .. Len(Tail(s)) : Tail(s)[i] = s[i + 1]
    BY <1>1, HeadTailProperties, LenProperties
  <2>2. ASSUME NEW i \in 1 .. Len(s)
        PROVE  s[i] = IF i <= 1 THEN Head(s) ELSE Tail(s)[i - 1]
    <3>1. CASE i = 1
      <4>1. s[1] = Head(s)
        OBVIOUS
      <4> QED BY <3>1, <4>1
    <3>2. CASE i # 1
      <4>1. i - 1 \in 1 .. Len(Tail(s)) /\ (i - 1) + 1 = i /\ ~(i <= 1)
        BY <2>1, <2>2, <3>2
      <4> QED BY <2>1, <4>1
    <3> QED BY <3>1, <3>2
  <2> QED BY <2>1, <2>2
<1>5. \A i \in 1 .. Len(s) : s[i] = (<<Head(s)>> \o Tail(s))[i]
  <2>1. \A i \in 1 .. Len(s) : i <= 1 => <<Head(s)>>[i] = Head(s)
    BY <1>4
  <2> QED BY <1>3, <1>4, <2>1
<1> QED BY <1>1, <1>3, <1>4, <1>5, SeqEqual

LEMMA DeliveryStep == PathInv /\ [Next]_vars => [Delivery!DeliveryNext]_(Delivery!deliveryVars)
<1> SUFFICES ASSUME PathInv, [Next]_vars
             PROVE  [Delivery!DeliveryNext]_(Delivery!deliveryVars)
  OBVIOUS
<1> DEFINE S == 1 .. MaxShares
<1>s. /\ minedQ \in Seq(S) /\ submitQ \in Seq(S) /\ pending \in Seq(S) /\ << >> \in Seq(S)
      /\ submitQ \o pending \in Seq(S) /\ pending \o minedQ \in Seq(S)
  <2>1. minedQ \in Seq(S) /\ submitQ \in Seq(S) /\ pending \in Seq(S)
    BY PathSequences
  <2> QED BY <2>1, EmptySeq, ConcatProperties
<1>p. Path \in Seq(S) /\ Path = submitQ \o (pending \o minedQ)
  BY <1>s, ConcatProperties, ConcatAssociative DEF Path
<1>e. (cPc = "select" => pending = << >>) /\ (cPc = "sending" => pending # << >>)
  <2>1. Len(pending) = IF cPc = "sending" THEN 1 ELSE 0
    BY DEF PathInv, ControllerTypeOK
  <2>2. pending # << >> => Len(pending) \in Nat \ {0}
    BY <1>s, EmptySeq
  <2>3. Len(<< >>) = 0
    BY EmptySeq
  <2>4. CASE cPc = "select"
    BY <2>1, <2>2, <2>4
  <2>5. CASE cPc = "sending"
    BY <2>1, <2>3, <2>5
  <2> QED BY <2>4, <2>5
<1> HIDE DEF S
<1>stay. ASSUME Path' = Path, found' = found, sent' = sent
         PROVE  [Delivery!DeliveryNext]_(Delivery!deliveryVars)
  BY <1>stay DEF Path, Delivery!deliveryVars
<1>lose. ASSUME NEW n \in 1 .. Len(Path), Path' = SubSeq(Path, n + 1, Len(Path)), found' = found, sent' = sent
         PROVE  [Delivery!DeliveryNext]_(Delivery!deliveryVars)
  BY <1>lose DEF Path, Delivery!DeliveryNext, Delivery!Lose
<1>same. ASSUME UNCHANGED <<minedQ, submitQ, pending, found, sent>>
         PROVE  [Delivery!DeliveryNext]_(Delivery!deliveryVars)
  BY <1>same, <1>stay DEF Path
<1>1. CASE ThreadFinds
  <2>1. /\ found < MaxShares /\ found' = found + 1 /\ found + 1 \in S
        /\ minedQ' \in {minedQ, Append(minedQ, found + 1)}
        /\ submitQ' = submitQ /\ pending' = pending /\ sent' = sent
    BY <1>1, ChannelsAssumption
       DEF ThreadFinds, Find, controllerVars, clientVars, PathInv, ChannelsTypeOK, S
  <2>2. (submitQ \o pending) \o Append(minedQ, found + 1) = Append(Path, found + 1)
    <3>1. <<found + 1>> \in Seq(S)
      BY <2>1
    <3>2. /\ Append(minedQ, found + 1) = minedQ \o <<found + 1>>
          /\ Append(Path, found + 1) = Path \o <<found + 1>>
      BY <1>s, <1>p, <2>1, AppendIsConcat
    <3>3. Path \o <<found + 1>> = (submitQ \o pending) \o (minedQ \o <<found + 1>>)
      BY <1>s, <3>1, ConcatAssociative DEF Path
    <3> QED BY <3>2, <3>3
  <2>3. Path' \in {Path, Append(Path, found + 1)}
    BY <2>1, <2>2 DEF Path
  <2> QED BY <2>1, <2>3 DEF Path, Delivery!DeliveryNext, Delivery!FindShare
<1>2. CASE UserStops \/ EventBranch
  BY <1>2, <1>same DEF UserStops, CtrlC, EventBranch, HandleEvent, channelVars, clientVars
<1>3. CASE ShareBranch
  <2>1. /\ pending = << >> /\ minedQ # << >> /\ pending' = <<Head(minedQ)>> /\ minedQ' = Tail(minedQ)
        /\ UNCHANGED <<submitQ, found, sent>>
    BY <1>3, <1>e DEF ShareBranch, TakeShare, clientVars
  <2>2. Head(minedQ) \in S /\ Tail(minedQ) \in Seq(S) /\ minedQ = <<Head(minedQ)>> \o Tail(minedQ)
    BY <1>s, <2>1, HeadFirst
  <2>3. <<Head(minedQ)>> \in Seq(S)
    BY <2>2
  <2>4. (submitQ \o <<Head(minedQ)>>) \o Tail(minedQ) = submitQ \o (<<Head(minedQ)>> \o Tail(minedQ))
    BY <1>s, <2>2, <2>3, ConcatAssociative
  <2>5. submitQ \o pending = submitQ
    BY <1>s, <2>1, ConcatEmptySeq
  <2>6. Path' = Path
    BY <2>1, <2>2, <2>4, <2>5 DEF Path
  <2> QED BY <1>stay, <2>1, <2>6
<1>4. CASE ForwardShare /\ UNCHANGED clientVars
  <2>1. submitQ' = submitQ \o pending /\ pending' = << >> /\ UNCHANGED <<minedQ, found, sent>>
    BY <1>4 DEF ForwardShare, clientVars
  <2>2. (submitQ \o pending) \o << >> = submitQ \o pending
    BY <1>s, ConcatEmptySeq
  <2>3. Path' = Path
    BY <2>1, <2>2 DEF Path
  <2> QED BY <1>stay, <2>1, <2>3
<1>5. CASE LoseShare /\ UNCHANGED clientVars
  <2>1. /\ ~submitOpen /\ cPc = "sending" /\ pending' = << >> /\ UNCHANGED <<submitQ, minedQ, found, sent>>
    BY <1>5 DEF LoseShare, clientVars, channelVars
  <2>2. submitQ = << >> /\ pending # << >>
    BY <1>e, <2>1 DEF PathInv, ClosedIsEmpty
  <2>3. submitQ \o pending = pending /\ submitQ \o << >> = submitQ /\ submitQ \o minedQ = minedQ
    BY <1>s, <2>2, ConcatEmptySeq
  <2>4. Path = pending \o minedQ /\ Path' = minedQ
    BY <2>1, <2>2, <2>3 DEF Path
  <2>5. Len(pending) \in 1 .. Len(Path) /\ SubSeq(Path, Len(pending) + 1, Len(Path)) = minedQ
    BY <1>s, <2>2, <2>4, FrontDropped
  <2> QED BY <1>lose, <2>1, <2>4, <2>5
<1>6. CASE SubmitBranch \/ (SubmitBreaks /\ UNCHANGED controllerVars)
  <2>1. /\ submitQ # << >> /\ submitQ' = Tail(submitQ) /\ sent' \in {sent, Append(sent, Head(submitQ))}
        /\ UNCHANGED <<minedQ, found>>
    BY <1>6 DEF SubmitBranch, Submit, SubmitBreaks
  <2>2. UNCHANGED pending
    BY <1>6 DEF SubmitBranch, controllerVars
  <2>3. /\ Path # << >> /\ Head(Path) = Head(submitQ)
        /\ Tail(Path) = Tail(submitQ) \o (pending \o minedQ)
        /\ 1 \in 1 .. Len(Path) /\ SubSeq(Path, 1 + 1, Len(Path)) = Tail(submitQ) \o (pending \o minedQ)
    BY <1>s, <1>p, <2>1, FirstDropped
  <2>4. Tail(submitQ) \o (pending \o minedQ) = (Tail(submitQ) \o pending) \o minedQ
    <3>1. Tail(submitQ) \in Seq(S)
      BY <1>s, <2>1, HeadTailProperties
    <3> QED BY <1>s, <3>1, ConcatAssociative
  <2>5. Path' = Tail(submitQ) \o (pending \o minedQ)
    BY <2>1, <2>2, <2>4 DEF Path
  <2>6. CASE sent' = sent
    BY <1>lose, <2>1, <2>3, <2>5, <2>6
  <2>7. CASE sent' = Append(sent, Head(submitQ))
    BY <2>1, <2>3, <2>5, <2>7 DEF Path, Delivery!DeliveryNext, Delivery!Deliver
  <2> QED BY <2>1, <2>6, <2>7
<1>7. CASE PoolCloses /\ UNCHANGED controllerVars
  <2>1. submitQ' = << >> /\ UNCHANGED <<minedQ, pending, found, sent>>
    BY <1>7 DEF PoolCloses, controllerVars
  <2>2. << >> \o pending = pending
    BY <1>s, ConcatEmptySeq
  <2>3. Path' = pending \o minedQ
    BY <2>1, <2>2 DEF Path
  <2>4. CASE submitQ = << >>
    <3>1. submitQ \o (pending \o minedQ) = pending \o minedQ
      BY <1>s, <2>4, ConcatEmptySeq
    <3> QED BY <1>p, <1>stay, <2>1, <2>3, <3>1
  <2>5. CASE submitQ # << >>
    <3>1. Len(submitQ) \in 1 .. Len(Path) /\ SubSeq(Path, Len(submitQ) + 1, Len(Path)) = pending \o minedQ
      BY <1>s, <1>p, <2>5, FrontDropped
    <3> QED BY <1>lose, <2>1, <2>3, <3>1
  <2> QED BY <2>4, <2>5
<1>8. CASE ShutdownBranch
  <2>1. /\ cPc = "select" /\ minedQ' = << >> /\ submitQ' = << >> /\ UNCHANGED <<pending, found, sent>>
    BY <1>8 DEF ShutdownBranch, Stop, Abort
  <2>2. pending = << >>
    BY <1>e, <2>1
  <2>3. << >> \o << >> = << >>
    BY <1>s, ConcatEmptySeq
  <2>4. Path' = << >>
    BY <2>1, <2>2, <2>3 DEF Path
  <2>5. CASE Path = << >>
    BY <1>stay, <2>1, <2>4, <2>5
  <2>6. CASE Path # << >>
    <3>1. Path \o << >> = Path
      BY <1>p, ConcatEmptySeq
    <3>2. Len(Path) \in 1 .. Len(Path) /\ SubSeq(Path, Len(Path) + 1, Len(Path)) = << >>
      BY <1>p, <1>s, <2>6, <3>1, FrontDropped
    <3> QED BY <1>lose, <2>1, <2>4, <3>2
  <2> QED BY <2>5, <2>6
<1>9. CASE EventSent \/ BackoffEnds
  BY <1>9, <1>same DEF EventSent, SendEvent, BackoffEnds, EndBackoff, channelVars, controllerVars
<1>10. CASE (Connecting \/ Connect \/ Break) /\ UNCHANGED controllerVars
  BY <1>10, <1>same DEF Connecting, Connect, Break, channelVars, controllerVars
<1>11. CASE (LoginOk \/ HandleJob \/ \E e \in {"Accepted", "Rejected"} : HandleAnswer(e)) /\ UNCHANGED controllerVars
  BY <1>11, <1>same DEF LoginOk, HandleJob, HandleAnswer, PublishJob, channelVars, controllerVars
<1>12. CASE UNCHANGED vars
  BY <1>12, <1>same DEF vars, channelVars, controllerVars, clientVars
<1> QED
  BY <1>1, <1>2, <1>3, <1>4, <1>5, <1>6, <1>7, <1>8, <1>9, <1>10, <1>11, <1>12
     DEF Next, PoolActs, ShareForwarded

(* Shares reach the pool in the order in which they were found, none twice *)
(* and none that no thread found: the path implements ShareDelivery.       *)
THEOREM PathDelivers == Spec => SharesDelivered
<1>1. Init => Delivery!DeliveryInit
  <2>1. << >> \in Seq(Nat)
    BY EmptySeq
  <2>2. << >> \o << >> \o << >> = << >>
    BY <2>1, ConcatEmptySeq
  <2> QED BY <2>2 DEF Init, ChannelsInit, ControllerInit, ClientInit, Delivery!DeliveryInit
<1> QED BY <1>1, PathCorrect, DeliveryStep, PTL DEF Spec, SharesDelivered, Delivery!DeliverySpec

(* What a step of ShareDelivery keeps of its shares, delivered (d) and on  *)
(* their way (q): in the order in which the n shares were found, and those *)
(* on their way were found after those delivered.                          *)
InOrder(d, q, n) ==
  /\ \A i \in 1 .. Len(d) : d[i] \in 1 .. n
  /\ \A i \in 1 .. Len(q) : q[i] \in 1 .. n
  /\ \A i, j \in 1 .. Len(d) : i < j => d[i] < d[j]
  /\ \A i, j \in 1 .. Len(q) : i < j => q[i] < q[j]
  /\ \A i \in 1 .. Len(d), j \in 1 .. Len(q) : d[i] < q[j]

LEMMA FoundInOrder ==
  ASSUME NEW S, NEW d \in Seq(S), NEW q \in Seq(S), NEW n \in Nat, InOrder(d, q, n)
  PROVE  InOrder(d, q, n + 1) /\ InOrder(d, Append(q, n + 1), n + 1)
<1>1. PICK r, k, l : r = Append(q, n + 1) /\ k = Len(q) /\ l = Len(d)
  OBVIOUS
<1>2. k \in Nat /\ l \in Nat
  BY <1>1, LenProperties
<1>3. Len(r) = k + 1 /\ (\A i \in 1 .. k : r[i] = q[i]) /\ r[k + 1] = n + 1
  <2>1. q \in Seq(S \cup {n + 1}) /\ n + 1 \in S \cup {n + 1}
    BY SeqMonotonic
  <2> QED BY <1>1, <2>1, AppendProperties
<1>4. /\ \A i \in 1 .. l : d[i] \in 1 .. n
      /\ \A i \in 1 .. k : q[i] \in 1 .. n
      /\ \A i, j \in 1 .. l : i < j => d[i] < d[j]
      /\ \A i, j \in 1 .. k : i < j => q[i] < q[j]
      /\ \A i \in 1 .. l, j \in 1 .. k : d[i] < q[j]
  BY <1>1 DEF InOrder
<1>5. \A x \in 1 .. n : x \in 1 .. n + 1 /\ x < n + 1
  OBVIOUS
<1>6. \A i \in 1 .. k + 1 : i \in 1 .. k \/ i = k + 1
  BY <1>2
<1>7. n + 1 \in 1 .. n + 1
  OBVIOUS
<1>8. \A i, j \in 1 .. k + 1 : i < j => i \in 1 .. k
  BY <1>2
<1>9. \A i \in 1 .. k + 1 : r[i] \in 1 .. n + 1
  BY <1>3, <1>4, <1>5, <1>6, <1>7
<1>10. \A i, j \in 1 .. k + 1 : i < j => r[i] < r[j]
  BY <1>3, <1>4, <1>5, <1>6, <1>8
<1>11. \A i \in 1 .. l, j \in 1 .. k + 1 : d[i] < r[j]
  BY <1>3, <1>4, <1>5, <1>6
<1>12. InOrder(d, q, n + 1)
  BY <1>1, <1>4, <1>5 DEF InOrder
<1>13. InOrder(d, r, n + 1)
  BY <1>1, <1>3, <1>4, <1>5, <1>9, <1>10, <1>11 DEF InOrder
<1> QED BY <1>1, <1>12, <1>13

LEMMA DeliveredInOrder ==
  ASSUME NEW S, NEW d \in Seq(S), NEW q \in Seq(S), q # << >>, NEW n \in Nat, InOrder(d, q, n)
  PROVE  InOrder(Append(d, Head(q)), Tail(q), n)
<1>1. PICK e, t, k, l : e = Append(d, Head(q)) /\ t = Tail(q) /\ k = Len(q) /\ l = Len(d)
  OBVIOUS
<1>2. k \in Nat \ {0} /\ l \in Nat
  BY <1>1, LenProperties, EmptySeq
<1>3. Head(q) = q[1] /\ Head(q) \in S /\ Len(t) = k - 1 /\ \A i \in 1 .. k - 1 : t[i] = q[i + 1]
  BY <1>1, HeadTailProperties
<1>4. Len(e) = l + 1 /\ (\A i \in 1 .. l : e[i] = d[i]) /\ e[l + 1] = q[1]
  BY <1>1, <1>3, AppendProperties
<1>5. /\ \A i \in 1 .. l : d[i] \in 1 .. n
      /\ \A i \in 1 .. k : q[i] \in 1 .. n
      /\ \A i, j \in 1 .. l : i < j => d[i] < d[j]
      /\ \A i, j \in 1 .. k : i < j => q[i] < q[j]
      /\ \A i \in 1 .. l, j \in 1 .. k : d[i] < q[j]
  BY <1>1 DEF InOrder
<1>6. /\ \A i \in 1 .. k - 1 : i + 1 \in 1 .. k /\ 1 < i + 1
      /\ 1 \in 1 .. k
      /\ \A i \in 1 .. l + 1 : i \in 1 .. l \/ i = l + 1
      /\ \A i, j \in 1 .. l + 1 : i < j => i \in 1 .. l
      /\ \A i, j \in 1 .. k - 1 : i < j => i + 1 < j + 1
  BY <1>2
<1>7. \A i \in 1 .. l + 1 : e[i] \in 1 .. n
  BY <1>4, <1>5, <1>6
<1>8. \A i, j \in 1 .. l + 1 : i < j => e[i] < e[j]
  BY <1>4, <1>5, <1>6
<1>9. \A i, j \in 1 .. k - 1 : i < j => t[i] < t[j]
  BY <1>3, <1>5, <1>6
<1>10. \A i \in 1 .. l + 1, j \in 1 .. k - 1 : e[i] < t[j]
  BY <1>3, <1>4, <1>5, <1>6
<1>11. \A i \in 1 .. k - 1 : t[i] \in 1 .. n
  BY <1>3, <1>5, <1>6
<1>12. InOrder(e, t, n)
  BY <1>3, <1>4, <1>7, <1>8, <1>9, <1>10, <1>11 DEF InOrder
<1> QED BY <1>1, <1>12

LEMMA LostInOrder ==
  ASSUME NEW S, NEW d, NEW q \in Seq(S), NEW n \in Nat, InOrder(d, q, n), NEW m \in 1 .. Len(q)
  PROVE  InOrder(d, SubSeq(q, m + 1, Len(q)), n)
<1>1. PICK k, t : k = Len(q) /\ t = SubSeq(q, m + 1, k)
  OBVIOUS
<1>2. k \in Nat /\ m \in 1 .. k
  BY <1>1, LenProperties
<1>3. Len(t) = k - m /\ \A i \in 1 .. k - m : t[i] = q[m + i]
  BY <1>1, <1>2
<1>4. /\ \A i \in 1 .. k : q[i] \in 1 .. n
      /\ \A i, j \in 1 .. k : i < j => q[i] < q[j]
      /\ \A i \in 1 .. Len(d), j \in 1 .. k : d[i] < q[j]
  BY <1>1 DEF InOrder
<1>5. \A i, j \in 1 .. k - m : m + i \in 1 .. k /\ (i < j => m + i < m + j)
  BY <1>2
<1>6. /\ \A i \in 1 .. k - m : t[i] \in 1 .. n
      /\ \A i, j \in 1 .. k - m : i < j => t[i] < t[j]
      /\ \A i \in 1 .. Len(d), j \in 1 .. k - m : d[i] < t[j]
  BY <1>3, <1>4, <1>5
<1>7. InOrder(d, t, n)
  BY <1>3, <1>6 DEF InOrder
<1> QED BY <1>1, <1>7

LEMMA OrderStep == PathInv /\ InOrder(sent, Path, found) /\ [Next]_vars => InOrder(sent, Path, found)'
<1> SUFFICES ASSUME PathInv, InOrder(sent, Path, found), [Next]_vars
             PROVE  InOrder(sent', Path', found')
  BY DEF InOrder
<1>1. PICK S, d, q, n : S = 1 .. MaxShares /\ d = sent /\ q = Path /\ n = found
  OBVIOUS
<1>2. d \in Seq(S) /\ q \in Seq(S) /\ n \in Nat
  <2>1. submitQ \in Seq(S) /\ pending \in Seq(S) /\ minedQ \in Seq(S) /\ sent \in Seq(S)
    BY <1>1, PathSequences
  <2> QED BY <1>1, <2>1, ConcatProperties, PathNumbers DEF Path, Numbers
<1>3. InOrder(d, q, n)
  BY <1>1
<1>4. CASE Delivery!FindShare
  <2>1. found' = n + 1 /\ Path' \in {q, Append(q, n + 1)} /\ sent' = d
    BY <1>1, <1>4 DEF Delivery!FindShare, Path
  <2> QED BY <1>2, <1>3, <2>1, FoundInOrder
<1>5. CASE Delivery!Deliver
  <2>1. q # << >> /\ sent' = Append(d, Head(q)) /\ Path' = Tail(q) /\ found' = n
    BY <1>1, <1>5 DEF Delivery!Deliver, Path
  <2> QED BY <1>2, <1>3, <2>1, DeliveredInOrder
<1>6. CASE Delivery!Lose
  <2>1. PICK m \in 1 .. Len(q) : Path' = SubSeq(q, m + 1, Len(q)) /\ found' = n /\ sent' = d
    BY <1>1, <1>6 DEF Delivery!Lose, Path
  <2> QED BY <1>2, <1>3, <2>1, LostInOrder
<1>7. CASE UNCHANGED Delivery!deliveryVars
  <2>1. Path' = Path /\ found' = found /\ sent' = sent
    BY <1>7 DEF Delivery!deliveryVars, Path
  <2> QED BY <2>1
<1> QED BY <1>4, <1>5, <1>6, <1>7, DeliveryStep DEF Delivery!DeliveryNext

(* What the abstract specification promises, of the program: a share that  *)
(* is written to the pool was found by a thread, after every share that    *)
(* was written before it; so none is written twice (try_send in            *)
(* mine_one_batch, Controller::run, submit_share).                         *)
THEOREM SharesInOrder ==
  Spec => [](\A i, j \in 1 .. Len(sent) : sent[i] \in 1 .. found /\ (i < j => sent[i] < sent[j]))
<1>1. Init => InOrder(sent, Path, found)
  <2>1. << >> \in Seq(Nat) /\ Len(<< >>) = 0
    BY EmptySeq
  <2>2. << >> \o << >> \o << >> = << >>
    BY <2>1, ConcatEmptySeq
  <2>3. Init => sent = << >> /\ Path = << >> \o << >> \o << >>
    BY DEF Init, ChannelsInit, ControllerInit, ClientInit, Path
  <2> QED BY <2>1, <2>2, <2>3 DEF InOrder
<1>2. InOrder(sent, Path, found) =>
        \A i, j \in 1 .. Len(sent) : sent[i] \in 1 .. found /\ (i < j => sent[i] < sent[j])
  BY DEF InOrder
<1> QED BY <1>1, <1>2, PathCorrect, OrderStep, PTL DEF Spec

-----------------------------------------------------------------------------
(* What the controller will believe of the login once it has read the      *)
(* events q, if it now believes b.                                         *)
WillBelieve(q, b) ==
  \/ \E i \in DOMAIN q : q[i] = "Connected" /\ \A j \in DOMAIN q : j > i => q[j] # "Disconnected"
  \/ b /\ \A j \in DOMAIN q : q[j] # "Disconnected"

LEMMA BelieveNone == ASSUME NEW b PROVE WillBelieve(<< >>, b) <=> b
BY DEF WillBelieve

LEMMA BelieveOne ==
  ASSUME NEW b, NEW e
  PROVE  /\ e = "Connected" => WillBelieve(<<e>>, b)
         /\ e = "Disconnected" => ~WillBelieve(<<e>>, b)
         /\ e \notin {"Connected", "Disconnected"} => (WillBelieve(<<e>>, b) <=> b)
BY DEF WillBelieve

LEMMA BelieveTwo ==
  ASSUME NEW b
  PROVE  WillBelieve(<<"NewJob", "Connected">>, b)
BY DEF WillBelieve

LEMMA BelieveConcat ==
  ASSUME NEW q \in Seq(Events), NEW r \in Seq(Events), NEW b
  PROVE  WillBelieve(q \o r, b) <=> WillBelieve(r, WillBelieve(q, b))
<1> DEFINE w == q \o r
<1>1. /\ DOMAIN q = 1 .. Len(q) /\ DOMAIN r = 1 .. Len(r) /\ Len(q) \in Nat /\ Len(r) \in Nat
  OBVIOUS
<1>2. /\ DOMAIN w = 1 .. Len(q) + Len(r)
      /\ \A i \in 1 .. Len(q) + Len(r) : w[i] = IF i <= Len(q) THEN q[i] ELSE r[i - Len(q)]
  BY ConcatProperties
<1> HIDE DEF w
<1>3. /\ \A i \in DOMAIN q : i \in DOMAIN w /\ w[i] = q[i]
      /\ \A i \in DOMAIN r : i + Len(q) \in DOMAIN w /\ w[i + Len(q)] = r[i]
  BY <1>1, <1>2
<1>4. \A i \in DOMAIN w : i \in DOMAIN q \/ (i - Len(q) \in DOMAIN r /\ i = (i - Len(q)) + Len(q) /\ i > Len(q))
  BY <1>1, <1>2
<1>5. ASSUME WillBelieve(w, b) PROVE WillBelieve(r, WillBelieve(q, b))
  <2>1. CASE b /\ \A j \in DOMAIN w : w[j] # "Disconnected"
    BY <1>3, <2>1 DEF WillBelieve
  <2>2. CASE \E i \in DOMAIN w : w[i] = "Connected" /\ \A j \in DOMAIN w : j > i => w[j] # "Disconnected"
    <3>1. PICK i \in DOMAIN w : w[i] = "Connected" /\ \A j \in DOMAIN w : j > i => w[j] # "Disconnected"
      BY <2>2
    <3>2. CASE i \in DOMAIN q
      <4>1. \A j \in DOMAIN r : r[j] # "Disconnected"
        <5>1. ASSUME NEW j \in DOMAIN r PROVE r[j] # "Disconnected"
          <6>1. j + Len(q) > i
            BY <1>1, <3>2
          <6> QED BY <1>3, <3>1, <6>1
        <5> QED BY <5>1
      <4>2. WillBelieve(q, b)
        BY <1>3, <3>1, <3>2 DEF WillBelieve
      <4> QED BY <4>1, <4>2 DEF WillBelieve
    <3>3. CASE i \notin DOMAIN q
      <4>1. i - Len(q) \in DOMAIN r /\ r[i - Len(q)] = "Connected"
        BY <1>3, <1>4, <3>1, <3>3
      <4>2. ASSUME NEW j \in DOMAIN r, j > i - Len(q) PROVE r[j] # "Disconnected"
        <5>1. j + Len(q) > i
          BY <1>1, <1>2, <4>2
        <5> QED BY <1>3, <3>1, <5>1
      <4> QED BY <4>1, <4>2 DEF WillBelieve
    <3> QED BY <3>2, <3>3
  <2> QED BY <1>5, <2>1, <2>2 DEF WillBelieve
<1>6. ASSUME WillBelieve(r, WillBelieve(q, b)) PROVE WillBelieve(w, b)
  <2>1. CASE \E i \in DOMAIN r : r[i] = "Connected" /\ \A j \in DOMAIN r : j > i => r[j] # "Disconnected"
    <3>1. PICK i \in DOMAIN r : r[i] = "Connected" /\ \A j \in DOMAIN r : j > i => r[j] # "Disconnected"
      BY <2>1
    <3>2. i + Len(q) \in DOMAIN w /\ w[i + Len(q)] = "Connected"
      BY <1>3, <3>1
    <3>3. ASSUME NEW j \in DOMAIN w, j > i + Len(q) PROVE w[j] # "Disconnected"
      <4>1. j \notin DOMAIN q /\ j - Len(q) > i
        BY <1>1, <1>2, <3>3
      <4>2. j - Len(q) \in DOMAIN r /\ w[j] = r[j - Len(q)]
        BY <1>3, <1>4, <4>1
      <4> QED BY <3>1, <4>1, <4>2
    <3> QED BY <3>2, <3>3 DEF WillBelieve
  <2>2. CASE WillBelieve(q, b) /\ \A j \in DOMAIN r : r[j] # "Disconnected"
    <3>1. ASSUME NEW j \in DOMAIN w, w[j] = "Disconnected" PROVE j \in DOMAIN q /\ q[j] = "Disconnected"
      BY <1>3, <1>4, <2>2, <3>1
    <3> QED BY <1>3, <2>2, <3>1 DEF WillBelieve
  <2> QED BY <1>6, <2>1, <2>2 DEF WillBelieve
<1> QED BY <1>5, <1>6 DEF w

(* What the client has told the controller so far, and what it stands for. *)
Told == WillBelieve(eventQ \o outbox, loggedIn)

LoginInv ==
  /\ sPc = "session" => Told
  /\ Told => sPc \in {"session", "ended", "aborted"} \/ profile > 1

(* What a step of the client tells the controller.                         *)
LEMMA Telling ==
  ASSUME eventQ \in Seq(Events), eventQ' = eventQ, loggedIn' = loggedIn, outbox = << >>
  PROVE  /\ outbox' \in {<<"Connected">>, <<"NewJob", "Connected">>} => Told'
         /\ outbox' = <<"Disconnected">> => ~Told'
         /\ outbox' \in {<< >>, <<"NewJob">>, <<"Accepted">>, <<"Rejected">>} => (Told' <=> Told)
<1> DEFINE b == WillBelieve(eventQ, loggedIn)
<1>1. /\ << >> \in Seq(Events)
      /\ \A e \in Events : <<e>> \in Seq(Events)
      /\ <<"NewJob", "Connected">> \in Seq(Events)
  BY EmptySeq DEF Events
<1>2. Told <=> b
  <2>1. eventQ \o << >> = eventQ
    BY ConcatEmptySeq
  <2> QED BY <2>1 DEF Told
<1>3. ASSUME NEW r \in Seq(Events), outbox' = r
      PROVE  Told' <=> WillBelieve(r, b)
  <2>1. WillBelieve(eventQ \o r, loggedIn) <=> WillBelieve(r, WillBelieve(eventQ, loggedIn))
    BY BelieveConcat
  <2> QED BY <1>3, <2>1 DEF Told
<1> HIDE DEF b
<1>5. CASE outbox' = <<"NewJob", "Connected">>
  BY <1>1, <1>3, <1>5, BelieveTwo
<1>6. ASSUME NEW e \in Events, outbox' = <<e>>
      PROVE  /\ e = "Connected" => Told'
             /\ e = "Disconnected" => ~Told'
             /\ e \notin {"Connected", "Disconnected"} => (Told' <=> Told)
  BY <1>1, <1>2, <1>3, <1>6, BelieveOne
<1>7. CASE outbox' = <<"Connected">>
  <2>1. Told'
    BY <1>6, <1>7 DEF Events
  <2> QED BY <1>7, <2>1
<1>8. CASE outbox' = <<"Disconnected">>
  <2>1. ~Told'
    BY <1>6, <1>8 DEF Events
  <2> QED BY <1>8, <2>1
<1>9. ASSUME NEW e \in {"NewJob", "Accepted", "Rejected"}, outbox' = <<e>>
      PROVE  Told' <=> Told
  BY <1>6, <1>9 DEF Events
<1>10. outbox' \in {<< >>, <<"NewJob">>, <<"Accepted">>, <<"Rejected">>} => (Told' <=> Told)
  <2>1. CASE outbox' = << >>
    <3>1. Told' <=> WillBelieve(<< >>, b)
      BY <1>1, <1>3, <2>1
    <3>2. WillBelieve(<< >>, b) <=> b
      BY DEF WillBelieve
    <3> QED BY <1>2, <3>1, <3>2
  <2> QED BY <1>9, <2>1
<1> QED BY <1>5, <1>7, <1>8, <1>10

LEMMA LoginStep == PathInv /\ LoginInv /\ [Next]_vars => LoginInv'
<1> SUFFICES ASSUME PathInv, LoginInv, [Next]_vars PROVE LoginInv'
  OBVIOUS
<1>0. /\ eventQ \in Seq(Events) /\ outbox \in Seq(Events) /\ << >> \in Seq(Events)
      /\ profile \in 1 .. LastProfile
  BY PathSequences, EmptySeq DEF PathInv, SessionTypeOK
<1>same. ASSUME UNCHANGED <<eventQ, outbox, loggedIn, sPc, profile>> PROVE LoginInv'
  BY <1>same DEF LoginInv, Told
<1>1. CASE ThreadFinds \/ UserStops \/ ShareBranch \/ ShareForwarded
  BY <1>1, <1>same
     DEF ThreadFinds, Find, UserStops, CtrlC, ShareBranch, TakeShare, ShareForwarded, ForwardShare,
         LoseShare, channelVars, controllerVars, clientVars
<1>2. CASE EventBranch
  <2>1. /\ eventQ # << >> /\ eventQ' = Tail(eventQ) /\ UNCHANGED <<outbox, sPc, profile>>
        /\ loggedIn' = CASE Head(eventQ) = "Connected"    -> TRUE
                         [] Head(eventQ) = "Disconnected" -> FALSE
                         [] OTHER                         -> loggedIn
    BY <1>2 DEF EventBranch, HandleEvent, clientVars
  <2>2. /\ Head(eventQ) \in Events /\ Tail(eventQ) \in Seq(Events)
        /\ eventQ = <<Head(eventQ)>> \o Tail(eventQ) /\ <<Head(eventQ)>> \in Seq(Events)
    BY <1>0, <2>1, HeadFirst
  <2>3. Tail(eventQ) \o outbox \in Seq(Events)
        /\ eventQ \o outbox = <<Head(eventQ)>> \o (Tail(eventQ) \o outbox)
    BY <1>0, <2>2, ConcatProperties, ConcatAssociative
  <2>4. Told <=> WillBelieve(Tail(eventQ) \o outbox, WillBelieve(<<Head(eventQ)>>, loggedIn))
    BY <2>2, <2>3, BelieveConcat DEF Told
  <2>5. WillBelieve(<<Head(eventQ)>>, loggedIn) <=> loggedIn'
    BY <2>1, BelieveOne
  <2>6. Told' <=> Told
    BY <2>1, <2>4, <2>5 DEF Told, WillBelieve
  <2> QED BY <2>1, <2>6 DEF LoginInv
<1>3. CASE ShutdownBranch
  BY <1>3 DEF ShutdownBranch, Abort, LoginInv
<1>4. CASE EventSent
  <2>1. /\ outbox # << >> /\ outbox' = Tail(outbox) /\ eventQ' = Append(eventQ, Head(outbox))
        /\ UNCHANGED <<loggedIn, sPc, profile>>
    BY <1>4 DEF EventSent, SendEvent, controllerVars
  <2>2. /\ Head(outbox) \in Events /\ Tail(outbox) \in Seq(Events)
        /\ outbox = <<Head(outbox)>> \o Tail(outbox) /\ <<Head(outbox)>> \in Seq(Events)
    BY <1>0, <2>1, HeadFirst
  <2>3. Append(eventQ, Head(outbox)) = eventQ \o <<Head(outbox)>>
    BY <1>0, <2>2, AppendIsConcat
  <2>4. (eventQ \o <<Head(outbox)>>) \o Tail(outbox) = eventQ \o (<<Head(outbox)>> \o Tail(outbox))
    BY <1>0, <2>2, ConcatAssociative
  <2>5. eventQ' \o outbox' = eventQ \o outbox
    BY <2>1, <2>2, <2>3, <2>4
  <2> QED BY <2>1, <2>5 DEF LoginInv, Told
<1>5. CASE SubmitBranch \/ (Connecting /\ UNCHANGED controllerVars)
  BY <1>5, <1>same DEF SubmitBranch, Submit, Connecting, channelVars, controllerVars
<1>6. CASE BackoffEnds \/ (Connect /\ UNCHANGED controllerVars)
  <2>1. /\ sPc \in {"backoff", "connect"} /\ sPc' \in {"connect", "login"}
        /\ UNCHANGED <<eventQ, outbox, loggedIn, profile>>
    BY <1>6 DEF BackoffEnds, EndBackoff, Connect, At, channelVars, controllerVars
  <2> QED BY <2>1 DEF LoginInv, Told
<1>7. CASE (Break \/ SubmitBreaks) /\ UNCHANGED controllerVars
  <2>1. PICK retryable \in BOOLEAN : Breaks(retryable)
    BY <1>7 DEF Break, SubmitBreaks
  <2>2. outbox = << >> /\ eventQ' = eventQ /\ loggedIn' = loggedIn
    BY <1>7 DEF Break, SubmitBreaks, At, channelVars, controllerVars
  <2>3. CASE retryable /\ profile < LastProfile
    <3>1. sPc' = "connect" /\ profile' = profile + 1
      BY <2>1, <2>3 DEF Breaks
    <3>2. profile' > 1
      BY <1>0, <3>1 DEF LastProfile
    <3> QED BY <3>1, <3>2 DEF LoginInv
  <2>4. CASE ~(retryable /\ profile < LastProfile)
    <3>1. sPc' = "backoff" /\ outbox' = <<"Disconnected">>
      BY <2>1, <2>4 DEF Breaks
    <3>2. ~Told'
      BY <1>0, <2>2, <3>1, Telling
    <3> QED BY <3>1, <3>2 DEF LoginInv
  <2> QED BY <2>3, <2>4
<1>8. CASE LoginOk /\ UNCHANGED controllerVars
  <2>1. /\ outbox = << >> /\ eventQ' = eventQ /\ loggedIn' = loggedIn /\ sPc' = "session"
        /\ outbox' \in {<<"Connected">>, <<"NewJob", "Connected">>}
    BY <1>8 DEF LoginOk, At, PublishJob, channelVars, controllerVars
  <2>2. Told'
    BY <1>0, <2>1, Telling
  <2> QED BY <2>1, <2>2 DEF LoginInv
<1>9. CASE (HandleJob \/ \E e \in {"Accepted", "Rejected"} : HandleAnswer(e)) /\ UNCHANGED controllerVars
  <2>1. /\ outbox = << >> /\ eventQ' = eventQ /\ loggedIn' = loggedIn /\ sPc' = sPc /\ profile' = profile
        /\ outbox' \in {<<"NewJob">>, <<"Accepted">>, <<"Rejected">>}
    BY <1>9 DEF HandleJob, HandleAnswer, At, PublishJob, channelVars, controllerVars
  <2>2. Told' <=> Told
    BY <1>0, <2>1, Telling
  <2> QED BY <2>1, <2>2 DEF LoginInv
<1>10. CASE PoolCloses /\ UNCHANGED controllerVars
  BY <1>10 DEF PoolCloses, LoginInv
<1>11. CASE UNCHANGED vars
  BY <1>11, <1>same DEF vars, channelVars, controllerVars, clientVars
<1> QED
  BY <1>1, <1>2, <1>3, <1>4, <1>5, <1>6, <1>7, <1>8, <1>9, <1>10, <1>11 DEF Next, PoolActs

(* Once it has read all there is to read, the controller knows whether the *)
(* client has a session -- unless another login profile is being tried, or *)
(* the client has ended.                                                   *)
THEOREM LoginFollowed == Spec => []LoginKnown
<1>1. Init => LoginInv
  <2>1. << >> \in Seq(Nat)
    BY EmptySeq
  <2>2. << >> \o << >> = << >>
    BY <2>1, ConcatEmptySeq
  <2> QED BY <2>2, BelieveNone DEF Init, ChannelsInit, ControllerInit, ClientInit, LoginInv, Told
<1>2. LoginInv => LoginKnown
  <2>1. << >> \in Seq(Nat)
    BY EmptySeq
  <2>2. << >> \o << >> = << >>
    BY <2>1, ConcatEmptySeq
  <2>3. eventQ = << >> /\ outbox = << >> => (Told <=> loggedIn)
    BY <2>2, BelieveNone DEF Told
  <2> QED BY <2>3 DEF LoginInv, LoginKnown
<1> QED BY <1>1, <1>2, PathCorrect, LoginStep, PTL DEF Spec

=============================================================================
