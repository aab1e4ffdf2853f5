---------------------------- MODULE DaemonSoloProofs ----------------------------
(***************************************************************************)
(* Solo mining, for any number of threads, templates and candidates.       *)
(*                                                                         *)
(* Two invariants are inductive.  Tallied counts candidates.  Traceable    *)
(* says of every template that may still turn up in the select loop -- in  *)
(* the job task, the watch channel, a thread or the queue -- that it is on *)
(* file, or another one that came under the same id.                       *)
(***************************************************************************)
EXTENDS DaemonSolo, SequenceTheorems, TLAPS

(* Template t can be found in the files, if only as a later one that took  *)
(* its place.                                                              *)
OnFile(t, files, again) ==
  /\ files[t.id] # NoTemplate
  /\ files[t.id] = t \/ t.id \in again

InUse ==
  {t \in Templates :
     \/ fPc = "publish" /\ t = fetched
     \/ t = latest
     \/ \E th \in Threads : t = job[th]
     \/ \E n \in 1 .. Len(minedQ) : t = minedQ[n]}

FilesTypeOK ==
  /\ templates \in [Ids -> Templates \cup {NoTemplate}]
  /\ reused \subseteq Ids
  /\ current \in Templates \cup {NoTemplate}
  /\ fPc \in {"store", "publish"} => fetched \in Templates
  /\ latest \in Templates \cup {NoTemplate}
  /\ job \in [Threads -> Templates \cup {NoTemplate}]
  /\ minedQ \in Seq(Templates)

Traceable ==
  /\ FilesTypeOK
  /\ \A t \in InUse : OnFile(t, templates, reused)
  /\ BlockOfItsCandidate

LEMMA IdOfTemplate == \A t \in Templates : t.id \in Ids
  BY DEF Ids

(* Filing a template under an id in use marks the id as reused.            *)
LEMMA StoreKeepsFiles ==
  ASSUME FilesTypeOK, StoreTemplate, NEW t \in Templates,
         t = fetched \/ OnFile(t, templates, reused)
  PROVE  OnFile(t, templates', reused')
<1>1. fetched \in Templates /\ fetched.id \in Ids /\ t.id \in Ids /\ fetched # NoTemplate
  BY IdOfTemplate, SoloAssumption DEF FilesTypeOK, StoreTemplate
<1>2. templates' = [templates EXCEPT ![fetched.id] = fetched]
  BY DEF StoreTemplate, Filed
<1>3. reused' = IF templates[fetched.id] \in {NoTemplate, fetched}
                THEN reused ELSE reused \cup {fetched.id}
  BY DEF StoreTemplate
<1>4. CASE t.id # fetched.id
  <2>1. templates'[t.id] = templates[t.id] /\ reused \subseteq reused'
    BY <1>1, <1>2, <1>3, <1>4 DEF FilesTypeOK
  <2>2. QED
    BY <1>4, <2>1 DEF OnFile
<1>5. CASE t.id = fetched.id
  <2>1. templates'[t.id] = fetched
    BY <1>1, <1>2, <1>5 DEF FilesTypeOK
  <2>2. QED
    BY <1>1, <1>3, <1>5, <2>1 DEF OnFile
<1>6. QED
  BY <1>4, <1>5

-----------------------------------------------------------------------------
LEMMA FilesTypeInit == Init => FilesTypeOK
  BY DEF Init, FilesTypeOK

LEMMA FilesTypeNext == FilesTypeOK /\ [Next]_vars => FilesTypeOK'
<1> SUFFICES ASSUME FilesTypeOK, [Next]_vars PROVE FilesTypeOK'
  OBVIOUS
<1> USE DEF FilesTypeOK, fetchVars, mineVars, loopVars
<1>1. CASE DaemonChanges
  BY <1>1 DEF DaemonChanges
<1>2. CASE CtrlC
  BY <1>2 DEF CtrlC
<1>3. CASE JobTask
  <2>1. CASE RpcOk
    BY <1>3, <2>1 DEF JobTask, RpcOk
  <2>2. CASE RpcFails
    BY <1>3, <2>2 DEF JobTask, RpcFails
  <2>3. CASE StoreTemplate
    <3>1. fetched \in Templates /\ fetched.id \in Ids
      BY <2>3, IdOfTemplate DEF StoreTemplate
    <3>2. QED
      BY <1>3, <2>3, <3>1 DEF JobTask, StoreTemplate, Filed
  <2>4. CASE PublishJob
    BY <1>3, <2>4 DEF JobTask, PublishJob
  <2>5. CASE SleepEnds
    BY <1>3, <2>5 DEF JobTask, SleepEnds
  <2>6. QED
    BY <1>3, <2>1, <2>2, <2>3, <2>4, <2>5 DEF JobTask
<1>4. ASSUME NEW t \in Threads, TakeJob(t) PROVE FilesTypeOK'
  BY <1>4 DEF TakeJob
<1>5. ASSUME NEW t \in Threads, Find(t) PROVE FilesTypeOK'
  BY <1>5 DEF Find
<1>6. CASE RejectLocally
  BY <1>6 DEF RejectLocally
<1>7. CASE StartSubmit
  BY <1>7 DEF StartSubmit
<1>8. CASE SubmitAnswered
  BY <1>8 DEF SubmitAnswered
<1>9. CASE Stop
  BY <1>9 DEF Stop
<1>10. CASE UNCHANGED vars
  BY <1>10 DEF vars
<1>11. QED
  BY <1>1, <1>2, <1>3, <1>4, <1>5, <1>6, <1>7, <1>8, <1>9, <1>10 DEF Next

-----------------------------------------------------------------------------
(* Only StoreTemplate brings a new template into use.                      *)
LEMMA InUseShrinks ==
  ASSUME FilesTypeOK, [Next]_vars, ~StoreTemplate
  PROVE  InUse' \subseteq InUse
<1> USE DEF FilesTypeOK, fetchVars, mineVars, loopVars, InUse
<1>1. CASE DaemonChanges
  BY <1>1 DEF DaemonChanges
<1>2. CASE CtrlC
  BY <1>2 DEF CtrlC
<1>3. CASE JobTask
  <2>1. UNCHANGED <<job, minedQ>>
    BY <1>3 DEF JobTask
  <2>2. CASE PublishJob
    BY <2>1, <2>2 DEF PublishJob
  <2>3. CASE RpcOk \/ RpcFails \/ SleepEnds
    BY <2>1, <2>3 DEF RpcOk, RpcFails, SleepEnds
  <2>4. QED
    BY <1>3, <2>2, <2>3 DEF JobTask
<1>4. ASSUME NEW t \in Threads, TakeJob(t) PROVE InUse' \subseteq InUse
  BY <1>4 DEF TakeJob
<1>5. ASSUME NEW t \in Threads, Find(t) PROVE InUse' \subseteq InUse
  <2>1. job[t] \in Templates
    BY <1>5 DEF Find
  <2>2. \A n \in 1 .. Len(minedQ') : minedQ'[n] \in {job[t]} \cup {minedQ[m] : m \in 1 .. Len(minedQ)}
    BY <1>5, <2>1 DEF Find
  <2>3. QED
    BY <1>5, <2>1, <2>2 DEF Find
<1>6. CASE RejectLocally \/ StartSubmit
  <2>1. minedQ' = Tail(minedQ) /\ minedQ # << >> /\ UNCHANGED <<fPc, fetched, latest, job>>
    BY <1>6 DEF RejectLocally, StartSubmit
  <2>2. \A n \in 1 .. Len(minedQ') : n + 1 \in 1 .. Len(minedQ) /\ minedQ'[n] = minedQ[n + 1]
    BY <2>1
  <2>3. QED
    BY <2>1, <2>2
<1>7. CASE SubmitAnswered
  BY <1>7 DEF SubmitAnswered
<1>8. CASE Stop
  BY <1>8 DEF Stop
<1>9. CASE UNCHANGED vars
  BY <1>9 DEF vars
<1>10. QED
  BY <1>1, <1>2, <1>3, <1>4, <1>5, <1>6, <1>7, <1>8, <1>9 DEF Next

LEMMA TraceableInit == Init => Traceable
<1> SUFFICES ASSUME Init PROVE Traceable
  OBVIOUS
<1>1. InUse = {}
  BY SoloAssumption DEF Init, InUse
<1>2. QED
  BY <1>1, FilesTypeInit DEF Traceable, BlockOfItsCandidate, Init

LEMMA TraceableNext == Traceable /\ [Next]_vars => Traceable'
<1> SUFFICES ASSUME Traceable, [Next]_vars PROVE Traceable'
  OBVIOUS
<1> USE DEF fetchVars, mineVars, loopVars
<1>1. FilesTypeOK /\ FilesTypeOK'
  BY FilesTypeNext DEF Traceable
<1>2. reused \subseteq reused'
  BY DEF Next, DaemonChanges, CtrlC, JobTask, RpcOk, RpcFails, StoreTemplate, PublishJob, SleepEnds,
         TakeJob, Find, RejectLocally, StartSubmit, SubmitAnswered, Stop, vars
<1>3. \A t \in InUse' : OnFile(t, templates', reused')
  <2> SUFFICES ASSUME NEW t \in InUse' PROVE OnFile(t, templates', reused')
    OBVIOUS
  <2>0. t \in Templates
    BY DEF InUse
  <2>1. CASE StoreTemplate
    <3>1. UNCHANGED <<job, minedQ>>
      BY <2>1 DEF Next, JobTask, StoreTemplate, DaemonChanges, CtrlC, TakeJob, Find, RejectLocally,
                  StartSubmit, SubmitAnswered, Stop, vars
    <3>2. t = fetched \/ t \in InUse
      BY <2>1, <3>1 DEF StoreTemplate, InUse
    <3>3. t = fetched \/ OnFile(t, templates, reused)
      BY <3>2 DEF Traceable
    <3>4. QED
      BY <1>1, <2>0, <2>1, <3>3, StoreKeepsFiles
  <2>2. CASE ~StoreTemplate
    <3>1. t \in InUse
      BY <1>1, <2>2, InUseShrinks
    <3>2. UNCHANGED <<templates, reused>>
      BY <2>2 DEF Next, DaemonChanges, CtrlC, JobTask, RpcOk, RpcFails, PublishJob, SleepEnds,
                  TakeJob, Find, RejectLocally, StartSubmit, SubmitAnswered, Stop, vars
    <3>3. QED
      BY <3>1, <3>2 DEF Traceable, OnFile
  <2>3. QED
    BY <2>1, <2>2
<1>4. BlockOfItsCandidate'
  <2>1. CASE StartSubmit
    <3>1. minedQ # << >> /\ minedQ \in Seq(Templates)
      BY <1>1, <2>1 DEF StartSubmit, FilesTypeOK
    <3>2. Head(minedQ) = minedQ[1] /\ 1 \in 1 .. Len(minedQ) /\ Head(minedQ) \in Templates
      BY <3>1
    <3>3. OnFile(Head(minedQ), templates, reused)
      BY <3>2 DEF Traceable, InUse
    <3>4. block' = templates[Head(minedQ).id] /\ candidate' = Head(minedQ) /\ reused' = reused
      BY <2>1 DEF StartSubmit, LookUp
    <3>5. QED
      BY <3>3, <3>4 DEF OnFile, BlockOfItsCandidate
  <2>2. CASE cPc' # "submit"
    BY <2>2 DEF BlockOfItsCandidate
  <2>3. CASE cPc' = "submit" /\ ~StartSubmit
    <3>1. UNCHANGED <<cPc, candidate, block>>
      BY <2>3 DEF Next, DaemonChanges, CtrlC, JobTask, TakeJob, Find, RejectLocally, SubmitAnswered,
                  SubmitEnds, Stop, vars
    <3>2. QED
      BY <1>2, <2>3, <3>1 DEF Traceable, BlockOfItsCandidate
  <2>4. QED
    BY <2>1, <2>2, <2>3
<1>5. QED
  BY <1>1, <1>3, <1>4 DEF Traceable

LEMMA TraceableInvariant == Spec => []Traceable
  BY TraceableInit, TraceableNext, PTL DEF Spec

(* No candidate is rejected for want of a template.                        *)
THEOREM TemplatesStayOnFile == Spec => []TemplateOnFile
<1>1. Traceable => TemplateOnFile
  BY DEF Traceable, TemplateOnFile, InUse, OnFile, FilesTypeOK
<1>2. QED
  BY <1>1, TraceableInvariant, PTL

(* A block is made from the template its nonce was found for, or its id    *)
(* has been used for two templates.                                        *)
THEOREM RightBlockSubmitted == Spec => []BlockOfItsCandidate
<1>1. Traceable => BlockOfItsCandidate
  BY DEF Traceable
<1>2. QED
  BY <1>1, TraceableInvariant, PTL

-----------------------------------------------------------------------------
(* Every candidate is in one place.                                        *)
Tallied ==
  /\ minedQ \in Seq(Templates)
  /\ job \in [Threads -> Templates \cup {NoTemplate}]
  /\ accepted \in Nat /\ rejected \in Nat /\ queued \in Nat
  /\ cPc \in {"select", "submit", "stopped"}
  /\ SoloTally

LEMMA TallyNext == FilesTypeOK /\ Tallied /\ [Next]_vars => Tallied'
<1> SUFFICES ASSUME FilesTypeOK, Tallied, [Next]_vars PROVE Tallied'
  OBVIOUS
<1>0. minedQ' \in Seq(Templates) /\ job' \in [Threads -> Templates \cup {NoTemplate}]
  BY FilesTypeNext DEF FilesTypeOK
<1> USE DEF Tallied, SoloTally, fetchVars, mineVars, loopVars
<1>1. CASE UNCHANGED <<mineVars, cPc, accepted, rejected>>
  BY <1>0, <1>1
<1>2. ASSUME NEW t \in Threads, TakeJob(t) PROVE Tallied'
  BY <1>0, <1>2 DEF TakeJob
<1>3. ASSUME NEW t \in Threads, Find(t) PROVE Tallied'
  BY <1>0, <1>3 DEF Find
<1>4. CASE RejectLocally
  <2>1. minedQ # << >> /\ minedQ' = Tail(minedQ)
    BY <1>4 DEF RejectLocally
  <2>2. Len(minedQ') = Len(minedQ) - 1
    BY <2>1
  <2>3. QED
    BY <1>0, <1>4, <2>2 DEF RejectLocally
<1>5. CASE StartSubmit
  <2>1. minedQ # << >> /\ minedQ' = Tail(minedQ)
    BY <1>5 DEF StartSubmit
  <2>2. Len(minedQ') = Len(minedQ) - 1
    BY <2>1
  <2>3. QED
    BY <1>0, <1>5, <2>2 DEF StartSubmit
<1>6. CASE SubmitAnswered
  <2>1. PICK outcome \in {"Accepted", "Rejected"} : SubmitEnds(outcome)
    BY <1>6 DEF SubmitAnswered
  <2>2. /\ cPc = "submit" /\ cPc' = "select"
        /\ minedQ' = minedQ /\ queued' = queued
        /\ accepted' \in Nat /\ rejected' \in Nat
        /\ accepted' + rejected' = accepted + rejected + 1
    <3>1. CASE outcome = "Accepted"
      BY <1>6, <2>1, <3>1 DEF SubmitAnswered, SubmitEnds
    <3>2. CASE outcome = "Rejected"
      BY <1>6, <2>1, <3>2 DEF SubmitAnswered, SubmitEnds
    <3>3. QED
      BY <3>1, <3>2
  <2>3. Len(minedQ) \in Nat /\ Len(minedQ') = Len(minedQ)
    BY <2>2
  <2>4. queued' = Len(minedQ') + accepted' + rejected'
    <3> DEFINE len == Len(minedQ)
               a == accepted'
               r == rejected'
    <3>1. /\ len \in Nat /\ Len(minedQ') = len
          /\ queued = len + accepted + rejected + 1 /\ queued' = queued
          /\ a \in Nat /\ r \in Nat /\ a + r = accepted + rejected + 1
          /\ accepted \in Nat /\ rejected \in Nat
      BY <2>2, <2>3
    <3> HIDE DEF len, a, r, Tallied, SoloTally
    <3>2. queued = len + a + r
      BY <3>1
    <3>3. QED
      BY <3>1, <3>2 DEF a, r
  <2>5. QED
    BY <1>0, <2>2, <2>4
<1>7. CASE Stop
  BY <1>0, <1>7 DEF Stop
<1>8. QED
  BY <1>1, <1>2, <1>3, <1>4, <1>5, <1>6, <1>7
     DEF Next, DaemonChanges, CtrlC, JobTask, vars

(* Every candidate that enters the queue is counted, once, as accepted or  *)
(* as rejected.                                                            *)
THEOREM CandidatesCountedOnce == Spec => []SoloTally
<1>1. Init => Tallied
  BY DEF Init, Tallied, SoloTally
<1>2. Tallied => SoloTally
  BY DEF Tallied
<1>3. QED
  BY <1>1, <1>2, FilesTypeInit, FilesTypeNext, TallyNext, PTL DEF Spec

-----------------------------------------------------------------------------
(* The statistics keep below the candidates found, which the types need.   *)
SoloInv == FilesTypeOK /\ Tallied /\ SoloTypeOK /\ queued <= found

LEMMA SoloInitInv == Init => SoloInv
<1> SUFFICES ASSUME Init PROVE SoloInv
  OBVIOUS
<1>1. FilesTypeOK
  BY FilesTypeInit
<1>2. Tallied
  BY DEF Init, Tallied, SoloTally
<1>3. SoloTypeOK /\ queued <= found
  <2>1. Len(minedQ) = 0 /\ 0 <= MinedCap /\ 0 \in 0 .. MaxFound
    BY SoloAssumption DEF Init
  <2>2. accepted = 0 /\ rejected = 0 /\ queued = 0 /\ found = 0
    BY DEF Init
  <2>3. /\ fPc \in {"rpc", "store", "publish", "sleep", "aborted"}
        /\ fetched \in Templates \cup {NoTemplate}
        /\ cPc \in {"select", "submit", "stopped"}
        /\ candidate \in Templates \cup {NoTemplate}
        /\ block \in Templates \cup {NoTemplate}
        /\ ctrlC \in BOOLEAN
    BY DEF Init
  <2> QED BY <1>1, <2>1, <2>2, <2>3 DEF FilesTypeOK, SoloTypeOK
<1> QED BY <1>1, <1>2, <1>3 DEF SoloInv

(* What is not bounded by MaxFound.                                        *)
LEMMA SoloPositions ==
  ASSUME SoloInv, [Next]_vars
  PROVE  /\ fPc' \in {"rpc", "store", "publish", "sleep", "aborted"}
         /\ fetched' \in Templates \cup {NoTemplate}
         /\ candidate' \in Templates \cup {NoTemplate}
         /\ block' \in Templates \cup {NoTemplate}
         /\ ctrlC' \in BOOLEAN
         /\ cPc' \in {"select", "submit", "stopped"}
<1> USE DEF SoloInv, SoloTypeOK, fetchVars, mineVars, loopVars
<1>1. CASE JobTask
  BY <1>1 DEF JobTask, RpcOk, RpcFails, StoreTemplate, PublishJob, SleepEnds
<1>2. CASE StartSubmit
  <2>1. Head(minedQ) \in Templates /\ Head(minedQ).id \in Ids
    BY <1>2, IdOfTemplate DEF StartSubmit
  <2> QED BY <1>2, <2>1 DEF StartSubmit, LookUp
<1>3. CASE SubmitAnswered
  BY <1>3 DEF SubmitAnswered, SubmitEnds
<1>4. CASE Stop
  BY <1>4 DEF Stop
<1>5. CASE RejectLocally \/ CtrlC \/ DaemonChanges
  BY <1>5 DEF RejectLocally, CtrlC, DaemonChanges
<1>6. CASE (\E t \in Threads : TakeJob(t) \/ Find(t)) \/ UNCHANGED vars
  BY <1>6 DEF TakeJob, Find, vars
<1> QED BY <1>1, <1>2, <1>3, <1>4, <1>5, <1>6 DEF Next

(* The queue never holds more than MinedCap candidates, and of those found *)
(* none is queued twice.                                                   *)
LEMMA SoloBounds ==
  ASSUME SoloInv, [Next]_vars
  PROVE  /\ Len(minedQ') <= MinedCap
         /\ found' \in 0 .. MaxFound /\ queued' \in 0 .. MaxFound
         /\ queued' <= found'
<1> USE SoloAssumption DEF SoloInv, SoloTypeOK, fetchVars, mineVars, loopVars
<1>1. CASE RejectLocally \/ StartSubmit
  <2>1. minedQ # << >> /\ minedQ' = Tail(minedQ)
    BY <1>1 DEF RejectLocally, StartSubmit
  <2>2. Len(minedQ') = Len(minedQ) - 1
    BY <2>1
  <2> QED BY <1>1, <2>2 DEF RejectLocally, StartSubmit
<1>2. ASSUME NEW t \in Threads, Find(t)
      PROVE  /\ Len(minedQ') <= MinedCap
             /\ found' \in 0 .. MaxFound /\ queued' \in 0 .. MaxFound
             /\ queued' <= found'
  <2>1. found' = found + 1 /\ found < MaxFound
    BY <1>2 DEF Find
  <2>2. CASE Len(minedQ) < MinedCap
    <3>1. minedQ' = Append(minedQ, job[t]) /\ queued' = queued + 1 /\ job[t] \in Templates
      BY <1>2, <2>2 DEF Find
    <3>2. Len(minedQ') = Len(minedQ) + 1
      BY <3>1
    <3> QED BY <2>1, <2>2, <3>1, <3>2
  <2>3. CASE ~(Len(minedQ) < MinedCap)
    BY <1>2, <2>1, <2>3 DEF Find
  <2> QED BY <2>2, <2>3
<1>3. CASE UNCHANGED <<minedQ, queued, found>>
  BY <1>3
<1> QED BY <1>1, <1>2, <1>3
   DEF Next, DaemonChanges, CtrlC, JobTask, TakeJob, SubmitAnswered, Stop, vars

LEMMA SoloNext == SoloInv /\ [Next]_vars => SoloInv'
<1> SUFFICES ASSUME SoloInv, [Next]_vars PROVE SoloInv'
  OBVIOUS
<1>1. FilesTypeOK' /\ Tallied'
  BY FilesTypeNext, TallyNext DEF SoloInv
<1>2. accepted' \in 0 .. MaxFound /\ rejected' \in 0 .. MaxFound
  <2> DEFINE len == Len(minedQ')
             a == accepted'
             r == rejected'
             q == queued'
             open == IF cPc' = "submit" THEN 1 ELSE 0
  <2>1. a \in Nat /\ r \in Nat /\ len \in Nat /\ q = len + a + r + open
    BY <1>1 DEF Tallied, SoloTally
  <2>2. q \in 0 .. MaxFound /\ MaxFound \in Nat /\ open \in 0 .. 1
    BY SoloBounds, SoloAssumption
  <2> HIDE DEF len, a, r, q, open
  <2>3. a \in 0 .. MaxFound /\ r \in 0 .. MaxFound
    BY <2>1, <2>2
  <2> QED BY <2>3 DEF a, r
<1> QED BY <1>1, <1>2, SoloPositions, SoloBounds DEF SoloInv, FilesTypeOK, SoloTypeOK

(* The variables keep their types: the queue its capacity, the tasks their *)
(* positions, and no more answers are counted than candidates were found.  *)
THEOREM SoloTypeCorrect == Spec => []SoloTypeOK
<1>1. SoloInv => SoloTypeOK
  BY DEF SoloInv
<1> QED BY <1>1, SoloInitInv, SoloNext, PTL DEF Spec
=============================================================================
