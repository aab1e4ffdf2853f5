-------------------------------- MODULE ShareTarget --------------------------------
(***************************************************************************)
(* From the message that announces a job to the shares submitted for it.   *)
(* decode_target (src/src/job.rs) turns the target into a difficulty, and  *)
(* check_hash_difficulty (src/src/miner.rs) compares hashes with it.  Both *)
(* divide integers, twice in all, and a share is worth something only if   *)
(* the two roundings do not disagree with the pool's.                      *)
(***************************************************************************)
EXTENDS JobParsing

CONSTANT Messages   \* what pools and daemons may send

ASSUME MessagesAssumption ==
  \A m \in Messages :
    /\ m.form \in {"object", "notify", "template"}
    /\ m.form = "template" => m.difficulty \in 0 .. Max64
    /\ m.form # "template" /\ TargetOf(m) # Missing /\ Decodes(TargetOf(m)) => TargetOf(m) \in Targets

VARIABLES
  message,
  job,       \* the job it announces
  worker,    \* a mining thread: before its VM, with it, or refused one
  hash,      \* the last eight bytes of a hash, as a number
  submitted  \* the hash is offered to the pool or the daemon

vars == <<message, job, worker, hash, submitted>>

TargetTypeOK ==
  /\ message.form \in {"object", "notify", "template"}
  /\ job # None => job.difficulty \in 1 .. Max64
  /\ worker \in {"waiting", "hashing", "refused"}
  /\ hash \in {None} \cup 0 .. Max64
  /\ submitted \in BOOLEAN

Init ==
  /\ message \in Messages
  /\ job = None
  /\ worker = "waiting"
  /\ hash = None
  /\ submitted = FALSE

(* The message is parsed.  One that is not accepted changes nothing.       *)
HandleMessage ==
  /\ job = None
  /\ job' = JobOf(message)
  /\ UNCHANGED <<message, worker, hash, submitted>>

(* A thread takes the job and has the VM built.                            *)
TakeJob ==
  /\ job # None
  /\ worker = "waiting"
  /\ worker' = IF CanBuild(job) THEN "hashing" ELSE "refused"
  /\ UNCHANGED <<message, job, hash, submitted>>

(* check_hash_difficulty                                                   *)
MeetsOrEqual(h, d) == d # 0 /\ h <= Max64 \div d
Meets(h, d) == d # 0 /\ h < Max64 \div d

(* A thread has computed a hash for the job.  Checking one leaves nothing  *)
(* behind for the next, so one is enough.                                  *)
CheckHash(h) ==
  /\ worker = "hashing"
  /\ hash = None
  /\ hash' = h
  /\ submitted' = Meets(h, job.difficulty)
  /\ UNCHANGED <<message, job, worker>>

Next == HandleMessage \/ TakeJob \/ \E h \in 0 .. Max64 : CheckHash(h)

Spec == Init /\ [][Next]_vars

-----------------------------------------------------------------------------
(* The target as a bound on the hashes, in units of 1 / Max64.             *)
Scale(width) == IF width = 2 THEN Pow2 + 1 ELSE 1
Bound(b) == LittleEndian(b) * Scale(Len(b))

(* No share is thrown away: a hash below the pool's target is submitted,   *)
(* although the code keeps a rounded difficulty and not the target.        *)
GoodSharesSubmitted ==
  message.form # "template" /\ hash # None /\ hash < Bound(TargetOf(message)) => submitted

(* And none is submitted in vain.  Whoever set the difficulty D -- a pool  *)
(* sends the target it computes from D, the daemon D itself -- finds the   *)
(* work done: hash * D stays below 2^256 whatever the other 24 bytes are.  *)
SetBy(D) ==
  IF message.form = "template" THEN D = message.difficulty
  ELSE LittleEndian(TargetOf(message)) = MaxOf(Len(TargetOf(message))) \div D
NoShareInVain ==
  submitted => \A D \in 1 .. Max64 : SetBy(D) => (hash + 1) * D <= Pow4

(* No announced job is one for which a thread cannot get its dataset: the  *)
(* client, the workers and the native bridge, each with its own list of    *)
(* names and its own idea of an empty seed, agree.                         *)
AnnouncedIsHashed == worker # "refused"
=============================================================================
