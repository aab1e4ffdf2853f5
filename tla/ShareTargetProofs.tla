---------------------------- MODULE ShareTargetProofs ----------------------------
(***************************************************************************)
(* That rounding loses no share and submits none in vain, for every size   *)
(* of a byte and all messages.  Two divisions round down, one after the    *)
(* other: difficulty = Max \div t is then too small, and Max64 \div       *)
(* difficulty comes out at or above the bound t stands for.  The pool has  *)
(* divided a first time, to make t of its own difficulty: dividing back    *)
(* can only come out at or above that.                                     *)
(***************************************************************************)
EXTENDS ShareTarget, TLAPS

(* What the quotient of a division is, without the division.               *)
LEMMA Quotient ==
  ASSUME NEW a \in Nat, NEW b \in Nat \ {0}
  PROVE  /\ a \div b \in Nat
         /\ (a \div b) * b <= a
         /\ a < (a \div b) * b + b
  BY SMT

(* A quotient is as large as any number whose product with the divisor     *)
(* does not exceed the dividend.                                           *)
LEMMA QuotientIsLargest ==
  ASSUME NEW a \in Nat, NEW b \in Nat \ {0}, NEW c \in Nat, c * b <= a
  PROVE  c <= a \div b
<1> DEFINE q == a \div b
<1>1. q \in Nat /\ a < q * b + b
  BY Quotient
<1>2. c * b < (q + 1) * b
  BY <1>1, SMT
<1>3. SUFFICES ASSUME q + 1 <= c PROVE FALSE
  BY <1>1, SMT
<1>4. (q + 1) * b <= c * b
  BY <1>1, <1>3, SMT
<1> HIDE DEF q
<1>5. QED
  BY <1>1, <1>2, <1>4, SMT

(* The factor between the two formats: Max64 is a multiple of Max32.       *)
LEMMA Sizes ==
  /\ Pow2 \in Nat /\ Max32 \in Nat \ {0} /\ Max64 \in Nat \ {0}
  /\ \A width \in {2, 4} :
       /\ Scale(width) \in Nat \ {0}
       /\ MaxOf(width) \in Nat \ {0}
       /\ MaxOf(width) * Scale(width) = Max64
<1>1. Pow2 \in Nat /\ Pow2 >= 4
  BY JobAssumption, SMT DEF Pow2
<1>2. Max32 \in Nat \ {0}
  BY <1>1 DEF Max32
<1>3. Max32 * (Pow2 + 1) = Max64
  BY <1>1, SMT DEF Max32, Max64, Pow4
<1>4. Max64 \in Nat \ {0}
  <2>1. Pow2 * Pow2 \in Nat /\ Pow2 * Pow2 >= 4
    BY <1>1, SMT
  <2>2. QED
    BY <2>1, SMT DEF Max64, Pow4
<1>5. QED
  BY <1>1, <1>2, <1>3, <1>4, SMT DEF Scale, MaxOf

(* The heart of the matter: a hash below the bound of target t meets the   *)
(* difficulty computed from t.                                             *)
LEMMA RoundingKeeps ==
  ASSUME NEW width \in {2, 4},
         NEW t \in 1 .. MaxOf(width),
         NEW h \in Nat,
         h < t * Scale(width)
  PROVE  Meets(h, Difficulty(width, t))
<1> DEFINE M == MaxOf(width)
           S == Scale(width)
           d == M \div t
<1>1. M \in Nat \ {0} /\ S \in Nat \ {0} /\ M * S = Max64 /\ t \in Nat \ {0} /\ t <= M
  BY Sizes
<1>2. d \in Nat /\ d * t <= M
  BY <1>1, Quotient
<1>3. 1 <= d
  <2>1. 1 * t <= M
    BY <1>1
  <2>2. QED
    BY <1>1, <2>1, QuotientIsLargest
<1>4. (h + 1) * d <= Max64
  <2> HIDE DEF M, S, d
  <2>1. h + 1 <= t * S
    BY <1>1, SMT DEF S
  <2>2. (h + 1) * d <= (t * S) * d
    BY <1>1, <1>2, <2>1, SMT
  <2>3. (t * S) * d = (d * t) * S
    BY <1>1, <1>2, SMT
  <2>4. (d * t) * S <= M * S
    BY <1>1, <1>2, SMT
  <2>5. QED
    BY <1>1, <1>2, <2>2, <2>3, <2>4, SMT
<1>5. h + 1 <= Max64 \div d
  BY <1>2, <1>3, <1>4, Sizes, QuotientIsLargest
<1>6. Max64 \div d \in Nat
  BY <1>2, <1>3, Sizes, Quotient
<1>7. Difficulty(width, t) = d
  BY <1>1 DEF Difficulty
<1>8. QED
  BY <1>2, <1>3, <1>5, <1>6, <1>7 DEF Meets

(* A target is a number of its format.                                     *)
LEMMA TargetRange ==
  ASSUME NEW b \in Targets
  PROVE  /\ Len(b) \in {2, 4}
         /\ LittleEndian(b) \in 0 .. MaxOf(Len(b))
<1> USE JobAssumption
<1>1. CASE b \in Byte \X Byte
  <2>1. Len(b) = 2 /\ b[1] \in Byte /\ b[2] \in Byte
    BY <1>1
  <2>2. b[2] * ByteBase <= (ByteBase - 1) * ByteBase
    BY <2>1, SMT DEF Byte
  <2>3. LittleEndian(b) \in Nat /\ LittleEndian(b) <= ByteBase * ByteBase - 1
    BY <2>1, <2>2, SMT DEF Byte, LittleEndian
  <2>4. QED
    BY <2>1, <2>3, Sizes DEF MaxOf, Max32, Pow2
<1>2. CASE b \in Byte \X Byte \X Byte \X Byte
  <2>1. Len(b) = 4 /\ b[1] \in Byte /\ b[2] \in Byte /\ b[3] \in Byte /\ b[4] \in Byte
    BY <1>2
  <2> DEFINE lo == b[1] + ByteBase * b[2]
             hi == b[3] + ByteBase * b[4]
  <2>2. \A x, y \in Byte : x + ByteBase * y \in 0 .. Pow2 - 1
    <3> SUFFICES ASSUME NEW x \in Byte, NEW y \in Byte
                 PROVE  x + ByteBase * y \in 0 .. Pow2 - 1
      OBVIOUS
    <3>1. y * ByteBase <= (ByteBase - 1) * ByteBase
      BY SMT DEF Byte
    <3>2. QED
      BY <3>1, SMT DEF Byte, Pow2
  <2>3. lo \in 0 .. Pow2 - 1 /\ hi \in 0 .. Pow2 - 1
    BY <2>1, <2>2
  <2>4. LittleEndian(b) = lo + Pow2 * hi
    <3>1. Pow2 \in Nat
      BY Sizes
    <3>2. LittleEndian(b) = b[1] + ByteBase * b[2] + Pow2 * (b[3] + ByteBase * b[4])
      BY <2>1 DEF LittleEndian
    <3>3. QED
      BY <3>2
  <2> HIDE DEF lo, hi
  <2>5. hi * Pow2 <= (Pow2 - 1) * Pow2
    BY <2>3, Sizes, SMT
  <2>6. lo + Pow2 * hi \in 0 .. Pow2 * Pow2 - 1
    BY <2>3, <2>5, Sizes, SMT
  <2>7. QED
    BY <2>1, <2>4, <2>6, Sizes DEF MaxOf, Max64, Pow4
<1>3. QED
  BY <1>1, <1>2 DEF Targets

(* A hash that meets a difficulty does the work of it and of any smaller   *)
(* one, whatever its lower bytes are.                                      *)
LEMMA MeetsIsWork ==
  ASSUME NEW d \in Nat, NEW D \in Nat, D <= d, NEW h \in Nat, Meets(h, d)
  PROVE  (h + 1) * D <= Pow4
<1> DEFINE q == Max64 \div d
<1>1. d \in Nat \ {0} /\ h < q
  BY DEF Meets
<1>2. q \in Nat /\ q * d <= Max64
  BY <1>1, Sizes, Quotient
<1> HIDE DEF q
<1>3. h + 1 <= q
  BY <1>1, <1>2
<1>4. (h + 1) * d <= q * d
  BY <1>1, <1>2, <1>3, SMT
<1>5. (h + 1) * D <= (h + 1) * d
  BY SMT
<1>6. Pow4 = Max64 + 1 /\ Max64 \in Nat
  <2>1. Pow4 \in Nat
    BY Sizes, SMT DEF Pow4
  <2> QED BY <2>1, Sizes DEF Max64
<1>7. (h + 1) * D \in Nat /\ (h + 1) * d \in Nat /\ q * d \in Nat
  BY <1>2, SMT
<1> QED BY <1>2, <1>4, <1>5, <1>6, <1>7

(* Dividing the quotient back gives at least the first divisor.            *)
LEMMA DividedBack ==
  ASSUME NEW width \in {2, 4}, NEW D \in 1 .. Max64
  PROVE  /\ MaxOf(width) \div D \in 0 .. MaxOf(width)
         /\ D <= Difficulty(width, MaxOf(width) \div D)
<1> DEFINE M == MaxOf(width)
           t == M \div D
<1>1. M \in Nat \ {0} /\ D \in Nat \ {0} /\ Max64 \in Nat \ {0}
  BY Sizes
<1>2. t \in Nat /\ t * D <= M
  BY <1>1, Quotient
<1>3. t <= M
  <2>1. t <= t * D
    BY <1>1, <1>2, SMT
  <2> HIDE DEF t
  <2> QED BY <1>1, <1>2, <2>1, SMT
<1>4. CASE t = 0
  BY <1>1, <1>2, <1>4 DEF Difficulty
<1>5. CASE t # 0
  <2>1. D * t <= M
    BY <1>1, <1>2, SMT
  <2>2. D <= M \div t
    BY <1>1, <1>2, <1>5, <2>1, QuotientIsLargest
  <2> QED BY <1>1, <1>2, <1>3, <1>5, <2>2 DEF Difficulty
<1> QED BY <1>2, <1>3, <1>4, <1>5, <1>1

LEMMA DifficultyRange ==
  ASSUME NEW width \in {2, 4}, NEW t \in 0 .. MaxOf(width)
  PROVE  Difficulty(width, t) \in 1 .. Max64
<1> DEFINE M == MaxOf(width)
           d == M \div t
<1>1. M \in Nat \ {0} /\ Max64 \in Nat \ {0} /\ M <= Max64
  <2>1. M \in Nat \ {0} /\ Max64 \in Nat \ {0} /\ Scale(width) \in Nat \ {0} /\ M * Scale(width) = Max64
    BY Sizes
  <2>2. M <= M * Scale(width)
    BY <2>1, SMT
  <2> QED BY <2>1, <2>2
<1>2. CASE t = 0
  BY <1>1, <1>2 DEF Difficulty
<1>3. CASE t # 0
  <2>1. t \in Nat \ {0} /\ t <= M
    BY <1>1, <1>3
  <2>2. d \in Nat /\ d * t <= M
    BY <1>1, <2>1, Quotient
  <2>3. d <= d * t
    BY <2>1, <2>2, SMT
  <2>4. 1 <= d
    <3>1. 1 * t <= M
      BY <2>1
    <3> QED BY <1>1, <2>1, <3>1, QuotientIsLargest
  <2>5. d <= Max64
    <3> HIDE DEF d
    <3>1. d * t \in Nat
      BY <2>1, <2>2
    <3> QED BY <1>1, <2>2, <2>3, <3>1
  <2> QED BY <1>1, <1>3, <2>2, <2>4, <2>5 DEF Difficulty
<1> QED BY <1>2, <1>3

-----------------------------------------------------------------------------
(* What a message that is accepted makes of the difficulty.                *)
LEMMA JobOfPool ==
  ASSUME NEW m \in Messages, m.form # "template", JobOf(m) # None
  PROVE  /\ TargetOf(m) \in Targets
         /\ JobOf(m).difficulty = Difficulty(Len(TargetOf(m)), LittleEndian(TargetOf(m)))
         /\ CanBuild(JobOf(m))
<1>1. JobOf(m) = PoolJob(m) /\ PoolJob(m) # None /\ IsSupported(PoolJob(m).algo)
  BY DEF JobOf
<1>2. TargetOf(m) \in Targets
  BY <1>1, MessagesAssumption DEF PoolJob
<1>3. PoolJob(m) = [algo       |-> AlgoOf(m),
                    seed       |-> Field(m, "seed_hash"),
                    difficulty |-> Difficulty(Len(TargetOf(m)), LittleEndian(TargetOf(m))),
                    nicehash   |-> DetectsNicehash(Field(m, "blob"))]
  BY <1>1 DEF PoolJob
<1>4. CanBuild(PoolJob(m))
  BY <1>1 DEF CanBuild, IsSupported, Normalize, ApplyConfig, SeedBytes
<1> QED BY <1>1, <1>2, <1>3, <1>4

LEMMA JobOfTemplate ==
  ASSUME NEW m \in Messages, m.form = "template", JobOf(m) # None
  PROVE  /\ JobOf(m).difficulty = IF m.difficulty = 0 THEN 1 ELSE m.difficulty
         /\ CanBuild(JobOf(m))
<1>1. JobOf(m) = TemplateJob(m) /\ TemplateJob(m) # None
  BY DEF JobOf
<1>2. TemplateJob(m) = [algo       |-> "rx/0",
                        seed       |-> m.seed_hash,
                        difficulty |-> IF m.difficulty = 0 THEN 1 ELSE m.difficulty,
                        nicehash   |-> FALSE]
  BY <1>1 DEF TemplateJob
<1>3. TemplateJob(m).difficulty = IF m.difficulty = 0 THEN 1 ELSE m.difficulty
  BY <1>2
<1>4. TemplateJob(m).algo = "rx/0"
  BY <1>2
<1>5. SeedBytes(TemplateJob(m).seed) # ""
  BY DEF SeedBytes
<1> QED BY <1>1, <1>3, <1>4, <1>5 DEF CanBuild, ApplyConfig

LEMMA JobDifficulty ==
  ASSUME NEW m \in Messages, JobOf(m) # None
  PROVE  JobOf(m).difficulty \in 1 .. Max64
<1>1. CASE m.form = "template"
  <2>1. m.difficulty \in 0 .. Max64 /\ Max64 \in Nat \ {0}
    BY <1>1, MessagesAssumption, Sizes
  <2> QED BY <1>1, <2>1, JobOfTemplate
<1>2. CASE m.form # "template"
  <2>1. TargetOf(m) \in Targets
    BY <1>2, JobOfPool
  <2> QED BY <1>2, <2>1, JobOfPool, TargetRange, DifficultyRange
<1> QED BY <1>1, <1>2

-----------------------------------------------------------------------------
(* The inductive invariant: the job is the message's, the thread has a VM  *)
(* if one can be built, and the outcome of a hash is Meets.                *)
Checked ==
  /\ message \in Messages
  /\ job # None => job = JobOf(message)
  /\ worker \in {"waiting", "hashing", "refused"}
  /\ worker # "waiting" => job # None /\ worker = IF CanBuild(job) THEN "hashing" ELSE "refused"
  /\ submitted \in BOOLEAN
  /\ hash \in {None} \cup 0 .. Max64
  /\ hash = None => ~submitted
  /\ hash # None => worker = "hashing" /\ submitted = Meets(hash, job.difficulty)

LEMMA CheckedInductive == Spec => []Checked
<1>1. Init => Checked
  BY DEF Init, Checked
<1>2. Checked /\ [Next]_vars => Checked'
  <2> SUFFICES ASSUME Checked, [Next]_vars PROVE Checked'
    OBVIOUS
  <2>1. CASE HandleMessage
    BY <2>1 DEF Checked, HandleMessage
  <2>2. CASE TakeJob
    BY <2>2 DEF Checked, TakeJob
  <2>3. ASSUME NEW h \in 0 .. Max64, CheckHash(h) PROVE Checked'
    <3>1. h # None
      BY JobAssumption
    <3>2. Meets(h, job.difficulty) \in BOOLEAN
      BY DEF Meets
    <3> QED BY <2>3, <3>1, <3>2 DEF Checked, CheckHash
  <2>4. CASE UNCHANGED vars
    BY <2>4 DEF Checked, vars
  <2> QED BY <2>1, <2>2, <2>3, <2>4 DEF Next
<1> QED BY <1>1, <1>2, PTL DEF Spec

(* Every hash below the pool's target is submitted, whatever the target    *)
(* and its format (decode_target and check_hash_difficulty).               *)
THEOREM NoGoodShareLost == Spec => []GoodSharesSubmitted
<1>1. Checked => GoodSharesSubmitted
  <2> SUFFICES ASSUME Checked, message.form # "template", hash # None, hash < Bound(TargetOf(message))
               PROVE  submitted
    BY DEF GoodSharesSubmitted
  <2> DEFINE b == TargetOf(message)
             w == Len(b)
             t == LittleEndian(b)
  <2>0. job = JobOf(message) /\ job # None /\ message \in Messages
        /\ hash \in Nat /\ submitted = Meets(hash, job.difficulty)
    BY DEF Checked
  <2>1. b \in Targets /\ job.difficulty = Difficulty(w, t)
    BY <2>0, JobOfPool
  <2>2. w \in {2, 4} /\ t \in 0 .. MaxOf(w)
    BY <2>1, TargetRange
  <2>3. hash < t * Scale(w)
    BY DEF Bound
  <2>4. t # 0
    <3> DEFINE S == Scale(w)
    <3>1. S \in Nat /\ hash < t * S
      BY <2>2, <2>3, Sizes
    <3> HIDE DEF t, w, S
    <3>2. t = 0 => t * S = 0
      BY <3>1
    <3> QED BY <2>0, <3>1, <3>2
  <2>5. MaxOf(w) \in Nat
    BY <2>2, Sizes
  <2>6. t \in 1 .. MaxOf(w)
    <3> HIDE DEF t, w
    <3> QED BY <2>2, <2>4, <2>5
  <2>7. Meets(hash, Difficulty(w, t))
    BY <2>0, <2>2, <2>3, <2>6, RoundingKeeps
  <2> QED BY <2>0, <2>1, <2>7
<1> QED BY <1>1, CheckedInductive, PTL

(* A share that is submitted has the work the pool asks for when it makes  *)
(* its target of a difficulty, and a block the work the daemon asks for    *)
(* (decode_target, from_daemon_template and check_hash_difficulty).        *)
THEOREM NothingInVain == Spec => []NoShareInVain
<1>1. Checked => NoShareInVain
  <2> SUFFICES ASSUME Checked, submitted, NEW D \in 1 .. Max64, SetBy(D)
               PROVE  (hash + 1) * D <= Pow4
    BY DEF NoShareInVain
  <2> DEFINE d == job.difficulty
  <2>0. hash # None
    BY DEF Checked
  <2>1. /\ message \in Messages /\ job = JobOf(message) /\ job # None
        /\ hash \in Nat /\ Meets(hash, d)
    <3>1. submitted = Meets(hash, d)
      BY <2>0 DEF Checked
    <3>2. Meets(hash, d)
      BY <3>1, Zenon
    <3> QED BY <2>0, <3>2 DEF Checked
  <2>2. d \in 1 .. Max64 /\ Max64 \in Nat
    BY <2>1, JobDifficulty, Sizes
  <2>3. D <= d
    <3>1. CASE message.form = "template"
      BY <2>1, <2>2, <3>1, JobOfTemplate DEF SetBy
    <3>2. CASE message.form # "template"
      <4> DEFINE w == Len(TargetOf(message))
      <4>1. w \in {2, 4} /\ d = Difficulty(w, LittleEndian(TargetOf(message)))
        BY <2>1, <3>2, JobOfPool, TargetRange
      <4>2. LittleEndian(TargetOf(message)) = MaxOf(w) \div D
        BY <3>2 DEF SetBy
      <4> HIDE DEF w
      <4> QED BY <4>1, <4>2, DividedBack
    <3> QED BY <3>1, <3>2
  <2> HIDE DEF d
  <2>4. d \in Nat /\ D \in Nat
    BY <2>2
  <2> QED BY <2>1, <2>3, <2>4, MeetsIsWork
<1> QED BY <1>1, CheckedInductive, PTL

(* No thread is refused the dataset of a job that was announced: every     *)
(* name the client lets through is one the native bridge knows, and no     *)
(* seed comes out empty.                                                   *)
THEOREM NoJobWithoutDataset == Spec => []AnnouncedIsHashed
<1>1. Checked => AnnouncedIsHashed
  BY JobOfPool, JobOfTemplate DEF Checked, AnnouncedIsHashed
<1> QED BY <1>1, CheckedInductive, PTL

(* Every job has a difficulty of at least one, and no more than u64 holds. *)
THEOREM TargetTypeCorrect == Spec => []TargetTypeOK
<1>1. Checked => TargetTypeOK
  BY JobDifficulty, MessagesAssumption DEF Checked, TargetTypeOK
<1> QED BY <1>1, CheckedInductive, PTL
=============================================================================
