-------------------------------- MODULE JobParsing --------------------------------
(***************************************************************************)
(* From a message to a job: Job::from_c3pool_job, Job::from_notify and     *)
(* Job::from_daemon_template (src/src/job.rs), the algorithm names of      *)
(* algorithms.rs and those the native bridge knows.                        *)
(*                                                                         *)
(* A target and the upper part of a hash are numbers here; ByteBase ^ 2    *)
(* stands for 2^32, the short format, and ByteBase ^ 4 for 2^64.  Text in  *)
(* hexadecimal is NotHex or stands for its bytes, and of the bytes of a    *)
(* blob only the nonce is kept, and whether there are enough for one.      *)
(***************************************************************************)
EXTENDS Integers, Sequences

CONSTANTS
  ByteBase,      \* 256
  DefaultTarget, \* bytes of "c5a70000"
  Missing,       \* a field that is absent or not a string
  NotHex,        \* a string hex::decode refuses
  None           \* no job, no hash

Byte == 0 .. ByteBase - 1
Pow2 == ByteBase * ByteBase
Pow4 == Pow2 * Pow2
Max32 == Pow2 - 1   \* u32::MAX
Max64 == Pow4 - 1   \* u64::MAX

(* Two bytes are the short format of a target, four the long one.          *)
Targets == (Byte \X Byte) \cup (Byte \X Byte \X Byte \X Byte)

ASSUME JobAssumption ==
  /\ ByteBase \in Nat \ {0, 1}
  /\ DefaultTarget \in Byte \X Byte
  /\ None \notin Int

-----------------------------------------------------------------------------
(* from_le_bytes                                                           *)
LittleEndian(b) ==
  IF Len(b) = 2 THEN b[1] + ByteBase * b[2]
  ELSE b[1] + ByteBase * b[2] + Pow2 * (b[3] + ByteBase * b[4])

(* decode_target                                                           *)
MaxOf(width) == IF width = 2 THEN Max32 ELSE Max64
DifficultyRoundedUp(width, t) ==
  IF t = 0 THEN Max64 ELSE (MaxOf(width) + t - 1) \div t
Difficulty(width, t) == IF t = 0 THEN Max64 ELSE MaxOf(width) \div t
Decodes(text) == text # NotHex /\ Len(text) \in {2, 4}

(* detects_nicehash_nonce                                                  *)
DetectsNicehash(blob) == blob.whole /\ blob.nonce # 0

(* A job given as an object, by name, or as an array, by position.         *)
Position == [job_id |-> 1, blob |-> 2, target |-> 3, algo |-> 4, height |-> 5, seed_hash |-> 6]
Field(m, name) ==
  IF m.form = "object" THEN m[name]
  ELSE IF Position[name] \in DOMAIN m.params THEN m.params[Position[name]] ELSE Missing

TargetOf(m) ==
  IF m.form = "object" /\ Field(m, "target") = Missing THEN DefaultTarget ELSE Field(m, "target")

AlgoOf(m) == IF Field(m, "algo") = Missing THEN "rx/0" ELSE Field(m, "algo")

PoolJob(m) ==
  IF /\ m.form = "notify" => Len(m.params) >= 4
     /\ Field(m, "job_id") # Missing
     /\ Field(m, "blob") # Missing /\ Field(m, "blob") # NotHex
     /\ TargetOf(m) # Missing /\ Decodes(TargetOf(m))
  THEN [algo       |-> AlgoOf(m),
        seed       |-> Field(m, "seed_hash"),
        difficulty |-> Difficulty(Len(TargetOf(m)), LittleEndian(TargetOf(m))),
        nicehash   |-> DetectsNicehash(Field(m, "blob"))]
  ELSE None

(* A template of the daemon has the difficulty as a number.                *)
TemplateJob(m) ==
  IF m.blob # NotHex /\ m.template # NotHex
  THEN [algo       |-> "rx/0",
        seed       |-> m.seed_hash,
        difficulty |-> IF m.difficulty = 0 THEN 1 ELSE m.difficulty,
        nicehash   |-> FALSE]
  ELSE None

-----------------------------------------------------------------------------
(* algorithms.rs                                                           *)
Normalize(algo) == IF algo \in {"randomx", "randomx/0"} THEN "rx/0" ELSE algo
AnyRandomX(algo) == Normalize(algo) \in {"rx/0", "rx/wow"}
IsSupported(algo) == Normalize(algo) = "rx/0"

(* lx_randomx_apply_config                                                 *)
ApplyConfig(algo) == algo \in {"rx/0", "randomx", "randomx/0"}

(* The client gives a job of the pool to the miner and the controller only *)
(* if it can be parsed and its algorithm is supported; a template is not   *)
(* asked for its algorithm.                                                *)
JobOf(m) ==
  IF m.form = "template" THEN TemplateJob(m)
  ELSE IF PoolJob(m) # None /\ IsSupported(PoolJob(m).algo) THEN PoolJob(m)
  ELSE None

(* The bytes of the seed, as a worker decodes them, and what can be built  *)
(* from them: Dataset::new_for_algo refuses an empty seed, and so does the *)
(* bridge a name it does not know.                                         *)
SeedBytesUnguarded(seed) == IF seed = NotHex THEN "zeros" ELSE IF seed = Missing THEN "" ELSE seed
SeedBytes(seed) ==
  IF seed = Missing \/ seed = NotHex \/ seed = "" THEN "zeros" ELSE seed
CanBuild(job) == ApplyConfig(job.algo) /\ SeedBytes(job.seed) # ""
=============================================================================
