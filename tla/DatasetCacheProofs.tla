--------------------------- MODULE DatasetCacheProofs ---------------------------
(***************************************************************************)
(* Proofs about DatasetCache, for any set of threads and any set of keys.  *)
(*                                                                         *)
(* The wait-for properties are not inductive alone: a thread goes to sleep *)
(* because the slot says Building, so SleeperHasBuilder needs              *)
(* BuildingHasBuilder at that step; VmOfItsSeed needs what the slot and    *)
(* the hand-over from get_or_build to Vm::new hold.                        *)
(***************************************************************************)
EXTENDS DatasetCache, TLAPS

(* A Ready slot holds the dataset of the key it is labelled with.          *)
SlotSound == slot.tag = "Ready" => slot.dataset = slot.key

(* The dataset on its way into Vm::new is the one the thread asked for.    *)
HeldSound == \A w \in Workers : pc[w] = "vmnew" => held[w] = want[w]

CacheInv ==
  /\ CacheTypeOK
  /\ SlotSound
  /\ HeldSound
  /\ SleeperHasBuilder
  /\ BuildingHasBuilder
  /\ VmOfItsSeed

-----------------------------------------------------------------------------
(* The initial state: an empty slot, nobody asleep, nobody building.       *)
LEMMA CacheInitInv == CacheInit => CacheInv
  BY DEF CacheInit, CacheInv, CacheTypeOK, SlotSound, HeldSound, SlotStates,
         SleeperHasBuilder, BuildingHasBuilder, VmOfItsSeed, Positions

(* A thread that builds neither stops building nor changes its key when    *)
(* another thread moves from a position other than "build".                *)
LEMMA BuildersStay ==
  ASSUME CacheTypeOK, NEW w \in Workers, pc[w] # "build",
         NEW p, pc' = [pc EXCEPT ![w] = p],
         \/ want' = want
         \/ \E k : want' = [want EXCEPT ![w] = k]
  PROVE  \A b \in Workers : \A k : Builds(b, k) => Builds(b, k)'
  BY DEF Builds, CacheTypeOK

(* A thread calls create_randomx_vm: no builder is disturbed.              *)
LEMMA RequestInv ==
  ASSUME CacheInv, NEW w \in Workers, NEW k \in Keys, Request(w, k)
  PROVE  CacheInv'
<1> USE DEF CacheInv, Request
<1>1. CacheTypeOK'
  BY DEF CacheTypeOK, Positions
<1>2. SlotSound' /\ HeldSound' /\ VmOfItsSeed'
  BY DEF CacheTypeOK, SlotSound, HeldSound, VmOfItsSeed
<1>3. \A b \in Workers : \A key : Builds(b, key) => Builds(b, key)'
  BY BuildersStay
<1>4. SleeperHasBuilder'
  BY <1>3 DEF SleeperHasBuilder, CacheTypeOK
<1>5. BuildingHasBuilder'
  BY <1>3 DEF BuildingHasBuilder
<1> QED BY <1>1, <1>2, <1>4, <1>5

(* Ready with the wanted key: the dataset handed over is the wanted one.   *)
LEMMA HitInv ==
  ASSUME CacheInv, NEW w \in Workers, Hit(w)
  PROVE  CacheInv'
<1> USE DEF CacheInv, Hit
<1>1. CacheTypeOK'
  BY DEF CacheTypeOK, Positions, SlotStates
<1>2. SlotSound' /\ HeldSound' /\ VmOfItsSeed'
  BY DEF CacheTypeOK, SlotSound, HeldSound, VmOfItsSeed, Matches
<1>3. \A b \in Workers : \A key : Builds(b, key) => Builds(b, key)'
  BY BuildersStay
<1>4. SleeperHasBuilder'
  BY <1>3 DEF SleeperHasBuilder, CacheTypeOK
<1>5. BuildingHasBuilder'
  BY <1>3 DEF BuildingHasBuilder
<1> QED BY <1>1, <1>2, <1>4, <1>5

(* Failed with the wanted key: the thread leaves empty-handed.             *)
LEMMA RefuseInv ==
  ASSUME CacheInv, NEW w \in Workers, Refuse(w)
  PROVE  CacheInv'
<1> USE DEF CacheInv, Refuse
<1>1. CacheTypeOK'
  BY DEF CacheTypeOK, Positions
<1>2. SlotSound' /\ HeldSound' /\ VmOfItsSeed'
  BY DEF CacheTypeOK, SlotSound, HeldSound, VmOfItsSeed
<1>3. \A b \in Workers : \A key : Builds(b, key) => Builds(b, key)'
  BY BuildersStay
<1>4. SleeperHasBuilder'
  BY <1>3 DEF SleeperHasBuilder, CacheTypeOK
<1>5. BuildingHasBuilder'
  BY <1>3 DEF BuildingHasBuilder
<1> QED BY <1>1, <1>2, <1>4, <1>5

(* Building with the wanted key: the sleeper's builder is the slot's.      *)
LEMMA SleepInv ==
  ASSUME CacheInv, NEW w \in Workers, Sleep(w)
  PROVE  CacheInv'
<1> USE DEF CacheInv, Sleep
<1>1. CacheTypeOK'
  BY DEF CacheTypeOK, Positions
<1>2. SlotSound' /\ HeldSound' /\ VmOfItsSeed'
  BY DEF CacheTypeOK, SlotSound, HeldSound, VmOfItsSeed
<1>3. \A b \in Workers : \A key : Builds(b, key) => Builds(b, key)'
  BY BuildersStay
<1>4. SleeperHasBuilder'
  <2>1. \E b \in Workers : Builds(b, want[w])
    BY DEF BuildingHasBuilder, Matches
  <2> QED BY <1>3, <2>1 DEF SleeperHasBuilder, CacheTypeOK
<1>5. BuildingHasBuilder'
  BY <1>3 DEF BuildingHasBuilder
<1> QED BY <1>1, <1>2, <1>4, <1>5

(* The slot is overwritten: the thread itself becomes the builder of the   *)
(* new key, and the builder of the old one goes on for its sleepers.       *)
LEMMA ClaimInv ==
  ASSUME CacheInv, NEW w \in Workers, Claim(w)
  PROVE  CacheInv'
<1> USE DEF CacheInv, Claim
<1>1. CacheTypeOK'
  BY DEF CacheTypeOK, Positions, SlotStates, Building
<1>2. SlotSound' /\ HeldSound' /\ VmOfItsSeed'
  BY DEF CacheTypeOK, SlotSound, HeldSound, VmOfItsSeed, Building
<1>3. \A b \in Workers : \A key : Builds(b, key) => Builds(b, key)'
  BY BuildersStay
<1>4. SleeperHasBuilder'
  BY <1>3 DEF SleeperHasBuilder, CacheTypeOK
<1>5. BuildingHasBuilder'
  BY DEF BuildingHasBuilder, Builds, Building, CacheTypeOK
<1> QED BY <1>1, <1>2, <1>4, <1>5

(* A wake-up without a notification leaves the other sleepers' builders.   *)
LEMMA SpuriousWakeInv ==
  ASSUME CacheInv, NEW w \in Workers, SpuriousWake(w)
  PROVE  CacheInv'
<1> USE DEF CacheInv, SpuriousWake
<1>1. CacheTypeOK'
  BY DEF CacheTypeOK, Positions
<1>2. SlotSound' /\ HeldSound' /\ VmOfItsSeed'
  BY DEF CacheTypeOK, SlotSound, HeldSound, VmOfItsSeed
<1>3. \A b \in Workers : \A key : Builds(b, key) => Builds(b, key)'
  BY BuildersStay
<1>4. SleeperHasBuilder'
  BY <1>3 DEF SleeperHasBuilder, CacheTypeOK
<1>5. BuildingHasBuilder'
  BY <1>3 DEF BuildingHasBuilder
<1> QED BY <1>1, <1>2, <1>4, <1>5

(* A build ends: nobody sleeps any more, and the slot, Ready or Failed, no *)
(* longer promises a build.                                                *)
LEMMA BuildInv ==
  ASSUME CacheInv, NEW w \in Workers, Build(w)
  PROVE  CacheInv'
<1> USE DEF CacheInv
<1>1. CASE BuildOk(w)
  <2> USE DEF BuildOk
  <2>0. want[w] \in Keys \cup {NoKey}
    BY DEF CacheTypeOK
  <2>1. CacheTypeOK'
    BY <1>1, <2>0 DEF CacheTypeOK, Positions, SlotStates, Ready, NotifyAll
  <2>2. SlotSound' /\ HeldSound' /\ VmOfItsSeed'
    BY <1>1 DEF CacheTypeOK, SlotSound, HeldSound, VmOfItsSeed, Ready, NotifyAll
  <2>3. SleeperHasBuilder' /\ BuildingHasBuilder'
    BY <1>1 DEF SleeperHasBuilder, BuildingHasBuilder, NotifyAll, Ready, CacheTypeOK
  <2> QED BY <2>1, <2>2, <2>3
<1>2. CASE BuildFail(w)
  <2> USE DEF BuildFail
  <2>0. want[w] \in Keys \cup {NoKey}
    BY DEF CacheTypeOK
  <2>1. CacheTypeOK'
    BY <1>2, <2>0 DEF CacheTypeOK, Positions, SlotStates, Failed, NotifyAll
  <2>2. SlotSound' /\ HeldSound' /\ VmOfItsSeed'
    BY <1>2 DEF CacheTypeOK, SlotSound, HeldSound, VmOfItsSeed, Failed, NotifyAll
  <2>3. SleeperHasBuilder' /\ BuildingHasBuilder'
    BY <1>2 DEF SleeperHasBuilder, BuildingHasBuilder, NotifyAll, Failed, CacheTypeOK
  <2> QED BY <2>1, <2>2, <2>3
<1> QED BY <1>1, <1>2 DEF Build

(* Vm::new: the new VM and the seed it is taken to be for change together, *)
(* or neither does.                                                        *)
LEMMA NewVmInv ==
  ASSUME CacheInv, NEW w \in Workers, NewVm(w)
  PROVE  CacheInv'
<1> USE DEF CacheInv, NewVm, VmOk, VmFail
<1>1. CacheTypeOK'
  BY DEF CacheTypeOK, Positions
<1>2. SlotSound' /\ HeldSound' /\ VmOfItsSeed'
  BY DEF CacheTypeOK, SlotSound, HeldSound, VmOfItsSeed
<1>3. \A b \in Workers : \A key : Builds(b, key) => Builds(b, key)'
  BY BuildersStay
<1>4. SleeperHasBuilder'
  BY <1>3 DEF SleeperHasBuilder, CacheTypeOK
<1>5. BuildingHasBuilder'
  BY <1>3 DEF BuildingHasBuilder
<1> QED BY <1>1, <1>2, <1>4, <1>5

-----------------------------------------------------------------------------
(* Every step of the threads preserves the invariant.                      *)
LEMMA CacheStepInv == CacheInv /\ [CacheNext]_cacheVars => CacheInv'
<1> SUFFICES ASSUME CacheInv, [CacheNext]_cacheVars
             PROVE  CacheInv'
  OBVIOUS
<1>1. CASE UNCHANGED cacheVars
  BY <1>1 DEF CacheInv, CacheTypeOK, SlotSound, HeldSound, SleeperHasBuilder,
              BuildingHasBuilder, VmOfItsSeed, Builds, cacheVars
<1>2. CASE CacheNext
  <2>1. PICK w \in Workers :
          \/ \E k \in Keys : Request(w, k)
          \/ Examine(w) \/ SpuriousWake(w) \/ Build(w) \/ NewVm(w)
    BY <1>2 DEF CacheNext
  <2>2. CASE \E k \in Keys : Request(w, k)
    BY <2>2, RequestInv
  <2>3. CASE Examine(w)
    BY <2>3, HitInv, RefuseInv, SleepInv, ClaimInv DEF Examine
  <2>4. CASE SpuriousWake(w)
    BY <2>4, SpuriousWakeInv
  <2>5. CASE Build(w)
    BY <2>5, BuildInv
  <2>6. CASE NewVm(w)
    BY <2>6, NewVmInv
  <2> QED BY <2>1, <2>2, <2>3, <2>4, <2>5, <2>6
<1> QED BY <1>1, <1>2

(* CacheInv is an invariant of the dataset cache.                          *)
THEOREM CacheInvariant == CacheSpec => []CacheInv
  BY CacheInitInv, CacheStepInv, PTL DEF CacheSpec

(* The cache's variables keep their types.                                 *)
THEOREM CacheTypeCorrect == CacheSpec => []CacheTypeOK
<1>1. CacheInv => CacheTypeOK BY DEF CacheInv
<1> QED BY <1>1, CacheInvariant, PTL

(* No lost wake-up: get_or_build's sleepers always have a builder that will *)
(* notify them, for any number of threads and keys.                        *)
THEOREM NoLostWakeup == CacheSpec => []SleeperHasBuilder
<1>1. CacheInv => SleeperHasBuilder BY DEF CacheInv
<1> QED BY <1>1, CacheInvariant, PTL

(* The slot never says Building without a thread that is building its key. *)
THEOREM NoAbandonedBuild == CacheSpec => []BuildingHasBuilder
<1>1. CacheInv => BuildingHasBuilder BY DEF CacheInv
<1> QED BY <1>1, CacheInvariant, PTL

(* No thread hashes with the dataset of another seed or algorithm.         *)
THEOREM NoForeignDataset == CacheSpec => []VmOfItsSeed
<1>1. CacheInv => VmOfItsSeed BY DEF CacheInv
<1> QED BY <1>1, CacheInvariant, PTL
=============================================================================
