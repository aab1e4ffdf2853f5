------------------------------ MODULE DatasetCache ------------------------------
(***************************************************************************)
(* RxDatasetCache and create_randomx_vm (src/src/miner.rs): the one-slot   *)
(* cache through which the mining threads share the 2 GiB RandomX dataset. *)
(*                                                                         *)
(* The slot is guarded by a mutex and a condition variable.  A thread      *)
(* examines the slot under the mutex, builds outside it, and stores the    *)
(* outcome under it again; what happens between two lock operations is     *)
(* local to the thread, so each critical section is one action here.       *)
(* A dataset is identified with the key it was built for.                  *)
(***************************************************************************)

CONSTANTS
  Workers,  \* the mining threads
  Keys,     \* the cache keys "algo:seed"
  NoKey     \* "no key": an empty slot, a thread that has no VM yet

ASSUME CacheAssumption == NoKey \notin Keys

VARIABLES
  slot,     \* the DatasetState behind the mutex
  pc,       \* where each thread stands in create_randomx_vm
  want,     \* the cache key each thread asks for
  held,     \* the dataset get_or_build returned, until Vm::new has run
  vm,       \* the dataset each thread's VM hashes with
  cur       \* current_seed and current_algo of each thread

cacheVars == <<slot, pc, want, held, vm, cur>>

(* Empty, Building{seed}, Ready{seed, dataset} and Failed{seed}.  The      *)
(* dataset field is NoKey unless the slot is Ready.                        *)
SlotStates == [tag : {"Empty", "Building", "Ready", "Failed"},
               key : Keys \cup {NoKey}, dataset : Keys \cup {NoKey}]

Building(k) == [tag |-> "Building", key |-> k, dataset |-> NoKey]
Ready(k, d) == [tag |-> "Ready",    key |-> k, dataset |-> d]
Failed(k)   == [tag |-> "Failed",   key |-> k, dataset |-> NoKey]

(* "run": outside create_randomx_vm; "enter": about to lock and examine    *)
(* the slot; "wait": asleep on the condition variable; "build": building   *)
(* without the lock; "vmnew": get_or_build has returned a dataset.         *)
Positions == {"run", "enter", "wait", "build", "vmnew"}

CacheTypeOK ==
  /\ slot \in SlotStates
  /\ pc   \in [Workers -> Positions]
  /\ want \in [Workers -> Keys \cup {NoKey}]
  /\ held \in [Workers -> Keys \cup {NoKey}]
  /\ vm   \in [Workers -> Keys \cup {NoKey}]
  /\ cur  \in [Workers -> Keys \cup {NoKey}]

CacheInit ==
  /\ slot = [tag |-> "Empty", key |-> NoKey, dataset |-> NoKey]
  /\ pc   = [w \in Workers |-> "run"]
  /\ want = [w \in Workers |-> NoKey]
  /\ held = [w \in Workers |-> NoKey]
  /\ vm   = [w \in Workers |-> NoKey]
  /\ cur  = [w \in Workers |-> NoKey]

-----------------------------------------------------------------------------
(* A thread whose job needs another key calls create_randomx_vm.           *)
Request(w, k) ==
  /\ pc[w] = "run"
  /\ k # cur[w]
  /\ pc'   = [pc EXCEPT ![w] = "enter"]
  /\ want' = [want EXCEPT ![w] = k]
  /\ UNCHANGED <<slot, held, vm, cur>>

(* The pattern of one arm of the match: the tag and the key it guards on.  *)
MatchesTagOnly(w, tag) == slot.tag = tag
Matches(w, tag) == slot.tag = tag /\ slot.key = want[w]

(* Ready with the wanted key: get_or_build returns a clone of the dataset. *)
Hit(w) ==
  /\ pc[w] = "enter"
  /\ Matches(w, "Ready")
  /\ held' = [held EXCEPT ![w] = slot.dataset]
  /\ pc'   = [pc EXCEPT ![w] = "vmnew"]
  /\ UNCHANGED <<slot, want, vm, cur>>

(* Failed with the wanted key: get_or_build returns None, create_randomx_vm *)
(* an error, and the thread goes back to the top of its loop.              *)
Refuse(w) ==
  /\ pc[w] = "enter"
  /\ Matches(w, "Failed")
  /\ pc' = [pc EXCEPT ![w] = "run"]
  /\ UNCHANGED <<slot, want, held, vm, cur>>

(* Building with the wanted key: wait on the condition variable.           *)
Sleep(w) ==
  /\ pc[w] = "enter"
  /\ Matches(w, "Building")
  /\ pc' = [pc EXCEPT ![w] = "wait"]
  /\ UNCHANGED <<slot, want, held, vm, cur>>

(* Anything else, a build of another key in progress included: the thread  *)
(* overwrites the slot and builds.                                         *)
Claim(w) ==
  /\ pc[w] = "enter"
  /\ \A tag \in {"Ready", "Failed", "Building"} : ~Matches(w, tag)
  /\ slot' = Building(want[w])
  /\ pc'   = [pc EXCEPT ![w] = "build"]
  /\ UNCHANGED <<want, held, vm, cur>>

(* Condvar::wait may return without a notification.                        *)
SpuriousWake(w) ==
  /\ pc[w] = "wait"
  /\ pc' = [pc EXCEPT ![w] = "enter"]
  /\ UNCHANGED <<slot, want, held, vm, cur>>

(* notify_all: every sleeper goes back to examining the slot.              *)
NotifyOne(p) ==
  LET sleepers == {x \in Workers : p[x] = "wait"}
  IN  IF sleepers = {} THEN p
      ELSE [p EXCEPT ![CHOOSE x \in sleepers : TRUE] = "enter"]
NotifyAll(p) == [x \in Workers |-> IF p[x] = "wait" THEN "enter" ELSE p[x]]

(* build_full_dataset succeeded: store it, wake the sleepers, return it.   *)
BuildOk(w) ==
  /\ pc[w] = "build"
  /\ slot' = Ready(want[w], want[w])
  /\ held' = [held EXCEPT ![w] = want[w]]
  /\ pc'   = NotifyAll([pc EXCEPT ![w] = "vmnew"])
  /\ UNCHANGED <<want, vm, cur>>

(* build_full_dataset failed (no memory for the cache or the dataset).     *)
BuildFailKeepsSlot(w) ==
  /\ pc[w] = "build"
  /\ pc' = NotifyAll([pc EXCEPT ![w] = "run"])
  /\ UNCHANGED <<slot, want, held, vm, cur>>
BuildFail(w) ==
  /\ pc[w] = "build"
  /\ slot' = Failed(want[w])
  /\ pc'   = NotifyAll([pc EXCEPT ![w] = "run"])
  /\ UNCHANGED <<want, held, vm, cur>>

(* Vm::new succeeded: the new VM replaces the old one.                     *)
VmOk(w) ==
  /\ pc[w] = "vmnew"
  /\ vm'   = [vm EXCEPT ![w] = held[w]]
  /\ cur'  = [cur EXCEPT ![w] = want[w]]
  /\ held' = [held EXCEPT ![w] = NoKey]
  /\ pc'   = [pc EXCEPT ![w] = "run"]
  /\ UNCHANGED <<slot, want>>

(* Vm::new failed: the old VM, current_seed and current_algo stay.         *)
VmFail(w) ==
  /\ pc[w] = "vmnew"
  /\ held' = [held EXCEPT ![w] = NoKey]
  /\ pc'   = [pc EXCEPT ![w] = "run"]
  /\ UNCHANGED <<slot, want, vm, cur>>

Examine(w) == Hit(w) \/ Refuse(w) \/ Sleep(w) \/ Claim(w)
Build(w)   == BuildOk(w) \/ BuildFail(w)
NewVm(w)   == VmOk(w) \/ VmFail(w)

CacheNext ==
  \E w \in Workers :
    \/ \E k \in Keys : Request(w, k)
    \/ Examine(w) \/ SpuriousWake(w) \/ Build(w) \/ NewVm(w)

CacheSpec == CacheInit /\ [][CacheNext]_cacheVars

-----------------------------------------------------------------------------
Builds(w, k) == pc[w] = "build" /\ want[w] = k

(* No lost wake-up: a thread asleep on the condition variable waits for a  *)
(* key that some other thread is still building, so that the notify_all at *)
(* the end of that build reaches it -- although the slot itself may have   *)
(* been overwritten by a third thread in the meantime.                     *)
SleeperHasBuilder ==
  \A w \in Workers :
    pc[w] = "wait" => \E b \in Workers : Builds(b, want[w])

(* A slot that says Building is never left behind: some thread is building *)
(* its key, so a thread that goes to sleep on it will be woken.            *)
BuildingHasBuilder ==
  slot.tag = "Building" => \E b \in Workers : Builds(b, slot.key)

(* A thread never hashes with the dataset of another seed: its VM was made *)
(* from the dataset of the seed and algorithm it takes the VM to be for.   *)
VmOfItsSeed ==
  \A w \in Workers : vm[w] = cur[w]
=============================================================================
