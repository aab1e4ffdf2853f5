---------------------------------- MODULE RandomX ----------------------------------
(***************************************************************************)
(* Dataset and Vm of src/src/randomx/mod.rs: handles into the C++ library. *)
(* A dataset is filled from a cache by the threads of rayon's pool, each   *)
(* of which initialises one range of its items; the cache is released when *)
(* for_each returns.  A VM reads the dataset and keeps an Arc of it; the   *)
(* last Arc to go releases the dataset.                                    *)
(*                                                                         *)
(* Each allocation is first tried with large pages and then without: what  *)
(* is left open here is the outcome of the second attempt.                 *)
(***************************************************************************)
EXTENDS Integers, FiniteSets

CONSTANTS
  Sizes,      \* what randomx_dataset_item_count and rayon's pool may be
  MostFillers \* 64

ASSUME RandomXAssumption ==
  /\ Sizes \subseteq [items : Nat \ {0}, threads : Nat]
  /\ MostFillers \in Nat \ {0}

VARIABLES
  size,     \* the items of a dataset and the threads of the pool
  cache,    \* the two handles
  dataset,
  started,  \* the ranges whose initialisation has begun
  filled,   \* and has returned
  refs      \* strong count of the Arc<Dataset>

nativeVars == <<size, cache, dataset, started, filled, refs>>

HandleStates == {"none", "live", "released"}

-----------------------------------------------------------------------------
(* The ranges.                                                             *)
Fillers ==
  IF size.threads < 1 THEN 1
  ELSE IF size.threads > MostFillers THEN MostFillers ELSE size.threads

Chunk == (size.items + Fillers - 1) \div Fillers

Ranges == 0 .. Fillers - 1

(* Without the guard, total_items - start is a difference of c_ulongs.     *)
ItemsOfUnguarded(i) ==
  LET left == (size.items - i * Chunk) % 64
  IN  i * Chunk .. i * Chunk + (IF left < Chunk THEN left ELSE Chunk) - 1
ItemsOf(i) ==
  LET first == i * Chunk
      left  == size.items - first
  IN  IF first < size.items
      THEN first .. first + (IF left < Chunk THEN left ELSE Chunk) - 1
      ELSE {}

-----------------------------------------------------------------------------
NativeInit ==
  /\ size \in Sizes
  /\ cache = "none"
  /\ dataset = "none"
  /\ started = {}
  /\ filled = {}
  /\ refs = 0

AllocCache ==
  /\ cache' = "live"
  /\ UNCHANGED <<size, dataset, started, filled, refs>>

AllocDataset ==
  /\ dataset' = "live"
  /\ UNCHANGED <<size, cache, started, filled, refs>>

(* A thread of the pool: one call of randomx_init_dataset.                 *)
BeginRange(i) ==
  /\ i \notin started
  /\ started' = started \cup {i}
  /\ UNCHANGED <<size, cache, dataset, filled, refs>>
EndRange(i) ==
  /\ i \in started \ filled
  /\ filled' = filled \cup {i}
  /\ UNCHANGED <<size, cache, dataset, started, refs>>

(* for_each returns when every range is done; the dataset goes into an     *)
(* Arc, of which the caller makes "clones" more.                           *)
DatasetDoneEarly(clones) ==
  /\ started = Ranges
  /\ cache' = "released"
  /\ refs' = 1 + clones
  /\ UNCHANGED <<size, dataset, started, filled>>
DatasetDone(clones) ==
  /\ filled = Ranges
  /\ cache' = "released"
  /\ refs' = 1 + clones
  /\ UNCHANGED <<size, dataset, started, filled>>

(* An Arc goes: by itself, or with the VM it belongs to, whose handle      *)
(* Vm::drop has destroyed before.                                          *)
DropArc ==
  /\ refs' = refs - 1
  /\ dataset' = IF refs = 1 THEN "released" ELSE dataset
  /\ UNCHANGED <<size, cache, started, filled>>

(* Nothing is left of the last dataset, and the next one is begun.         *)
NativeReset ==
  /\ cache' = "none"
  /\ dataset' = "none"
  /\ started' = {}
  /\ filled' = {}
  /\ refs' = 0
  /\ UNCHANGED size
=============================================================================
