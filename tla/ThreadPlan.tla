--------------------------------- MODULE ThreadPlan ---------------------------------
(***************************************************************************)
(* How many mining threads there are and where they run: the thread plan   *)
(* of src/src/cpu.rs, the number of threads of src/src/config.rs, and what *)
(* Controller::run makes of the two.                                       *)
(*                                                                         *)
(* A machine is what the program can find out about it:                    *)
(*   cores     its cores, each the set of its PUs (processing units), as   *)
(*             hwloc lists them; none if hwloc knows no cores              *)
(*   pus       the PUs hwloc knows                                         *)
(*   hwloc     whether hwloc could be initialised                          *)
(*   logical   num_cpus::get(), which knows quotas that hwloc does not     *)
(*   physical  the number of cores according to sysinfo                    *)
(* Absent stands for None.                                                 *)
(***************************************************************************)
EXTENDS Integers, FiniteSets, FiniteSetsExt, Functions, Sequences

CONSTANT Absent

(* The elements of a finite set of numbers in ascending order.             *)
Sorted(S) ==
  CHOOSE s \in [1 .. Cardinality(S) -> S] : \A i, j \in DOMAIN s : i < j => s[i] < s[j]

(* split_p_e_by_core_shape: a core of several PUs is a P-core, the others  *)
(* are E-cores; without any such core they all are P-cores.  A core is     *)
(* represented by its first PU.  (Both lists are sorted, here sets.)       *)
AllPusOf(cores) == UNION cores
PusOf(cores) == {Min(c) : c \in cores}
Split(cores) ==
  LET smt2 == {c \in cores : Cardinality(c) >= 2} IN
  IF smt2 # {} THEN [p |-> PusOf(smt2), e |-> PusOf(cores \ smt2)]
               ELSE [p |-> PusOf(cores), e |-> {}]

(* build_thread_plan.  Where hwloc knows no cores, one_pu_per_core finds   *)
(* no core above any PU and takes them all.                                *)
BuildThreadPlan(m) ==
  IF ~m.hwloc THEN [p |-> 0 .. m.logical - 1, e |-> {}]
  ELSE LET split == Split(m.cores \ {{}}) IN
       IF split.p = {} /\ split.e = {} THEN [p |-> m.pus, e |-> {}] ELSE split

(* ThreadPlan::preferred_p_only and preferred_with_e: P-cores first, and   *)
(* then the E-cores that are not there yet.                                *)
PlannedPus(m, useE) ==
  LET plan == BuildThreadPlan(m)
      preferred == IF plan.p = {} THEN plan.e ELSE plan.p IN
  Sorted(preferred) \o IF useE THEN Sorted(plan.e \ preferred) ELSE << >>

-----------------------------------------------------------------------------
(* threads_from_xmrig_cpu_value: cpu.rx is a list of threads or an object  *)
(* with their number.                                                      *)
FromXmrig(rx) ==
  IF rx = Absent \/ (rx.list /\ rx.n = 0) THEN Absent ELSE rx.n

(* threads_from_max_threads_hint: a share of the logical CPUs, rounded up. *)
FromHint(hint, logical) ==
  IF hint = Absent \/ hint = 0 \/ hint >= 100 THEN Absent
  ELSE Max({(Max({logical, 1}) * hint + 99) \div 100, 1})

(* The first of them that is given, or 0.                                  *)
FirstGiven(options) ==
  LET given == {i \in DOMAIN options : options[i] # Absent} IN
  IF given = {} THEN 0 ELSE options[Min(given)]

(* resolve_threads; 0 means automatic.                                     *)
ResolveThreads(cli, cpu, logical) ==
  FirstGiven(<<cli>> \o IF cpu = Absent THEN << >>
                        ELSE <<cpu.threads, FromXmrig(cpu.rx), FromHint(cpu.hint, logical)>>)

(* Controller::run: the number of threads, and the PUs they are pinned to; *)
(* thread i runs on the i-th of them, or anywhere if there is none.        *)
MineThreadsAsGiven(m, useE, configured) == configured
MineThreads(m, useE, configured) ==
  LET planned == PlannedPus(m, useE) IN
  IF configured # 0 THEN configured
  ELSE IF planned = << >> THEN Max({m.physical, 1}) ELSE Len(planned)
WorkerPus(m, useE, configured) ==
  LET planned == PlannedPus(m, useE) IN
  SubSeq(planned, 1, Min({MineThreads(m, useE, configured), Len(planned)}))
=============================================================================
