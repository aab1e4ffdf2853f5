-------------------------------- MODULE StartupProofs --------------------------------
(***************************************************************************)
(* Proofs about Startup, for any command lines, files and machines and any *)
(* answers of the DoH servers.                                             *)
(***************************************************************************)
EXTENDS Startup, FiniteSetTheorems, WellFoundedInduction, TLAPS

(* What the client is given: the SNI has been decided from the URL before  *)
(* the resolver runs, which runs only for a URL with host and port, and    *)
(* the URL is the configured one until an address takes its place.         *)
NameInv ==
  /\ phase = "load" => input \in Inputs
  /\ phase \in {"plan", "servers", "query", "ready"} => config.url.host # Absent
  /\ phase \in {"servers", "query", "ready"} =>
       /\ pool = [url |-> pool.url, sni |-> SniForClient]
       /\ pool.url # config.url => Resolves
  /\ phase \in {"servers", "query"} => pool.url = config.url /\ Resolves
  /\ phase = "ready" =>
       pool.url = config.url \/ (pool.url.host \in addrs /\ pool.url.port = config.url.port)

LEMMA NameInit == Init => NameInv
  BY DEF Init, NameInv

(* Config::load keeps the URL it has chosen.                               *)
LEMMA LoadName ==
  ASSUME NameInv, LoadConfig
  PROVE  NameInv'
<1>1. CASE PoolUrl(input.args, input.file) = Absent
  BY <1>1 DEF NameInv, LoadConfig
<1>2. CASE PoolUrl(input.args, input.file) # Absent
  <2>1. phase = "load" /\ phase' = "plan"
        /\ config' = Load(input.args, input.file, input.machine.logical)
    BY <1>2 DEF LoadConfig
  <2>2. config'.url = PoolUrl(input.args, input.file)
    BY <2>1 DEF Load
  <2>3. config'.url.host # Absent
    BY <1>2, <2>1, <2>2, StartupAssumption DEF NameInv
  <2> QED BY <2>1, <2>3 DEF NameInv
<1> QED BY <1>1, <1>2

LEMMA PlanName ==
  ASSUME NameInv, PlanThreads
  PROVE  NameInv'
<1>1. /\ phase = "plan" /\ phase' \in {"servers", "ready"}
      /\ pool'.url = config.url /\ pool'.sni = SniForClient
      /\ pool' = [url |-> config.url, sni |-> SniForClient]
      /\ config' = config
      /\ phase' = "servers" => Resolves
  BY DEF PlanThreads
<1>2. SniForClient' = SniForClient /\ (Resolves' <=> Resolves)
  BY <1>1 DEF SniForClient, Resolves
<1> QED BY <1>1, <1>2 DEF NameInv

LEMMA TestName ==
  ASSUME NameInv, TestAddresses
  PROVE  NameInv'
<1>1. phase = "query" /\ phase' = "ready" /\ UNCHANGED <<config, addrs>>
  BY DEF TestAddresses
<1>2. SniForClient' = SniForClient /\ (Resolves' <=> Resolves)
  BY <1>1 DEF SniForClient, Resolves
<1>3. CASE UNCHANGED pool
  BY <1>1, <1>2, <1>3 DEF NameInv
<1>4. ASSUME NEW a \in addrs,
             pool' = [pool EXCEPT !.url = [scheme |-> "", host |-> a, port |-> config.url.port]]
      PROVE  NameInv'
  <2> DEFINE url == [scheme |-> "", host |-> a, port |-> config.url.port]
  <2>1. pool = [url |-> pool.url, sni |-> SniForClient] /\ Resolves /\ config.url.host # Absent
    BY <1>1 DEF NameInv
  <2>2. url.host = a /\ url.port = config.url.port
    OBVIOUS
  <2> HIDE DEF url
  <2>3. pool' = [url |-> url, sni |-> SniForClient] /\ pool'.url = url
    <3>1. PICK u : pool = [url |-> u, sni |-> SniForClient]
      BY <2>1
    <3>2. pool' = [pool EXCEPT !.url = url]
      BY <1>4 DEF url
    <3> QED BY <3>1, <3>2
  <2> QED BY <1>1, <1>2, <1>4, <2>1, <2>2, <2>3 DEF NameInv
<1> QED BY <1>3, <1>4 DEF TestAddresses

LEMMA NameStep == NameInv /\ [Next]_vars => NameInv'
<1> SUFFICES ASSUME NameInv, [Next]_vars PROVE NameInv'
  OBVIOUS
<1>1. CASE UNCHANGED vars
  BY <1>1 DEF vars, NameInv, SniForClient, Resolves
<1>2. ASSUME NEW n \in 0 .. 2, ChooseServers(n)
      PROVE  NameInv'
  <2>1. phase = "servers" /\ phase' \in {"ready", "query"} /\ UNCHANGED <<config, pool, addrs>>
    BY <1>2 DEF ChooseServers
  <2> QED BY <2>1 DEF NameInv, SniForClient, Resolves
<1>3. CASE DohFails \/ (\E m \in Messages : DohAnswers(m))
  <2>1. phase = "query" /\ UNCHANGED <<phase, config, pool, addrs>>
    BY <1>3 DEF DohFails, DohAnswers
  <2> QED BY <2>1 DEF NameInv, SniForClient, Resolves
<1>4. CASE ParseAnswer
  <2>1. UNCHANGED <<phase, input, config, pool>> /\ addrs \subseteq addrs'
    BY <1>4 DEF ParseAnswer
  <2> QED BY <2>1 DEF NameInv, SniForClient, Resolves
<1> QED BY <1>1, <1>2, <1>3, <1>4, LoadName, PlanName, TestName DEF Next

(* Whatever the resolver does, TLS asks for the name that was configured,  *)
(* and the address connected to is one that a server has given for it.     *)
THEOREM ServerNameKept == Spec => []NameSurvivesDoh
<1>1. NameInv => NameSurvivesDoh
  BY DEF NameInv, NameSurvivesDoh, ServerName, SniForClient, Resolves
<1> QED BY <1>1, NameInit, NameStep, PTL DEF Spec

-----------------------------------------------------------------------------
(* Smallest and largest elements; sorted lists.                            *)
LEMMA SmallestOf ==
  ASSUME NEW S \in SUBSET Nat, S # {}
  PROVE  \E x \in S : \A y \in S : x <= y
<1>1. PICK x \in S : \A y \in S : <<y, x>> \notin OpToRel(<, Nat)
  BY NatLessThanWellFounded, WFMin
<1>2. \A y \in S : ~(y < x)
  BY <1>1 DEF OpToRel
<1> QED BY <1>2

LEMMA MinOf ==
  ASSUME NEW S \in SUBSET Nat, S # {}
  PROVE  Min(S) \in S /\ \A y \in S : Min(S) <= y
BY SmallestOf DEF Min

LEMMA MaxOfTwo ==
  ASSUME NEW a \in Nat, NEW b \in Nat
  PROVE  Max({a, b}) \in Nat /\ Max({a, b}) >= a /\ Max({a, b}) >= b
<1>1. \E x \in {a, b} : \A y \in {a, b} : x >= y
  OBVIOUS
<1> QED BY <1>1 DEF Max

LEMMA MinOfTwo ==
  ASSUME NEW a \in Nat, NEW b \in Nat
  PROVE  Min({a, b}) = IF a <= b THEN a ELSE b
<1>1. Min({a, b}) \in {a, b} /\ Min({a, b}) <= a /\ Min({a, b}) <= b
  BY MinOf
<1> QED BY <1>1

(* A list as Sorted promises it.                                           *)
IsSorted(s, S) ==
  s \in [1 .. Cardinality(S) -> S] /\ \A i, j \in DOMAIN s : i < j => s[i] < s[j]

(* Every finite set of numbers can be listed in ascending order: in the    *)
(* smallest that could not, the list without the first number would do.    *)
LEMMA SortedExists ==
  ASSUME NEW S \in SUBSET Nat, IsFiniteSet(S)
  PROVE  \E s : IsSorted(s, S)
<1> DEFINE Bad == {n \in Nat : \E T \in SUBSET Nat : IsFiniteSet(T) /\ Cardinality(T) = n
                                                   /\ ~\E s : IsSorted(s, T)}
<1>1. SUFFICES ASSUME Bad # {} PROVE FALSE
  <2>1. Cardinality(S) \in Nat
    BY FS_CardinalityType
  <2> QED BY <1>1, <2>1
<1>2. PICK n \in Bad : \A k \in Bad : n <= k
  BY <1>1, SmallestOf
<1>3. PICK T \in SUBSET Nat : IsFiniteSet(T) /\ Cardinality(T) = n /\ ~\E s : IsSorted(s, T)
  BY <1>2
<1>4. T # {}
  <2>1. SUFFICES ASSUME T = {} PROVE \E s : IsSorted(s, T)
    BY <1>3
  <2>2. Cardinality(T) = 0 /\ 1 .. 0 = {}
    BY <2>1, FS_EmptySet
  <2> DEFINE s == [i \in 1 .. 0 |-> i]
  <2>3. s \in [1 .. 0 -> T] /\ DOMAIN s = {}
    BY <2>2
  <2> HIDE DEF s
  <2> QED BY <2>2, <2>3 DEF IsSorted
<1>5. PICK x \in T : \A y \in T : x <= y
  BY <1>4, SmallestOf
<1> DEFINE R == T \ {x}
<1>6. R \in SUBSET Nat /\ IsFiniteSet(R) /\ Cardinality(R) = n - 1 /\ n \in Nat
  BY <1>2, <1>3, <1>5, FS_RemoveElement
<1>7. n - 1 \in Nat
  BY <1>6, FS_CardinalityType
<1>8. \E s : IsSorted(s, R)
  <2>1. n - 1 \notin Bad
    BY <1>2, <1>6
  <2> QED BY <1>6, <1>7, <2>1
<1> HIDE DEF R
<1>9. PICK r : IsSorted(r, R)
  BY <1>8
<1>10. r \in [1 .. n - 1 -> R] /\ \A i, j \in 1 .. n - 1 : i < j => r[i] < r[j]
  BY <1>6, <1>9 DEF IsSorted
<1> DEFINE s == [i \in 1 .. n |-> IF i = 1 THEN x ELSE r[i - 1]]
<1>11. \A i \in 1 .. n : i # 1 => i - 1 \in 1 .. n - 1
  BY <1>6
<1>12. s \in [1 .. n -> T]
  BY <1>10, <1>11 DEF R
<1>13. ASSUME NEW i \in 1 .. n, NEW j \in 1 .. n, i < j PROVE s[i] < s[j]
  <2>1. j # 1 /\ j - 1 \in 1 .. n - 1 /\ s[j] = r[j - 1]
    BY <1>6, <1>13
  <2>2. CASE i = 1
    <3>1. r[j - 1] \in T /\ r[j - 1] # x /\ r[j - 1] \in Nat /\ x \in Nat
      BY <1>10, <2>1 DEF R
    <3>2. s[i] = x
      BY <2>2
    <3> QED BY <1>5, <2>1, <3>1, <3>2
  <2>3. CASE i # 1
    <3>1. i - 1 \in 1 .. n - 1 /\ s[i] = r[i - 1] /\ i - 1 < j - 1
      BY <1>6, <1>13, <2>3
    <3> QED BY <1>10, <2>1, <3>1
  <2> QED BY <2>2, <2>3
<1> HIDE DEF s
<1>14. IsSorted(s, T)
  BY <1>3, <1>12, <1>13 DEF IsSorted
<1> QED BY <1>3, <1>14

(* What Sorted returns: each element of the set once.                      *)
LEMMA SortedIs ==
  ASSUME NEW S \in SUBSET Nat, IsFiniteSet(S)
  PROVE  /\ Cardinality(S) \in Nat
         /\ Sorted(S) \in [1 .. Cardinality(S) -> S]
         /\ \A i, j \in 1 .. Cardinality(S) : Sorted(S)[i] = Sorted(S)[j] => i = j
         /\ \A x \in S : \E i \in 1 .. Cardinality(S) : Sorted(S)[i] = x
<1> DEFINE n == Cardinality(S)
           s == Sorted(S)
<1>1. n \in Nat
  BY FS_CardinalityType
<1>2. s \in [1 .. n -> S] /\ \A i, j \in 1 .. n : i < j => s[i] < s[j]
  <2>1. PICK q : q \in [1 .. n -> S] /\ \A i, j \in DOMAIN q : i < j => q[i] < q[j]
    BY SortedExists DEF IsSorted
  <2>2. s \in [1 .. n -> S] /\ \A i, j \in DOMAIN s : i < j => s[i] < s[j]
    BY <2>1, Zenon DEF Sorted
  <2> QED BY <2>2
<1> HIDE DEF n, s
<1>3. \A i, j \in 1 .. n : s[i] = s[j] => i = j
  <2>1. \A i, j \in 1 .. n : i # j => i < j \/ j < i
    BY <1>1
  <2>2. \A i \in 1 .. n : s[i] \in Nat
    BY <1>2
  <2>3. \A i, j \in 1 .. n : i < j => s[i] # s[j] /\ s[j] # s[i]
    BY <1>2, <2>2
  <2> QED BY <2>1, <2>3
<1>4. s \in Injection(1 .. n, S)
  BY <1>2, <1>3 DEF Injection, IsInjective
<1>5. Cardinality(1 .. n) = n /\ IsFiniteSet(1 .. n)
  BY <1>1, FS_Interval
<1>6. s \in Surjection(1 .. n, S)
  BY <1>4, <1>5, FS_Injection DEF n
<1>7. \A x \in S : \E i \in 1 .. n : s[i] = x
  BY <1>6 DEF Surjection
<1> QED BY <1>1, <1>2, <1>3, <1>7 DEF n, s

-----------------------------------------------------------------------------
(* The thread plan.  A list of a set has every element of it once.         *)
Lists(q, S) ==
  /\ q \in Seq(S)
  /\ \A i, j \in 1 .. Len(q) : q[i] = q[j] => i = j
  /\ \A x \in S : \E i \in 1 .. Len(q) : q[i] = x

LEMMA SeqOfMore ==
  ASSUME NEW S, NEW T, S \subseteq T, NEW q, q \in Seq(S)
  PROVE  q \in Seq(T) /\ Len(q) \in Nat
OBVIOUS

LEMMA SortedLists ==
  ASSUME NEW S \in SUBSET Nat, IsFiniteSet(S)
  PROVE  Lists(Sorted(S), S)
<1> DEFINE n == Cardinality(S)
           s == Sorted(S)
<1>1. n \in Nat /\ s \in [1 .. n -> S]
  BY SortedIs
<1>2. /\ \A i, j \in 1 .. n : s[i] = s[j] => i = j
      /\ \A x \in S : \E i \in 1 .. n : s[i] = x
  BY SortedIs
<1> HIDE DEF n, s
<1>3. s \in Seq(S) /\ Len(s) = n
  BY <1>1
<1>4. Lists(s, S)
  BY <1>2, <1>3 DEF Lists
<1> QED BY <1>4 DEF s

LEMMA ListsBoth ==
  ASSUME NEW A, NEW B, A \cap B = {}, NEW q, NEW r, Lists(q, A), Lists(r, B)
  PROVE  Lists(q \o r, A \cup B)
<1>1. q \in Seq(A) /\ r \in Seq(B) /\ q \in Seq(A \cup B) /\ r \in Seq(A \cup B)
  BY DEF Lists
<1> DEFINE m == Len(q)
           n == Len(r)
           s == q \o r
<1>2. m \in Nat /\ n \in Nat /\ s \in Seq(A \cup B) /\ Len(s) = m + n
  BY <1>1
<1>3. /\ \A i \in 1 .. m : s[i] = q[i] /\ q[i] \in A
      /\ \A i \in 1 .. m + n : i \notin 1 .. m => i - m \in 1 .. n /\ s[i] = r[i - m] /\ r[i - m] \in B
  BY <1>1
<1>4. /\ \A i, j \in 1 .. m : q[i] = q[j] => i = j
      /\ \A i, j \in 1 .. n : r[i] = r[j] => i = j
      /\ \A x \in A : \E i \in 1 .. m : q[i] = x
      /\ \A x \in B : \E i \in 1 .. n : r[i] = x
  BY DEF Lists
<1>5. \A i \in 1 .. n : m + i \in 1 .. m + n /\ s[m + i] = r[i]
  BY <1>1, <1>2
<1> HIDE DEF m, n, s
<1>6. ASSUME NEW i \in 1 .. m + n, NEW j \in 1 .. m + n, s[i] = s[j]
      PROVE  i = j
  <2>1. CASE i \in 1 .. m /\ j \in 1 .. m
    BY <1>3, <1>4, <1>6, <2>1
  <2>2. CASE i \notin 1 .. m /\ j \notin 1 .. m
    <3>1. i - m = j - m
      BY <1>3, <1>4, <1>6, <2>2
    <3> QED BY <1>2, <3>1
  <2>3. CASE ~(i \in 1 .. m <=> j \in 1 .. m)
    BY <1>3, <1>6, <2>3
  <2> QED BY <2>1, <2>2, <2>3
<1>7. \A x \in A \cup B : \E i \in 1 .. m + n : s[i] = x
  <2>1. \A i \in 1 .. m : i \in 1 .. m + n
    BY <1>2
  <2> QED BY <1>3, <1>4, <1>5, <2>1
<1>8. Lists(s, A \cup B)
  BY <1>2, <1>6, <1>7 DEF Lists
<1> QED BY <1>8 DEF s

LEMMA MachineIs ==
  ASSUME NEW m, IsMachine(m)
  PROVE  /\ IsFiniteSet(m.pus) /\ m.pus \in SUBSET Nat
         /\ \A c \in m.cores : c \in SUBSET Nat /\ c \subseteq m.pus /\ IsFiniteSet(c) /\ Cardinality(c) \in Nat
         /\ \A c \in m.cores \ {{}} : Min(c) \in c
<1>1. IsFiniteSet(m.pus) /\ m.pus \in SUBSET Nat
  BY DEF IsMachine
<1>2. ASSUME NEW c \in m.cores
      PROVE  c \in SUBSET Nat /\ c \subseteq m.pus /\ IsFiniteSet(c) /\ Cardinality(c) \in Nat
  <2>1. c \in SUBSET m.pus
    BY DEF IsMachine
  <2>2. IsFiniteSet(c)
    BY <1>1, <2>1, FS_Subset
  <2> QED BY <1>1, <2>1, <2>2, FS_CardinalityType
<1>3. \A c \in m.cores \ {{}} : Min(c) \in c
  BY <1>2, MinOf
<1> QED BY <1>1, <1>2, <1>3

LEMMA TwoParts ==
  ASSUME NEW x, NEW y, NEW plan, plan = [p |-> x, e |-> y]
  PROVE  plan.p = x /\ plan.e = y
OBVIOUS

(* The two parts of a plan, where hwloc knows the cores.                   *)
LEMMA SplitIs ==
  ASSUME NEW m, IsMachine(m), m.hwloc, NEW cores, cores = m.cores \ {{}}, cores # {}
  PROVE  /\ BuildThreadPlan(m).p = PusOf(PCores(cores))
         /\ BuildThreadPlan(m).p \cup BuildThreadPlan(m).e = PusOf(cores)
         /\ BuildThreadPlan(m).p # {}
<1>0. PICK smt2 : smt2 = {c \in cores : Cardinality(c) >= 2}
  OBVIOUS
<1>1. smt2 = {c \in cores : Cardinality(c) > 1} /\ smt2 \subseteq cores
  BY <1>0, MachineIs
<1>2. CASE smt2 # {}
  <2>1. Split(cores) = [p |-> PusOf(smt2), e |-> PusOf(cores \ smt2)]
    BY <1>0, <1>2 DEF Split
  <2>2. PCores(cores) = smt2 /\ PusOf(smt2) # {}
    BY <1>1, <1>2 DEF PCores, PusOf
  <2>3. PusOf(smt2) \cup PusOf(cores \ smt2) = PusOf(cores)
    BY <1>1 DEF PusOf
  <2>4. Split(cores).p = PusOf(smt2) /\ Split(cores).e = PusOf(cores \ smt2)
    <3>1. PICK x, y : x = PusOf(smt2) /\ y = PusOf(cores \ smt2)
      OBVIOUS
    <3>2. Split(cores) = [p |-> x, e |-> y]
      BY <2>1, <3>1
    <3>3. Split(cores).p = x /\ Split(cores).e = y
      BY <3>2, TwoParts
    <3> QED BY <3>1, <3>3, Zenon
  <2>5. BuildThreadPlan(m) = Split(cores)
    <3>1. ~(Split(m.cores \ {{}}).p = {} /\ Split(m.cores \ {{}}).e = {})
      BY <2>2, <2>4
    <3> QED BY <3>1, Zenon DEF BuildThreadPlan
  <2> QED BY <2>2, <2>3, <2>4, <2>5
<1>3. CASE smt2 = {}
  <2>1. Split(cores) = [p |-> PusOf(cores), e |-> {}]
    BY <1>0, <1>3 DEF Split
  <2>2. PCores(cores) = cores /\ PusOf(cores) # {}
    BY <1>1, <1>3 DEF PCores, PusOf
  <2>3. Split(cores).p = PusOf(cores) /\ Split(cores).e = {}
    BY <2>1, TwoParts
  <2>4. BuildThreadPlan(m) = Split(cores)
    <3>1. ~(Split(m.cores \ {{}}).p = {} /\ Split(m.cores \ {{}}).e = {})
      BY <2>2, <2>3
    <3> QED BY <3>1, Zenon DEF BuildThreadPlan
  <2> QED BY <2>2, <2>3, <2>4
<1> QED BY <1>2, <1>3

LEMMA PlanIs ==
  ASSUME NEW m, IsMachine(m)
  PROVE  LET plan == BuildThreadPlan(m) IN
         /\ plan.p \in SUBSET Nat /\ IsFiniteSet(plan.p) /\ plan.p # {}
         /\ plan.e \in SUBSET Nat /\ IsFiniteSet(plan.e)
<1> DEFINE plan == BuildThreadPlan(m)
           cores == m.cores \ {{}}
<1>1. CASE ~m.hwloc
  <2>1. plan = [p |-> 0 .. m.logical - 1, e |-> {}]
    BY <1>1 DEF BuildThreadPlan
  <2>2. m.logical - 1 \in Nat
    BY DEF IsMachine
  <2>3. IsFiniteSet(0 .. m.logical - 1) /\ IsFiniteSet({}) /\ 0 \in 0 .. m.logical - 1
    BY <2>2, FS_Interval, FS_EmptySet
  <2> QED BY <2>1, <2>2, <2>3
<1>2. CASE m.hwloc /\ cores = {}
  <2>1. PusOf(cores) = {} /\ {c \in cores : Cardinality(c) >= 2} = {}
    BY <1>2 DEF PusOf
  <2>2. Split(cores) = [p |-> {}, e |-> {}]
    BY <2>1 DEF Split
  <2>3. Split(cores).p = {} /\ Split(cores).e = {}
    BY <2>2
  <2>4. plan = [p |-> m.pus, e |-> {}]
    BY <1>2, <2>3, Zenon DEF BuildThreadPlan
  <2>5. plan.p = m.pus /\ plan.e = {}
    BY <2>4
  <2> HIDE DEF plan
  <2>6. m.pus # {} /\ m.pus \in SUBSET Nat /\ IsFiniteSet(m.pus) /\ IsFiniteSet({})
    BY MachineIs, FS_EmptySet DEF IsMachine
  <2>7. /\ plan.p \in SUBSET Nat /\ IsFiniteSet(plan.p) /\ plan.p # {}
        /\ plan.e \in SUBSET Nat /\ IsFiniteSet(plan.e)
    BY <2>5, <2>6
  <2> QED BY <2>7 DEF plan
<1>3. CASE m.hwloc /\ cores # {}
  <2>1. plan.p # {} /\ plan.p \cup plan.e = PusOf(cores)
    BY <1>3, SplitIs
  <2>2. PusOf(cores) \subseteq m.pus
    BY MachineIs DEF PusOf
  <2>3. plan.p \in SUBSET m.pus /\ plan.e \in SUBSET m.pus
    BY <2>1, <2>2
  <2> HIDE DEF plan, cores
  <2>4. /\ plan.p \in SUBSET Nat /\ IsFiniteSet(plan.p) /\ plan.p # {}
        /\ plan.e \in SUBSET Nat /\ IsFiniteSet(plan.e)
    BY <2>1, <2>3, MachineIs, FS_Subset
  <2> QED BY <2>4 DEF plan
<1>4. m.hwloc \in BOOLEAN
  BY DEF IsMachine
<1> QED BY <1>1, <1>2, <1>3, <1>4

LEMMA PlannedIs ==
  ASSUME NEW m, IsMachine(m), NEW useE
  PROVE  LET plan == BuildThreadPlan(m) IN
         /\ Lists(PlannedPus(m, useE), IF useE THEN plan.p \cup plan.e ELSE plan.p)
         /\ plan.p # {} /\ (IF useE THEN plan.p \cup plan.e ELSE plan.p) \in SUBSET Nat
<1> DEFINE plan == BuildThreadPlan(m)
<1>1. /\ plan.p \in SUBSET Nat /\ IsFiniteSet(plan.p) /\ plan.p # {}
      /\ plan.e \in SUBSET Nat /\ IsFiniteSet(plan.e)
  BY PlanIs
<1>2. PlannedPus(m, useE) = Sorted(plan.p) \o IF useE THEN Sorted(plan.e \ plan.p) ELSE << >>
  BY <1>1 DEF PlannedPus
<1> HIDE DEF plan
<1>3. Lists(Sorted(plan.p), plan.p)
  BY <1>1, SortedLists
<1>4. CASE useE
  <2>1. IsFiniteSet(plan.e \ plan.p) /\ plan.e \ plan.p \in SUBSET Nat
    BY <1>1, FS_Subset
  <2>2. Lists(Sorted(plan.e \ plan.p), plan.e \ plan.p)
    BY <2>1, SortedLists
  <2>3. plan.p \cup plan.e = plan.p \cup (plan.e \ plan.p) /\ plan.p \cap (plan.e \ plan.p) = {}
    OBVIOUS
  <2>4. Lists(Sorted(plan.p) \o Sorted(plan.e \ plan.p), plan.p \cup (plan.e \ plan.p))
    BY <1>3, <2>2, <2>3, ListsBoth
  <2>5. Lists(PlannedPus(m, useE), IF useE THEN plan.p \cup plan.e ELSE plan.p)
    BY <1>2, <1>4, <2>3, <2>4
  <2> QED BY <1>1, <2>5 DEF plan
<1>5. CASE ~useE
  <2>1. PlannedPus(m, useE) = Sorted(plan.p)
    <3>1. Sorted(plan.p) \in Seq(plan.p)
      BY <1>3 DEF Lists
    <3> QED BY <1>2, <1>5, <3>1
  <2>2. Lists(PlannedPus(m, useE), IF useE THEN plan.p \cup plan.e ELSE plan.p)
    BY <1>3, <1>5, <2>1
  <2> QED BY <1>1, <2>2 DEF plan
<1> QED BY <1>4, <1>5

(* The number of threads that is configured.                               *)
LEMMA FirstGivenIs ==
  ASSUME NEW options \in Seq(Nat \cup {Absent})
  PROVE  FirstGiven(options) \in Nat
<1> DEFINE given == {i \in DOMAIN options : options[i] # Absent}
<1>1. given \in SUBSET Nat /\ \A i \in given : options[i] \in Nat
  OBVIOUS
<1>2. given # {} => Min(given) \in given
  BY <1>1, MinOf
<1>3. FirstGiven(options) = IF given = {} THEN 0 ELSE options[Min(given)]
  BY DEF FirstGiven
<1> HIDE DEF given
<1>4. CASE given = {}
  BY <1>3, <1>4
<1>5. CASE given # {}
  <2>1. FirstGiven(options) = options[Min(given)] /\ Min(given) \in given
    BY <1>2, <1>3, <1>5
  <2> QED BY <1>1, <2>1
<1> QED BY <1>4, <1>5

LEMMA HintIs ==
  ASSUME NEW hint \in Nat \cup {Absent}, NEW logical \in Nat
  PROVE  FromHint(hint, logical) \in Nat \cup {Absent}
<1>1. CASE hint = Absent \/ hint = 0 \/ hint >= 100
  BY <1>1 DEF FromHint
<1>2. CASE ~(hint = Absent \/ hint = 0 \/ hint >= 100)
  <2>1. Max({logical, 1}) \in Nat /\ hint \in Nat
    BY <1>2, MaxOfTwo
  <2>2. (Max({logical, 1}) * hint + 99) \div 100 \in Nat
    BY <2>1
  <2>3. Max({(Max({logical, 1}) * hint + 99) \div 100, 1}) \in Nat
    BY <2>2, MaxOfTwo
  <2> QED BY <1>2, <2>3 DEF FromHint
<1> QED BY <1>1, <1>2

LEMMA ThreadsAreNat ==
  ASSUME NEW cli \in Nat \cup {Absent}, NEW logical \in Nat,
         NEW cpu, cpu = Absent \/ IsCpu(cpu)
  PROVE  ResolveThreads(cli, cpu, logical) \in Nat
<1> DEFINE given == <<cli>> \o IF cpu = Absent THEN << >>
                               ELSE <<cpu.threads, FromXmrig(cpu.rx), FromHint(cpu.hint, logical)>>
<1>1. given \in Seq(Nat \cup {Absent})
  <2>1. CASE cpu = Absent
    BY <2>1
  <2>2. CASE cpu # Absent
    <3>1. cpu.threads \in Nat \cup {Absent} /\ cpu.hint \in Nat \cup {Absent}
      BY <2>2 DEF IsCpu
    <3>2. FromXmrig(cpu.rx) \in Nat \cup {Absent}
      BY <2>2 DEF IsCpu, FromXmrig
    <3>3. FromHint(cpu.hint, logical) \in Nat \cup {Absent}
      BY <3>1, HintIs
    <3> QED BY <2>2, <3>1, <3>2, <3>3
  <2> QED BY <2>1, <2>2
<1>2. ResolveThreads(cli, cpu, logical) = FirstGiven(given)
  BY DEF ResolveThreads
<1> HIDE DEF given
<1> QED BY <1>1, <1>2, FirstGivenIs

(* What Controller::run makes of a plan.                                   *)
LEMMA WorkersAre ==
  ASSUME NEW m, IsMachine(m), NEW useE, NEW configured \in Nat
  PROVE  LET threads == MineThreads(m, useE, configured)
             planned == PlannedPus(m, useE)
             pus == WorkerPus(m, useE, configured) IN
         /\ threads \in Nat \ {0}
         /\ pus \in Seq(Nat) /\ Len(pus) <= threads /\ Len(pus) <= Len(planned)
         /\ \A i \in 1 .. Len(pus) : pus[i] = planned[i]
         /\ configured = 0 => pus = planned /\ threads = Len(planned)
<1>0. PICK planned : planned = PlannedPus(m, useE)
  OBVIOUS
<1> DEFINE threads == MineThreads(m, useE, configured)
           pus == WorkerPus(m, useE, configured)
<1>1. PICK S : S \in SUBSET Nat /\ S # {} /\ Lists(planned, S)
  BY <1>0, PlannedIs
<1>2. planned \in Seq(Nat) /\ Len(planned) \in Nat /\ Len(planned) # 0
  <2>1. planned \in Seq(S) /\ \A x \in S : \E i \in 1 .. Len(planned) : planned[i] = x
    BY <1>1, Zenon DEF Lists
  <2>2. planned \in Seq(Nat) /\ Len(planned) \in Nat
    <3>1. S \in SUBSET Nat /\ planned \in Seq(S)
      BY <1>1, <2>1
    <3> QED BY <3>1, SeqOfMore
  <2>3. PICK x \in S : TRUE
    BY <1>1
  <2>4. PICK i \in 1 .. Len(planned) : planned[i] = x
    BY <2>1
  <2> QED BY <2>2, <2>4
<1>3. threads = IF configured # 0 THEN configured ELSE Len(planned)
  <2>1. planned # << >>
    BY <1>2
  <2> QED BY <1>0, <2>1 DEF MineThreads
<1>4. pus = SubSeq(planned, 1, Min({threads, Len(planned)}))
  BY <1>0 DEF WorkerPus
<1> HIDE DEF threads, pus
<1>5. threads \in Nat \ {0}
  BY <1>2, <1>3
<1>6. pus = SubSeq(planned, 1, IF threads <= Len(planned) THEN threads ELSE Len(planned))
  BY <1>2, <1>4, <1>5, MinOfTwo
<1>7. /\ pus \in Seq(Nat) /\ Len(pus) <= threads /\ Len(pus) <= Len(planned)
      /\ \A i \in 1 .. Len(pus) : pus[i] = planned[i]
  BY <1>2, <1>5, <1>6
<1>8. configured = 0 => pus = planned
  <2> SUFFICES ASSUME configured = 0 PROVE pus = planned
    OBVIOUS
  <2>1. Len(pus) = Len(planned)
    BY <1>2, <1>3, <1>6
  <2> QED BY <1>2, <1>7, <2>1
<1>9. configured = 0 => threads = Len(planned)
  BY <1>3
<1> QED BY <1>0, <1>5, <1>7, <1>8, <1>9 DEF threads, pus

(* A core has at most one thread, and in the automatic plan one.           *)
LEMMA Spread ==
  ASSUME NEW m, IsMachine(m), m.hwloc, NEW useE, NEW configured \in Nat,
         NEW c \in m.cores \ {{}}, NEW pus, pus = WorkerPus(m, useE, configured),
         NEW pinned, pinned = PinnedTo(pus, c)
  PROVE  /\ Cardinality(pinned) <= 1
         /\ configured = 0 /\ c \in (IF useE THEN m.cores \ {{}} ELSE PCores(m.cores \ {{}})) => pinned # {}
<1>0. PICK cores : cores = m.cores \ {{}}
  OBVIOUS
<1>1. PICK planned : planned = PlannedPus(m, useE)
  OBVIOUS
<1>2. PICK P : P = PusOf(PCores(cores))
  OBVIOUS
<1>3. PICK S : S = (IF useE THEN PusOf(cores) ELSE P) /\ Lists(planned, S)
  <2>1. cores # {}
    BY <1>0
  <2>2. BuildThreadPlan(m).p = P /\ BuildThreadPlan(m).p \cup BuildThreadPlan(m).e = PusOf(cores)
    BY <1>0, <1>2, <2>1, SplitIs
  <2>3. Lists(planned, IF useE THEN BuildThreadPlan(m).p \cup BuildThreadPlan(m).e ELSE BuildThreadPlan(m).p)
    BY <1>1, PlannedIs
  <2>4. (IF useE THEN BuildThreadPlan(m).p \cup BuildThreadPlan(m).e ELSE BuildThreadPlan(m).p)
          = IF useE THEN PusOf(cores) ELSE P
    BY <2>2
  <2> QED BY <2>3, <2>4
<1>4. /\ pus \in Seq(Nat) /\ Len(pus) <= Len(planned)
      /\ \A i \in 1 .. Len(pus) : pus[i] = planned[i]
      /\ configured = 0 => pus = planned
  BY <1>1, WorkersAre
<1>5. /\ planned \in Seq(S)
      /\ \A i, j \in 1 .. Len(planned) : planned[i] = planned[j] => i = j
      /\ \A x \in S : \E i \in 1 .. Len(planned) : planned[i] = x
  BY <1>3 DEF Lists
<1>6. PCores(cores) \subseteq cores /\ P \subseteq PusOf(cores) /\ S \subseteq PusOf(cores)
  <2>1. PCores(cores) \subseteq cores
    BY DEF PCores
  <2>2. P \subseteq PusOf(cores)
    BY <1>2, <2>1 DEF PusOf
  <2> QED BY <1>3, <2>1, <2>2
<1>7. \A x \in S : x \in c => x = Min(c)
  <2>1. SUFFICES ASSUME NEW d \in cores, Min(d) \in c PROVE Min(d) = Min(c)
    BY <1>6 DEF PusOf
  <2>2. Min(d) \in d /\ d \in m.cores /\ c \in m.cores
    BY <1>0, MachineIs
  <2>3. d = c
    BY <2>1, <2>2 DEF IsMachine
  <2> QED BY <2>3
<1>8. \A i, j \in pinned : i = j
  <2>1. SUFFICES ASSUME NEW i \in pinned, NEW j \in pinned PROVE i = j
    OBVIOUS
  <2>7. DOMAIN pus = 1 .. Len(pus) /\ Len(pus) \in Nat /\ Len(planned) \in Nat
    <3>1. pus \in Seq(Nat) /\ planned \in Seq(S)
      BY <1>4, <1>5
    <3> QED BY <3>1
  <2>2. i \in 1 .. Len(pus) /\ j \in 1 .. Len(pus) /\ pus[i] \in c /\ pus[j] \in c
    BY <2>7 DEF PinnedTo
  <2>3. i \in 1 .. Len(planned) /\ j \in 1 .. Len(planned)
    BY <1>4, <2>7, <2>2
  <2>4. planned[i] \in c /\ planned[j] \in c
    BY <1>4, <2>2
  <2>5. planned[i] \in S /\ planned[j] \in S
    BY <1>5, <2>3
  <2>6. planned[i] = planned[j]
    BY <1>7, <2>4, <2>5
  <2> QED BY <1>5, <2>3, <2>6
<1>9. Cardinality(pinned) <= 1
  <2>1. CASE pinned = {}
    <3>1. Cardinality(pinned) = 0
      BY <2>1, FS_EmptySet
    <3> QED BY <3>1
  <2>2. ASSUME NEW i \in pinned PROVE Cardinality(pinned) <= 1
    <3>1. pinned = {i}
      BY <1>8
    <3>2. Cardinality(pinned) = 1
      BY <3>1, FS_Singleton
    <3> QED BY <3>2
  <2> QED BY <2>1, <2>2
<1>10. ASSUME configured = 0, c \in (IF useE THEN m.cores \ {{}} ELSE PCores(m.cores \ {{}}))
       PROVE  pinned # {}
  <2>1. Min(c) \in S /\ Min(c) \in c
    <3>1. CASE useE
      BY <1>0, <1>3, <1>10, <3>1, MachineIs DEF PusOf
    <3>2. CASE ~useE
      BY <1>0, <1>2, <1>3, <1>10, <3>2, MachineIs DEF PusOf
    <3> QED BY <3>1, <3>2
  <2>2. PICK i \in 1 .. Len(planned) : planned[i] = Min(c)
    BY <1>5, <2>1
  <2>3. i \in DOMAIN pus /\ pus[i] = Min(c)
    BY <1>4, <1>10, <2>2
  <2>4. i \in pinned
    BY <2>1, <2>3 DEF PinnedTo
  <2> QED BY <2>4
<1> QED BY <1>9, <1>10

-----------------------------------------------------------------------------
(* The configuration is what Config::load makes of the input, and the      *)
(* workers are what the plan makes of the configuration.                   *)
Loaded == Load(input.args, input.file, input.machine.logical)

PlanInv ==
  /\ input \in Inputs
  /\ phase \in {"load", "plan", "servers", "query", "ready", "failed"}
  /\ phase \in {"load", "failed"} => config = Absent
  /\ phase \notin {"load", "failed"} => config = Loaded /\ PoolUrl(input.args, input.file) # Absent
  /\ phase \in {"load", "failed", "plan"} => workers = Absent
  /\ phase \in {"servers", "query", "ready"} =>
       workers = [threads |-> MineThreads(input.machine, config.useE, config.threads),
                  pus |-> WorkerPus(input.machine, config.useE, config.threads)]

LEMMA PlanInit == Init => PlanInv
  BY DEF Init, PlanInv

LEMMA PlanStep == PlanInv /\ [Next]_vars => PlanInv'
<1> SUFFICES ASSUME PlanInv, [Next]_vars PROVE PlanInv'
  OBVIOUS
<1>1. CASE LoadConfig
  BY <1>1 DEF LoadConfig, PlanInv, Loaded
<1>2. CASE PlanThreads
  BY <1>2 DEF PlanThreads, PlanInv, Loaded
<1>3. CASE UNCHANGED vars
  BY <1>3 DEF vars, PlanInv, Loaded
<1>4. CASE (\E n \in 0 .. 2 : ChooseServers(n)) \/ TestAddresses
  <2>1. /\ phase \in {"servers", "query"} /\ phase' \in {"query", "ready"}
        /\ UNCHANGED <<input, config, workers>>
    BY <1>4 DEF ChooseServers, TestAddresses
  <2> QED BY <2>1 DEF PlanInv, Loaded
<1>5. CASE (\E m \in Messages : DohAnswers(m)) \/ DohFails \/ ParseAnswer
  <2>1. UNCHANGED <<phase, input, config, workers>>
    BY <1>5 DEF DohAnswers, DohFails, ParseAnswer
  <2> QED BY <2>1 DEF PlanInv, Loaded
<1> QED BY <1>1, <1>2, <1>3, <1>4, <1>5 DEF Next

LEMMA PlanInvariant == Spec => []PlanInv
BY PlanInit, PlanStep, PTL DEF Spec

(* The first enabled pool, wherever it stands in the file.                 *)
LEMMA SelectedIs ==
  ASSUME NEW file, file.pools \in Seq(Range(file.pools)),
         NEW enabled, enabled = {i \in DOMAIN Listed(file) : Listed(file)[i].enabled}, enabled # {}
  PROVE  \E i \in enabled : (\A j \in enabled : i <= j) /\ SelectedPool(file) = Listed(file)[i]
<1>1. PICK listed : listed = Listed(file)
  OBVIOUS
<1>2. PICK S : listed \in Seq(S)
  <2>1. CASE file.pool = Absent
    BY <1>1, <2>1 DEF Listed
  <2>2. CASE file.pool # Absent
    <3>1. PICK S : S = Range(file.pools) \cup {file.pool}
      OBVIOUS
    <3>2. <<file.pool>> \in Seq(S) /\ file.pools \in Seq(S)
      BY <3>1, SeqOfMore
    <3>3. listed = <<file.pool>> \o file.pools
      BY <1>1, <2>2 DEF Listed
    <3> QED BY <3>2, <3>3
  <2> QED BY <2>1, <2>2
<1>3. enabled \in SUBSET Nat /\ listed # << >>
  BY <1>1, <1>2
<1>4. Min(enabled) \in enabled /\ \A j \in enabled : Min(enabled) <= j
  BY <1>3, MinOf
<1>5. SelectedPool(file) = listed[Min(enabled)]
  BY <1>1, <1>3 DEF SelectedPool
<1> QED BY <1>1, <1>4, <1>5

(* Unless there is a URL on the command line, URL, TLS and fingerprint are *)
(* those of the first enabled pool (selected_pool and Config::load).       *)
THEOREM EnabledPoolChosen == Spec => []EnabledPoolUsed
<1>1. PlanInv => EnabledPoolUsed
  <2> DEFINE file == input.file
             args == input.args
             listed == Listed(input.file)
             enabled == {i \in DOMAIN Listed(input.file) : Listed(input.file)[i].enabled}
  <2> SUFFICES ASSUME PlanInv, config # Absent, args.url \in {Absent, Blank}, enabled # {}
               PROVE  \E i \in enabled :
                        /\ \A j \in enabled : i <= j
                        /\ config.url = listed[i].url
                        /\ listed[i].tls => config.tls
                        /\ args.pin \in {Absent, Blank} =>
                             config.pin = IF listed[i].pin = Blank THEN Absent ELSE listed[i].pin
    BY Zenon DEF EnabledPoolUsed
  <2>1. input \in Inputs /\ config = Loaded /\ PoolUrl(args, file) # Absent
    BY DEF PlanInv
  <2>2. PoolUrl(args, file) = PoolOption(file, "url") /\ PoolOption(file, "url") # Absent
    BY <2>1 DEF PoolUrl, FirstNonEmpty
  <2>3. file # Absent /\ ChosenPool(file) # Absent
    BY <2>2 DEF PoolOption, ChosenPool
  <2>4. file.pools \in Seq(Range(file.pools))
    BY <2>1, <2>3, StartupAssumption
  <2>5. PICK i \in enabled : (\A j \in enabled : i <= j) /\ SelectedPool(file) = listed[i]
    BY <2>4, SelectedIs
  <2>6. PICK p : p = listed[i] /\ ChosenPool(file) = p /\ p # Absent
    BY <2>3, <2>5 DEF ChosenPool
  <2>7. config.url = p.url
    BY <2>1, <2>2, <2>6 DEF Loaded, Load, PoolOption
  <2>8. p.tls => config.tls
    BY <2>1, <2>6 DEF Loaded, Load, PoolOption
  <2>9. args.pin \in {Absent, Blank} => config.pin = IF p.pin = Blank THEN Absent ELSE p.pin
    BY <2>1, <2>6 DEF Loaded, Load, PoolOption, FirstNonEmpty
  <2> QED BY <2>5, <2>6, <2>7, <2>8, <2>9
<1> QED BY <1>1, PlanInvariant, PTL

LEMMA LoadedThreads ==
  ASSUME input \in Inputs
  PROVE  Loaded.threads \in Nat
<1>1. PICK cpu : cpu = IF input.file = Absent THEN Absent ELSE input.file.cpu
  OBVIOUS
<1>2. Loaded.threads = ResolveThreads(input.args.threads, cpu, input.machine.logical)
  BY <1>1 DEF Loaded, Load
<1>3. input.args.threads \in Nat \cup {Absent} /\ input.machine.logical \in Nat
  BY StartupAssumption DEF IsMachine
<1>4. cpu = Absent \/ IsCpu(cpu)
  BY <1>1, StartupAssumption
<1> QED BY <1>2, <1>3, <1>4, ThreadsAreNat

(* No core has two threads, and in the automatic plan every P-core has one *)
(* (every core with use_e_cores), for any topology in which cores share no *)
(* PUs (build_thread_plan and Controller::run).                            *)
THEOREM CoresShared == Spec => []ThreadsSpread
<1>1. PlanInv => ThreadsSpread
  <2> DEFINE m == input.machine
             cores == m.cores \ {{}}
  <2> SUFFICES ASSUME PlanInv, workers # Absent, m.hwloc
               PROVE  /\ \A c \in cores : Cardinality(PinnedTo(workers.pus, c)) <= 1
                      /\ config.threads = 0 =>
                           /\ \A c \in IF config.useE THEN cores ELSE PCores(cores) : PinnedTo(workers.pus, c) # {}
                           /\ workers.threads = Len(workers.pus)
    BY Zenon DEF ThreadsSpread
  <2>1. input \in Inputs /\ config = Loaded
    BY DEF PlanInv
  <2>2. IsMachine(m) /\ m.logical \in Nat
    BY <2>1, StartupAssumption DEF IsMachine
  <2>3. config.threads \in Nat
    BY <2>1, LoadedThreads
  <2>4. PICK threads, pus : /\ threads = MineThreads(m, config.useE, config.threads)
                            /\ pus = WorkerPus(m, config.useE, config.threads)
    OBVIOUS
  <2>5. workers.threads = threads /\ workers.pus = pus
    <3>1. workers = [threads |-> threads, pus |-> pus]
      BY <2>4 DEF PlanInv
    <3> QED BY <3>1
  <2>6. \A c \in cores :
          /\ Cardinality(PinnedTo(workers.pus, c)) <= 1
          /\ config.threads = 0 /\ c \in (IF config.useE THEN cores ELSE PCores(cores)) => PinnedTo(workers.pus, c) # {}
    <3>1. PICK mm, useE, configured :
            mm = m /\ useE = config.useE /\ configured = config.threads /\ configured \in Nat
      BY <2>3
    <3>2. IsMachine(mm) /\ mm.hwloc /\ pus = WorkerPus(mm, useE, configured) /\ mm.cores \ {{}} = cores
      BY <2>2, <2>4, <3>1
    <3>3. \A c \in mm.cores \ {{}} :
            /\ Cardinality(PinnedTo(pus, c)) <= 1
            /\ configured = 0 /\ c \in (IF useE THEN mm.cores \ {{}} ELSE PCores(mm.cores \ {{}}))
                 => PinnedTo(pus, c) # {}
      BY <3>1, <3>2, Spread
    <3> QED BY <2>5, <3>1, <3>2, <3>3
  <2>7. config.threads = 0 => threads = Len(pus)
    BY <2>2, <2>3, <2>4, WorkersAre
  <2>8. PCores(cores) \subseteq cores
    BY DEF PCores
  <2> QED BY <2>5, <2>6, <2>7, <2>8
<1> QED BY <1>1, PlanInvariant, PTL

-----------------------------------------------------------------------------
(* The parser of DNS answers.  Its loops are recursive functions: that     *)
(* there is such a function is to be shown first.  One that goes up from 0 *)
(* is put together from its beginnings.                                    *)
IsBeginning(g, n, V, a, step) ==
  /\ g \in [0 .. n -> V] /\ g[0] = a
  /\ \A i \in 0 .. n - 1 : g[i + 1] = step[i][g[i]]

LEMMA BeginningExists ==
  ASSUME NEW V, NEW a \in V, NEW step \in [Nat -> [V -> V]], NEW n \in Nat
  PROVE  \E g : IsBeginning(g, n, V, a, step)
<1> DEFINE Bad == {k \in Nat : ~\E g : IsBeginning(g, k, V, a, step)}
<1>1. SUFFICES ASSUME Bad # {} PROVE FALSE
  BY <1>1
<1>2. PICK k \in Bad : \A j \in Bad : k <= j
  BY <1>1, SmallestOf
<1>3. k # 0
  <2> DEFINE g == [i \in 0 .. 0 |-> a]
  <2>1. IsBeginning(g, 0, V, a, step)
    BY DEF IsBeginning
  <2> QED BY <1>2, <2>1
<1>4. k - 1 \in Nat /\ k - 1 \notin Bad
  BY <1>2, <1>3
<1>5. PICK g : IsBeginning(g, k - 1, V, a, step)
  BY <1>4
<1> DEFINE h == [i \in 0 .. k |-> IF i = k THEN step[k - 1][g[k - 1]] ELSE g[i]]
<1>6. /\ g \in [0 .. k - 1 -> V] /\ g[0] = a
      /\ \A i \in 0 .. (k - 1) - 1 : g[i + 1] = step[i][g[i]]
  BY <1>5 DEF IsBeginning
<1>7. step[k - 1][g[k - 1]] \in V
  BY <1>4, <1>6
<1>8. h \in [0 .. k -> V] /\ h[0] = a
  BY <1>2, <1>3, <1>6, <1>7
<1>9. \A i \in 0 .. k - 1 : h[i + 1] = step[i][h[i]]
  <2> SUFFICES ASSUME NEW i \in 0 .. k - 1 PROVE h[i + 1] = step[i][h[i]]
    OBVIOUS
  <2>1. h[i] = g[i] /\ i + 1 \in 0 .. k
    BY <1>2
  <2>2. CASE i = k - 1
    BY <1>2, <2>1, <2>2
  <2>3. CASE i # k - 1
    BY <1>2, <1>6, <2>1, <2>3
  <2> QED BY <2>2, <2>3
<1> HIDE DEF h
<1>10. IsBeginning(h, k, V, a, step)
  BY <1>8, <1>9 DEF IsBeginning
<1> QED BY <1>2, <1>10

LEMMA BeginningsAgree ==
  ASSUME NEW V, NEW a \in V, NEW step \in [Nat -> [V -> V]],
         NEW n \in Nat, NEW g, IsBeginning(g, n, V, a, step),
         NEW m \in Nat, NEW h, IsBeginning(h, m, V, a, step),
         NEW i \in Nat, i <= n, i <= m
  PROVE  g[i] = h[i]
<1> DEFINE Bad == {k \in Nat : k <= n /\ k <= m /\ g[k] # h[k]}
<1>1. SUFFICES ASSUME Bad # {} PROVE FALSE
  BY <1>1
<1>2. PICK k \in Bad : \A j \in Bad : k <= j
  BY <1>1, SmallestOf
<1>3. k # 0
  BY <1>2 DEF IsBeginning
<1>4. k - 1 \in Nat /\ k - 1 \notin Bad
  BY <1>2, <1>3
<1>5. g[k - 1] = h[k - 1] /\ k - 1 \in 0 .. n - 1 /\ k - 1 \in 0 .. m - 1 /\ (k - 1) + 1 = k
  BY <1>2, <1>4
<1>6. g[k] = step[k - 1][g[k - 1]] /\ h[k] = step[k - 1][h[k - 1]]
  BY <1>5 DEF IsBeginning
<1> QED BY <1>2, <1>5, <1>6

GoesUp(f, a, step) == f[0] = a /\ \A n \in Nat : f[n + 1] = step[n][f[n]]

LEMMA Iterates ==
  ASSUME NEW V, NEW a \in V, NEW step \in [Nat -> [V -> V]]
  PROVE  \E f \in [Nat -> V] : GoesUp(f, a, step)
<1> DEFINE up(n) == CHOOSE g : IsBeginning(g, n, V, a, step)
           f == [n \in Nat |-> up(n)[n]]
<1>1. \A n \in Nat : IsBeginning(up(n), n, V, a, step)
  BY BeginningExists, Zenon
<1> HIDE DEF up
<1>2. \A n \in Nat : f[n] = up(n)[n] /\ up(n)[n] \in V
  BY <1>1 DEF IsBeginning
<1>3. f[0] = a
  BY <1>1, <1>2 DEF IsBeginning
<1>4. ASSUME NEW n \in Nat PROVE f[n + 1] = step[n][f[n]]
  <2>1. n + 1 \in Nat /\ n <= n + 1 /\ n \in 0 .. (n + 1) - 1
    OBVIOUS
  <2>2. up(n + 1)[n + 1] = step[n][up(n + 1)[n]]
    BY <1>1, <2>1 DEF IsBeginning
  <2>3. up(n + 1)[n] = up(n)[n]
    BY <1>1, <2>1, BeginningsAgree
  <2> QED BY <1>2, <2>1, <2>2, <2>3
<1> QED BY <1>2, <1>3, <1>4 DEF GoesUp

(* One that only looks further on is defined from the end backwards.       *)
GoesOn(Ends, out, next, L) ==
  /\ L \in Nat /\ Ends \in SUBSET Nat /\ out \in [Nat -> Nat] /\ next \in [Nat -> Nat]
  /\ \A p \in Nat : p < next[p] /\ (p >= L => p \in Ends)
Follows(f, Ends, out, next) == \A p \in Nat : f[p] = IF p \in Ends THEN out[p] ELSE f[next[p]]

LEMMA LooksAhead ==
  ASSUME NEW Ends, NEW out, NEW next, NEW L, GoesOn(Ends, out, next, L)
  PROVE  \E f \in [Nat -> Nat] : Follows(f, Ends, out, next)
<1> USE DEF GoesOn
<1> DEFINE At(f, p) == IF p \in Ends THEN out[p] ELSE f[next[p]]
           From(f, k) == f \in [Nat -> Nat] /\ \A p \in Nat : p + k >= L => f[p] = At(f, p)
           Bad == {k \in Nat : ~\E f : From(f, k)}
<1>1. Bad = {}
  <2> SUFFICES ASSUME Bad # {} PROVE FALSE
    OBVIOUS
  <2>1. PICK k \in Bad : \A j \in Bad : k <= j
    BY SmallestOf
  <2>2. k # 0
    <3>1. From(out, 0)
      OBVIOUS
    <3> QED BY <2>1, <3>1
  <2>3. k - 1 \in Nat /\ k - 1 \notin Bad
    <3>1. k - 1 \in Nat /\ ~(k <= k - 1)
      BY <2>2
    <3> QED BY <2>1, <3>1, Zenon
  <2>4. PICK f : From(f, k - 1)
    BY <2>3
  <2> DEFINE g == [p \in Nat |-> IF p + k = L THEN At(f, p) ELSE f[p]]
  <2>5. g \in [Nat -> Nat]
    BY <2>4
  <2>6. ASSUME NEW p \in Nat, p + k >= L PROVE g[p] = At(g, p)
    <3>1. next[p] \in Nat /\ next[p] + k > L
      BY <2>1, <2>6
    <3>2. g[next[p]] = f[next[p]]
      BY <2>1, <3>1
    <3>3. At(g, p) = At(f, p)
      BY <3>2
    <3>4. CASE p + k = L
      BY <3>3, <3>4
    <3>5. CASE p + k # L
      <4>1. p + (k - 1) >= L
        BY <2>1, <2>6, <3>5
      <4> QED BY <2>4, <3>3, <3>5, <4>1
    <3> QED BY <3>4, <3>5
  <2>7. From(g, k)
    BY <2>5, <2>6
  <2> QED BY <2>1, <2>7
<1>2. PICK f : From(f, L)
  BY <1>1
<1> QED BY <1>2 DEF Follows

LEMMA AheadIsNat ==
  ASSUME NEW Ends, NEW out, NEW next, NEW L, GoesOn(Ends, out, next, L),
         NEW f, Follows(f, Ends, out, next)
  PROVE  \A p \in Nat : f[p] \in Nat
<1> USE DEF GoesOn, Follows
<1> DEFINE Bad == {k \in Nat : \E p \in Nat : p + k >= L /\ f[p] \notin Nat}
<1>1. Bad = {}
  <2> SUFFICES ASSUME Bad # {} PROVE FALSE
    OBVIOUS
  <2>1. PICK k \in Bad : \A j \in Bad : k <= j
    BY SmallestOf
  <2>2. PICK p \in Nat : p + k >= L /\ f[p] \notin Nat
    BY <2>1
  <2>3. p \notin Ends /\ f[p] = f[next[p]]
    BY <2>2
  <2>4. k - 1 \in Nat /\ next[p] \in Nat /\ next[p] + (k - 1) >= L
    BY <2>1, <2>2, <2>3
  <2>5. k - 1 \in Bad
    BY <2>2, <2>3, <2>4
  <2>6. k \in Nat /\ ~(k <= k - 1)
    BY <2>1
  <2> QED BY <2>1, <2>5, <2>6, Zenon
<1>2. \A p \in Nat : p + L >= L
  OBVIOUS
<1> QED BY <1>1, <1>2

Ahead(data, f) ==
  [p \in Nat |->
     IF p >= Len(data) \/ ByteAt(data, p) = 0 THEN p + 1
     ELSE IF ByteAt(data, p) >= 192 THEN p + 2
     ELSE f[p + ByteAt(data, p) + 1]]

(* What is used of a sequence of bytes.                                    *)
AreBytes(data, L) ==
  /\ L = Len(data) /\ L \in Nat
  /\ \A k \in 1 .. L : data[k] \in Nat /\ data[k] <= 255

LEMMA SeqIs ==
  ASSUME NEW S, NEW q, q \in Seq(S)
  PROVE  Len(q) \in Nat /\ \A k \in 1 .. Len(q) : q[k] \in S
OBVIOUS

LEMMA BytesAre ==
  ASSUME NEW data, data \in Seq(Bytes)
  PROVE  AreBytes(data, Len(data))
<1>1. Len(data) \in Nat /\ \A k \in 1 .. Len(data) : data[k] \in Bytes
  BY SeqIs
<1>2. \A x \in Bytes : x \in Nat /\ x <= 255
  BY DEF Bytes
<1> QED BY <1>1, <1>2 DEF AreBytes

(* skip_name goes from label to label, and past the end by at least one.   *)
LEMMA SkipIs ==
  ASSUME NEW data, NEW L, AreBytes(data, L), NEW p \in Nat
  PROVE  /\ SkipName(data, p) \in Nat
         /\ p >= L => SkipName(data, p) = p + 1
         /\ p < L /\ data[p + 1] = 0 => SkipName(data, p) = p + 1
         /\ p < L /\ data[p + 1] >= 192 => SkipName(data, p) = p + 2
         /\ p < L /\ data[p + 1] \in 1 .. 191 =>
              SkipName(data, p) = SkipName(data, p + data[p + 1] + 1)
<1>1. L \in Nat /\ \A q \in Nat : q < L => data[q + 1] \in Nat /\ data[q + 1] <= 255
  BY DEF AreBytes
<1> DEFINE E == {q \in Nat : q >= L \/ data[q + 1] = 0 \/ data[q + 1] >= 192}
           o == [q \in Nat |-> IF q >= L \/ data[q + 1] = 0 THEN q + 1 ELSE q + 2]
           n == [q \in Nat |-> IF q >= L THEN q + 1 ELSE q + data[q + 1] + 1]
<1>2. PICK Ends, out, next : Ends = E /\ out = o /\ next = n
  OBVIOUS
<1>3. out \in [Nat -> Nat] /\ next \in [Nat -> Nat] /\ Ends \in SUBSET Nat
  BY <1>1, <1>2
<1>4. \A q \in Nat : q < next[q] /\ (q >= L => q \in Ends)
  BY <1>1, <1>2
<1>5. GoesOn(Ends, out, next, L)
  BY <1>1, <1>3, <1>4 DEF GoesOn
<1>6. \A f : Ahead(data, f) = [q \in Nat |-> IF q \in Ends THEN out[q] ELSE f[next[q]]]
  BY <1>1, <1>2 DEF Ahead, ByteAt, AreBytes
<1> DEFINE f == CHOOSE h : h = Ahead(data, h)
<1>7. f = Ahead(data, f)
  <2> HIDE DEF f
  <2>1. PICK g \in [Nat -> Nat] : Follows(g, Ends, out, next)
    BY <1>5, LooksAhead, Zenon
  <2>2. g = [q \in Nat |-> IF q \in Ends THEN out[q] ELSE g[next[q]]]
    BY <2>1 DEF Follows
  <2>3. g = Ahead(data, g)
    BY <1>6, <2>2
  <2> QED BY <2>3, Zenon DEF f
<1>8. \A q \in Nat : SkipName(data, q) = f[q]
  BY DEF SkipName, Ahead
<1> HIDE DEF f
<1>9. \A q \in Nat :
        f[q] = IF q >= L \/ data[q + 1] = 0 THEN q + 1
               ELSE IF data[q + 1] >= 192 THEN q + 2
               ELSE f[q + data[q + 1] + 1]
  BY <1>7 DEF Ahead, ByteAt, AreBytes
<1>10. \A q \in Nat : f[q] \in Nat
  <2>1. Follows(f, Ends, out, next)
    BY <1>6, <1>7 DEF Follows
  <2> QED BY <1>5, <2>1, AheadIsNat, Zenon
<1>11. p < L /\ data[p + 1] \in 1 .. 191 => p + data[p + 1] + 1 \in Nat
  BY <1>1
<1>12. /\ f[p] \in Nat
       /\ p >= L => f[p] = p + 1
       /\ p < L /\ data[p + 1] = 0 => f[p] = p + 1
       /\ p < L /\ data[p + 1] >= 192 => f[p] = p + 2
       /\ p < L /\ data[p + 1] \in 1 .. 191 => f[p] = f[p + data[p + 1] + 1]
  <2>1. f[p] = IF p >= L \/ data[p + 1] = 0 THEN p + 1
               ELSE IF data[p + 1] >= 192 THEN p + 2
               ELSE f[p + data[p + 1] + 1]
    BY <1>9
  <2> QED BY <1>1, <1>10, <2>1
<1> QED BY <1>8, <1>11, <1>12

(* A name that is there is skipped to its end, and one that is cut short   *)
(* to beyond the end of the packet.                                        *)
LEMMA NameSkipped ==
  ASSUME NEW data, NEW L, AreBytes(data, L),
         NEW name, NEW n, AreBytes(name, n), IsName(name), NEW b \in Nat,
         \A k \in 1 .. n : b + k <= L => data[b + k] = name[k]
  PROVE  /\ SkipName(data, b) \in Nat
         /\ b + n <= L => SkipName(data, b) = b + n
         /\ b + n > L => SkipName(data, b) > L
<1> DEFINE Right(p) == IF b + n <= L THEN SkipName(data, b + p) = b + n ELSE SkipName(data, b + p) > L
<1>1. L \in Nat /\ n \in Nat /\ \A k \in 1 .. n : name[k] \in Nat /\ name[k] <= 255
  BY DEF AreBytes
<1>2. PICK starts \in SUBSET (0 .. n - 1) :
        /\ 0 \in starts
        /\ \A p \in starts :
             \/ name[p + 1] = 0 /\ p + 1 = n
             \/ name[p + 1] >= 192 /\ p + 2 = n
             \/ name[p + 1] \in 1 .. 191 /\ p + name[p + 1] + 1 \in starts
  BY DEF IsName, AreBytes
<1>3. \A p \in starts : p \in Nat /\ p < n
  BY <1>1, <1>2
<1> DEFINE Bad == {k \in Nat : \E p \in starts : p + k = n /\ ~Right(p)}
<1>4. Bad = {}
  <2> SUFFICES ASSUME Bad # {} PROVE FALSE
    OBVIOUS
  <2>1. PICK k \in Bad : \A j \in Bad : k <= j
    BY SmallestOf
  <2>2. PICK p \in starts : p + k = n /\ ~Right(p)
    BY <2>1
  <2> DEFINE length == name[p + 1]
             q == b + p
  <2>3. p \in Nat /\ p < n /\ q \in Nat /\ k \in Nat /\ p + 1 \in 1 .. n /\ q + 1 = b + (p + 1)
    BY <1>1, <1>3, <2>1, <2>2
  <2>4. q < L => data[q + 1] = length
    BY <1>1, <2>3
  <2>5. length \in Nat
    BY <1>1, <2>3
  <2>6. CASE q >= L
    <3>1. SkipName(data, q) = q + 1
      BY <2>3, <2>6, SkipIs
    <3> QED BY <1>1, <2>2, <2>3, <2>6, <3>1
  <2>7. CASE q < L /\ length = 0 /\ p + 1 = n
    <3>1. SkipName(data, q) = q + 1
      BY <2>3, <2>4, <2>7, SkipIs
    <3> QED BY <1>1, <2>2, <2>3, <2>7, <3>1
  <2>8. CASE q < L /\ length >= 192 /\ p + 2 = n
    <3>1. SkipName(data, q) = q + 2
      BY <2>3, <2>4, <2>8, SkipIs
    <3> QED BY <1>1, <2>2, <2>3, <2>8, <3>1
  <2>9. CASE q < L /\ length \in 1 .. 191 /\ p + length + 1 \in starts
    <3>1. SkipName(data, q) = SkipName(data, q + length + 1)
      BY <2>3, <2>4, <2>9, SkipIs
    <3>2. q + length + 1 = b + (p + length + 1)
      BY <2>3, <2>5
    <3>3. ~Right(p + length + 1)
      BY <2>2, <3>1, <3>2
    <3>4. k - length - 1 \in Nat /\ (p + length + 1) + (k - length - 1) = n
      BY <1>1, <1>3, <2>2, <2>3, <2>5, <2>9
    <3>5. k - length - 1 \in Bad
      BY <2>9, <3>3, <3>4, Zenon
    <3>6. ~(k <= k - length - 1)
      BY <2>3, <2>5
    <3> QED BY <2>1, <3>5, <3>6, Zenon
  <2>10. q >= L \/ q < L
    BY <1>1, <2>3
  <2>11. \/ length = 0 /\ p + 1 = n
         \/ length >= 192 /\ p + 2 = n
         \/ length \in 1 .. 191 /\ p + length + 1 \in starts
    BY <1>2
  <2> QED BY <2>6, <2>7, <2>8, <2>9, <2>10, <2>11, Zenon
<1>5. n \in Nat /\ 0 + n = n /\ n \notin Bad
  <2> HIDE DEF Bad
  <2> QED BY <1>1, <1>4
<1>6. Right(0)
  BY <1>1, <1>2, <1>5
<1>7. SkipName(data, b) \in Nat /\ b + 0 = b
  BY SkipIs
<1> QED BY <1>1, <1>6, <1>7

(* What has been written after each part: what was there before it, and    *)
(* the part.                                                               *)
Writes(start, parts, f) ==
  [i \in 0 .. Len(parts) |-> IF i = 0 THEN start ELSE f[i - 1] \o parts[i]]

AreParts(parts, n, S) ==
  n \in Nat /\ Len(parts) = n /\ \A i \in 1 .. n : parts[i] \in Seq(S)
GrowsBy(W, start, parts, n, S) ==
  /\ W[0] = start
  /\ \A i \in 1 .. n : W[i] = W[i - 1] \o parts[i]
  /\ \A i \in 0 .. n : W[i] \in Seq(S)

LEMMA WrittenIs ==
  ASSUME NEW S, NEW start, start \in Seq(S), NEW parts, NEW n, AreParts(parts, n, S)
  PROVE  GrowsBy(Written(start, parts), start, parts, n, S)
<1>1. n \in Nat /\ Len(parts) = n /\ \A i \in 1 .. n : parts[i] \in Seq(S)
  BY DEF AreParts
<1> DEFINE W == CHOOSE f : f = Writes(start, parts, f)
<1>2. PICK V : V = Seq(S)
  OBVIOUS
<1>3. \A x \in V : \A i \in 1 .. n : x \o parts[i] \in V
  BY <1>1, <1>2
<1>4. start \in V
  BY <1>2
<1> DEFINE s == [i \in Nat |-> [x \in V |-> IF i + 1 \in 1 .. n THEN x \o parts[i + 1] ELSE x]]
<1>5. s \in [Nat -> [V -> V]]
  BY <1>3
<1>6. \A i \in Nat : \A x \in V : i + 1 \in 1 .. n => s[i][x] = x \o parts[i + 1]
  OBVIOUS
<1> HIDE DEF s
<1>7. PICK f \in [Nat -> V] : f[0] = start /\ \A i \in Nat : f[i + 1] = s[i][f[i]]
  <2>1. \E f \in [Nat -> V] : GoesUp(f, start, s)
    BY <1>4, <1>5, Iterates, Zenon
  <2> QED BY <2>1 DEF GoesUp
<1> DEFINE g == [i \in 0 .. n |-> f[i]]
<1>8. g = Writes(start, parts, g)
  <2>1. g[0] = start
    BY <1>1, <1>7
  <2>2. ASSUME NEW i \in 1 .. n PROVE g[i] = g[i - 1] \o parts[i]
    <3>1. i - 1 \in Nat /\ i - 1 \in 0 .. n /\ i \in 0 .. n /\ (i - 1) + 1 = i
      BY <1>1
    <3>2. f[i - 1] \in V /\ f[i] = s[i - 1][f[i - 1]]
      BY <1>7, <3>1
    <3>3. s[i - 1][f[i - 1]] = f[i - 1] \o parts[i]
      BY <1>6, <3>1, <3>2
    <3>4. g[i] = f[i] /\ g[i - 1] = f[i - 1]
      BY <3>1
    <3> QED BY <3>2, <3>3, <3>4
  <2>3. \A i \in 0 .. n : i # 0 => i \in 1 .. n
    BY <1>1
  <2> DEFINE h == [i \in 0 .. n |-> IF i = 0 THEN start ELSE g[i - 1] \o parts[i]]
  <2>4. h = Writes(start, parts, g)
    BY <1>1 DEF Writes
  <2>5. \A i \in 0 .. n : g[i] = h[i]
    BY <2>1, <2>2, <2>3
  <2>6. g = h
    <3>1. g = [i \in 0 .. n |-> g[i]] /\ h = [i \in 0 .. n |-> h[i]]
      OBVIOUS
    <3> HIDE DEF g, h
    <3> QED BY <2>5, <3>1
  <2> QED BY <2>4, <2>6
<1>9. W = Writes(start, parts, W)
  <2> HIDE DEF g
  <2> QED BY <1>8, Zenon
<1>10. W = Written(start, parts)
  BY DEF Written, Writes
<1> HIDE DEF W
<1>11. W[0] = start /\ \A i \in 1 .. n : W[i] = W[i - 1] \o parts[i]
  <2>1. 0 \in 0 .. n /\ \A i \in 1 .. n : i \in 0 .. n /\ i # 0
    BY <1>1
  <2>2. \A i \in 0 .. n : W[i] = IF i = 0 THEN start ELSE W[i - 1] \o parts[i]
    BY <1>1, <1>9 DEF Writes
  <2> QED BY <2>1, <2>2, Zenon
<1>12. \A i \in 0 .. n : W[i] \in V
  <2> DEFINE Bad == {i \in Nat : i <= n /\ W[i] \notin V}
  <2>1. SUFFICES ASSUME Bad # {} PROVE FALSE
    BY <2>1
  <2>2. PICK i \in Bad : \A j \in Bad : i <= j
    BY <2>1, SmallestOf
  <2>3. i # 0
    BY <1>4, <1>11, <2>2
  <2>4. i - 1 \in Nat /\ i \in 1 .. n /\ i - 1 <= n /\ i - 1 \notin Bad
    BY <1>1, <2>2, <2>3
  <2>5. W[i] = W[i - 1] \o parts[i]
    BY <1>11, <2>4
  <2> QED BY <1>3, <2>2, <2>4, <2>5
<1> QED BY <1>2, <1>10, <1>11, <1>12 DEF GrowsBy

(* It only gets longer, and each part stays where it was put.              *)
IsPrefixOf(s, t) ==
  /\ Len(s) \in Nat /\ Len(t) \in Nat /\ Len(s) <= Len(t)
  /\ \A k \in 1 .. Len(s) : t[k] = s[k]
Contains(t, p, b) ==
  /\ b \in Nat /\ Len(p) \in Nat /\ Len(t) \in Nat /\ b + Len(p) <= Len(t)
  /\ \A k \in 1 .. Len(p) : t[b + k] = p[k]

LEMMA StillContains ==
  ASSUME NEW s, NEW t, NEW p, NEW b, Contains(s, p, b), IsPrefixOf(s, t)
  PROVE  Contains(t, p, b)
<1>1. PICK l, m, n : l = Len(p) /\ m = Len(s) /\ n = Len(t)
  OBVIOUS
<1>2. l \in Nat /\ m \in Nat /\ n \in Nat /\ b \in Nat /\ b + l <= m /\ m <= n
  BY <1>1 DEF Contains, IsPrefixOf
<1>3. \A k \in 1 .. l : s[b + k] = p[k]
  BY <1>1 DEF Contains
<1>4. \A k \in 1 .. m : t[k] = s[k]
  BY <1>1 DEF IsPrefixOf
<1>5. \A k \in 1 .. l : b + k \in 1 .. m
  BY <1>2
<1> QED BY <1>1, <1>2, <1>3, <1>4, <1>5 DEF Contains

LEMMA PrefixOfPrefix ==
  ASSUME NEW r, NEW s, NEW t, IsPrefixOf(r, s), IsPrefixOf(s, t)
  PROVE  IsPrefixOf(r, t)
<1>1. \A k \in 1 .. Len(r) : k \in 1 .. Len(s)
  BY DEF IsPrefixOf
<1> QED BY <1>1 DEF IsPrefixOf

Appends(s, p, t) ==
  /\ Len(t) = Len(s) + Len(p) /\ Len(s) \in Nat /\ Len(p) \in Nat
  /\ \A k \in 1 .. Len(s) : t[k] = s[k]
  /\ \A k \in 1 .. Len(p) : t[Len(s) + k] = p[k]

LEMMA AppendedTo ==
  ASSUME NEW S, NEW s, s \in Seq(S), NEW p, p \in Seq(S)
  PROVE  Appends(s, p, s \o p)
BY DEF Appends

LEMMA AppendedIsThere ==
  ASSUME NEW s, NEW p, NEW t, Appends(s, p, t)
  PROVE  IsPrefixOf(s, t) /\ Contains(t, p, Len(s))
<1>1. PICK a, b, c : a = Len(s) /\ b = Len(p) /\ c = Len(t)
  OBVIOUS
<1>2. a \in Nat /\ b \in Nat /\ c = a + b
  BY <1>1 DEF Appends
<1>3. c \in Nat /\ a <= c /\ a + b <= c
  BY <1>2
<1>4. (\A k \in 1 .. a : t[k] = s[k]) /\ \A k \in 1 .. b : t[a + k] = p[k]
  BY <1>1 DEF Appends
<1> QED BY <1>1, <1>2, <1>3, <1>4 DEF IsPrefixOf, Contains

LEMMA PartWritten ==
  ASSUME NEW S, NEW n, NEW W, NEW start, NEW parts,
         AreParts(parts, n, S), GrowsBy(W, start, parts, n, S), NEW k, k \in 1 .. n
  PROVE  Appends(W[k - 1], parts[k], W[k])
<1>1. k - 1 \in 0 .. n
  BY DEF AreParts
<1>2. W[k - 1] \in Seq(S) /\ parts[k] \in Seq(S) /\ W[k] = W[k - 1] \o parts[k]
  BY <1>1 DEF AreParts, GrowsBy
<1> QED BY <1>2, AppendedTo, Zenon

LEMMA WrittenStays ==
  ASSUME NEW S, NEW n, NEW W, NEW start, NEW parts,
         AreParts(parts, n, S), GrowsBy(W, start, parts, n, S),
         NEW i \in Nat, NEW j \in Nat, i <= j, j <= n
  PROVE  IsPrefixOf(W[i], W[j])
<1>1. n \in Nat /\ \A k \in 0 .. n : W[k] \in Seq(S)
  BY DEF AreParts, GrowsBy
<1>2. \A k \in 1 .. n : Appends(W[k - 1], parts[k], W[k])
  BY PartWritten
<1>3. IsPrefixOf(W[i], W[j])
  <2> DEFINE Bad == {k \in Nat : i <= k /\ k <= n /\ ~IsPrefixOf(W[i], W[k])}
  <2>1. SUFFICES ASSUME Bad # {} PROVE FALSE
    BY <2>1
  <2>2. PICK k \in Bad : \A l \in Bad : k <= l
    BY <2>1, SmallestOf
  <2>3. k # i
    <3>1. IsPrefixOf(W[i], W[i])
      <4>1. W[i] \in Seq(S)
        BY <1>1
      <4> QED BY <4>1 DEF IsPrefixOf
    <3> QED BY <2>2, <3>1
  <2>4. k - 1 \in Nat /\ k - 1 <= n /\ i <= k - 1 /\ k \in 1 .. n /\ k - 1 \notin Bad
    BY <1>1, <2>2, <2>3
  <2>5. IsPrefixOf(W[i], W[k - 1]) /\ ~IsPrefixOf(W[i], W[k])
    BY <2>2, <2>4
  <2>6. Appends(W[k - 1], parts[k], W[k])
    BY <1>2, <2>4
  <2>7. IsPrefixOf(W[k - 1], W[k])
    BY <2>6, AppendedIsThere
  <2> QED BY <2>5, <2>7, PrefixOfPrefix
<1> QED BY <1>3

LEMMA PartStays ==
  ASSUME NEW S, NEW n, NEW W, NEW start, NEW parts,
         AreParts(parts, n, S), GrowsBy(W, start, parts, n, S),
         NEW i, i \in 1 .. n
  PROVE  Contains(W[n], parts[i], Len(W[i - 1]))
<1>1. n \in Nat /\ i \in Nat /\ i <= n
  BY DEF AreParts
<1>2. Appends(W[i - 1], parts[i], W[i])
  BY PartWritten
<1>3. Contains(W[i], parts[i], Len(W[i - 1]))
  BY <1>2, AppendedIsThere
<1>4. IsPrefixOf(W[i], W[n])
  BY <1>1, WrittenStays
<1> QED BY <1>3, <1>4, StillContains

(* The encoding of a message.                                              *)
LEMMA WordIs ==
  ASSUME NEW n \in Words
  PROVE  High(n) \in Bytes /\ Low(n) \in Bytes /\ High(n) * 256 + Low(n) = n
BY DEF Words, Bytes, High, Low

LEMMA HeaderIs ==
  ASSUME NEW m, IsMessage(m)
  PROVE  /\ Header(m) \in Seq(Bytes) /\ Len(Header(m)) = 12
         /\ Header(m)[5] * 256 + Header(m)[6] = Len(m.questions)
         /\ Header(m)[7] * 256 + Header(m)[8] = m.announced
<1>1. PICK q \in Words, a \in Words : q = Len(m.questions) /\ a = m.announced
  BY DEF IsMessage
<1>2. PICK b, c, d, e : b = High(q) /\ c = Low(q) /\ d = High(a) /\ e = Low(a)
  OBVIOUS
<1>3. b \in Bytes /\ c \in Bytes /\ d \in Bytes /\ e \in Bytes /\ b * 256 + c = q /\ d * 256 + e = a
  BY <1>2, WordIs
<1>4. Header(m) = <<18, 52, 129, 128, b, c, d, e, 0, 0, 0, 0>>
  BY <1>1, <1>2 DEF Header
<1>5. \A x \in {18, 52, 129, 128, 0} : x \in Bytes
  BY DEF Bytes
<1>6. /\ <<18, 52, 129, 128, b, c, d, e, 0, 0, 0, 0>> \in Seq(Bytes)
      /\ Len(<<18, 52, 129, 128, b, c, d, e, 0, 0, 0, 0>>) = 12
      /\ <<18, 52, 129, 128, b, c, d, e, 0, 0, 0, 0>>[5] = b
      /\ <<18, 52, 129, 128, b, c, d, e, 0, 0, 0, 0>>[6] = c
      /\ <<18, 52, 129, 128, b, c, d, e, 0, 0, 0, 0>>[7] = d
      /\ <<18, 52, 129, 128, b, c, d, e, 0, 0, 0, 0>>[8] = e
  BY <1>3, <1>5
<1> QED BY <1>1, <1>3, <1>4, <1>6

LEMMA QuestionIs ==
  ASSUME NEW name, name \in Seq(Bytes)
  PROVE  /\ EncodeQuestion(name) \in Seq(Bytes)
         /\ Appends(name, <<0, 1, 0, 1>>, EncodeQuestion(name))
         /\ Len(EncodeQuestion(name)) = Len(name) + 4
<1>1. 0 \in Bytes /\ 1 \in Bytes
  BY DEF Bytes
<1>2. PICK q : q = <<0, 1, 0, 1>>
  OBVIOUS
<1>3. q \in Seq(Bytes) /\ Len(q) = 4
  BY <1>1, <1>2
<1>4. name \o q \in Seq(Bytes)
  BY <1>3
<1>5. Appends(name, q, name \o q)
  BY <1>3, AppendedTo
<1> QED BY <1>2, <1>3, <1>4, <1>5 DEF EncodeQuestion, Appends

(* What the parser needs of a record: where its parts are.                 *)
IsRecord(r) ==
  /\ r.name \in Seq(Bytes) /\ IsName(r.name)
  /\ r.type \in Words
  /\ r.data \in Seq(Bytes) /\ Len(r.data) \in Words
LiesIn(r, R) ==
  LET n == Len(r.name)
      d == Len(r.data)
  IN  /\ n \in Nat /\ d \in Nat /\ Len(R) = n + 10 + d
      /\ \A k \in 1 .. n : R[k] = r.name[k]
      /\ R[n + 1] * 256 + R[n + 2] = r.type
      /\ R[n + 9] * 256 + R[n + 10] = d
      /\ \A k \in 1 .. d : R[n + 10 + k] = r.data[k]

LEMMA RecordIs ==
  ASSUME NEW r, IsRecord(r)
  PROVE  EncodeRecord(r) \in Seq(Bytes) /\ LiesIn(r, EncodeRecord(r))
<1>1. PICK name, data, type, d, n :
        /\ name = r.name /\ data = r.data /\ type = r.type
        /\ d = Len(data) /\ n = Len(name)
  OBVIOUS
<1>2. name \in Seq(Bytes) /\ data \in Seq(Bytes) /\ type \in Words /\ d \in Words
  BY <1>1 DEF IsRecord
<1>3. PICK a, b, c, e : a = High(type) /\ b = Low(type) /\ c = High(d) /\ e = Low(d)
  OBVIOUS
<1>4. a \in Bytes /\ b \in Bytes /\ c \in Bytes /\ e \in Bytes /\ a * 256 + b = type /\ c * 256 + e = d
  BY <1>2, <1>3, WordIs
<1>5. PICK f : f = <<a, b, 0, 1, 0, 0, 0, 60, c, e>>
  OBVIOUS
<1>6. 0 \in Bytes /\ 1 \in Bytes /\ 60 \in Bytes
  BY DEF Bytes
<1>7. f \in Seq(Bytes) /\ Len(f) = 10 /\ f[1] = a /\ f[2] = b /\ f[9] = c /\ f[10] = e
  BY <1>4, <1>5, <1>6
<1>8. EncodeRecord(r) = name \o f \o data
  BY <1>1, <1>3, <1>5 DEF EncodeRecord
<1>9. PICK h : h = name \o f
  OBVIOUS
<1>10. h \in Seq(Bytes) /\ Appends(name, f, h)
  BY <1>2, <1>7, <1>9, AppendedTo
<1>11. PICK R : R = h \o data
  OBVIOUS
<1>12. R \in Seq(Bytes) /\ Appends(h, data, R)
  BY <1>2, <1>10, <1>11, AppendedTo
<1>13. n \in Nat /\ d \in Nat /\ Len(h) = n + 10 /\ Len(R) = n + 10 + d
  BY <1>1, <1>7, <1>10, <1>12 DEF Appends
<1>14. \A k \in 1 .. n + 10 : R[k] = h[k]
  BY <1>12, <1>13 DEF Appends
<1>15. /\ \A k \in 1 .. n : h[k] = name[k]
       /\ \A k \in 1 .. 10 : h[n + k] = f[k]
  BY <1>1, <1>7, <1>10 DEF Appends
<1>16. \A k \in 1 .. d : R[n + 10 + k] = data[k]
  BY <1>1, <1>12, <1>13 DEF Appends
<1>17. \A k \in 1 .. n : k \in 1 .. n + 10
  BY <1>13
<1>18. \A k \in 1 .. 10 : n + k \in 1 .. n + 10
  BY <1>13
<1>19. \A k \in 1 .. 10 : R[n + k] = f[k]
  BY <1>14, <1>15, <1>18
<1>20. R[n + 1] = a /\ R[n + 2] = b /\ R[n + 9] = c /\ R[n + 10] = e
  BY <1>7, <1>19
<1>21. \A k \in 1 .. n : R[k] = name[k]
  BY <1>14, <1>15, <1>17
<1>22. R = EncodeRecord(r)
  BY <1>8, <1>9, <1>11
<1>23. LiesIn(r, R)
  BY <1>1, <1>4, <1>13, <1>16, <1>20, <1>21 DEF LiesIn
<1> QED BY <1>12, <1>22, <1>23

LEMMA QuestionsAre ==
  ASSUME NEW m, IsMessage(m)
  PROVE  /\ Len(m.questions) \in Nat
         /\ \A i \in 1 .. Len(m.questions) :
              m.questions[i] \in Seq(Bytes) /\ IsName(m.questions[i])
<1>1. m.questions \in Seq(Seq(Bytes)) /\ \A i \in DOMAIN m.questions : IsName(m.questions[i])
  BY DEF IsMessage
<1>2. PICK q, S : q = m.questions /\ S = Seq(Bytes)
  OBVIOUS
<1>3. q \in Seq(S)
  BY <1>1, <1>2
<1>4. Len(q) \in Nat /\ DOMAIN q = 1 .. Len(q) /\ \A k \in 1 .. Len(q) : q[k] \in S
  BY <1>3
<1> QED BY <1>1, <1>2, <1>4

LEMMA RecordsAre ==
  ASSUME NEW m, IsMessage(m)
  PROVE  /\ Len(m.records) \in Nat /\ DOMAIN m.records = 1 .. Len(m.records)
         /\ \A i \in 1 .. Len(m.records) : IsRecord(m.records[i])
<1> DEFINE T == [name : Seq(Bytes), type : Words, data : Seq(Bytes)]
<1>1. /\ m.records \in Seq(T)
      /\ \A i \in DOMAIN m.records : IsName(m.records[i].name) /\ Len(m.records[i].data) \in Words
  BY DEF IsMessage
<1>2. \A r \in T : r.name \in Seq(Bytes) /\ r.type \in Words /\ r.data \in Seq(Bytes)
  OBVIOUS
<1>3. PICK q, S : q = m.records /\ S = T
  OBVIOUS
<1>4. q \in Seq(S)
  BY <1>1, <1>3
<1>5. Len(q) \in Nat /\ DOMAIN q = 1 .. Len(q) /\ \A k \in 1 .. Len(q) : q[k] \in S
  BY <1>4
<1> HIDE DEF T
<1>6. \A k \in 1 .. Len(q) : q[k].name \in Seq(Bytes) /\ q[k].type \in Words /\ q[k].data \in Seq(Bytes)
  BY <1>2, <1>3, <1>5, Zenon
<1> QED BY <1>1, <1>3, <1>5, <1>6 DEF IsRecord

QuestionParts(m) == [i \in DOMAIN m.questions |-> EncodeQuestion(m.questions[i])]
RecordParts(m) == [i \in DOMAIN m.records |-> EncodeRecord(m.records[i])]

LEMMA AskedIs ==
  ASSUME NEW m, IsMessage(m)
  PROVE  /\ AreParts(QuestionParts(m), Len(m.questions), Bytes)
         /\ GrowsBy(Asked(m), Header(m), QuestionParts(m), Len(m.questions), Bytes)
<1>1. PICK n : n = Len(m.questions)
  OBVIOUS
<1>2. m.questions \in Seq(Seq(Bytes))
  BY DEF IsMessage
<1>3. n \in Nat /\ DOMAIN m.questions = 1 .. n
  BY <1>1, <1>2
<1>4. PICK parts : parts = QuestionParts(m)
  OBVIOUS
<1>5. Len(parts) = n /\ \A i \in 1 .. n : parts[i] = EncodeQuestion(m.questions[i])
  BY <1>3, <1>4 DEF QuestionParts
<1>6. \A i \in 1 .. n : parts[i] \in Seq(Bytes)
  BY <1>1, <1>5, QuestionsAre, QuestionIs
<1>7. AreParts(parts, n, Bytes)
  BY <1>3, <1>5, <1>6 DEF AreParts
<1>8. Asked(m) = Written(Header(m), parts)
  BY <1>4 DEF Asked, QuestionParts
<1>9. GrowsBy(Asked(m), Header(m), parts, n, Bytes)
  BY <1>7, <1>8, HeaderIs, WrittenIs
<1> QED BY <1>1, <1>4, <1>7, <1>9

LEMMA AnsweredIs ==
  ASSUME NEW m, IsMessage(m)
  PROVE  /\ AreParts(RecordParts(m), Len(m.records), Bytes)
         /\ GrowsBy(Answered(m), Asked(m)[Len(m.questions)], RecordParts(m), Len(m.records), Bytes)
<1>1. PICK n, start : n = Len(m.records) /\ start = Asked(m)[Len(m.questions)]
  OBVIOUS
<1>2. n \in Nat /\ DOMAIN m.records = 1 .. n
  BY <1>1, RecordsAre
<1>3. PICK parts : parts = RecordParts(m)
  OBVIOUS
<1>4. Len(parts) = n /\ \A i \in 1 .. n : parts[i] = EncodeRecord(m.records[i])
  BY <1>2, <1>3 DEF RecordParts
<1>5. \A i \in 1 .. n : parts[i] \in Seq(Bytes)
  BY <1>1, <1>4, RecordsAre, RecordIs
<1>6. AreParts(parts, n, Bytes)
  BY <1>2, <1>4, <1>5 DEF AreParts
<1>7. start \in Seq(Bytes)
  <2>1. PICK q : q = Len(m.questions)
    OBVIOUS
  <2>2. q \in Nat /\ q \in 0 .. q
    BY <2>1, QuestionsAre
  <2>3. \A i \in 0 .. q : Asked(m)[i] \in Seq(Bytes)
    BY <2>1, AskedIs DEF GrowsBy
  <2> QED BY <1>1, <2>1, <2>2, <2>3
<1>8. Answered(m) = Written(start, parts)
  BY <1>1, <1>3 DEF Answered, RecordParts
<1>9. GrowsBy(Answered(m), start, parts, n, Bytes)
  BY <1>6, <1>7, <1>8, WrittenIs
<1> QED BY <1>1, <1>3, <1>6, <1>9

(* A packet: the first bytes of a message.                                 *)
IsPacket(data, L, m) ==
  /\ IsMessage(m) /\ data \in Seq(Bytes) /\ AreBytes(data, L)
  /\ AreBytes(Encode(m), Len(Encode(m))) /\ L <= Len(Encode(m))
  /\ \A k \in 1 .. L : data[k] = Encode(m)[k]

LEMMA EncodeIs ==
  ASSUME NEW m, IsMessage(m)
  PROVE  Encode(m) \in Seq(Bytes)
<1>1. PICK n : n = Len(m.records)
  OBVIOUS
<1>2. n \in Nat /\ n \in 0 .. n
  BY <1>1, RecordsAre
<1>3. Answered(m)[n] \in Seq(Bytes)
  BY <1>1, <1>2, AnsweredIs DEF GrowsBy
<1> QED BY <1>1, <1>3 DEF Encode

LEMMA CutIsPacket ==
  ASSUME NEW m, IsMessage(m), NEW L \in 0 .. Len(Encode(m))
  PROVE  IsPacket(SubSeq(Encode(m), 1, L), L, m)
<1>1. PICK E : E = Encode(m)
  OBVIOUS
<1>2. E \in Seq(Bytes) /\ L \in 0 .. Len(E)
  BY <1>1, EncodeIs
<1>3. PICK data : data = SubSeq(E, 1, L)
  OBVIOUS
<1>4. AreBytes(E, Len(E))
  BY <1>2, BytesAre
<1>5. data \in Seq(Bytes) /\ Len(data) = L /\ L \in Nat /\ L <= Len(E) /\ \A k \in 1 .. L : data[k] = E[k]
  BY <1>2, <1>3
<1>6. AreBytes(data, L)
  BY <1>5, BytesAre
<1> QED BY <1>1, <1>3, <1>4, <1>5, <1>6 DEF IsPacket

(* Where the questions and the records are in a message and in a packet.   *)
LEMMA QuestionAt ==
  ASSUME NEW m, IsMessage(m), NEW i, i \in 1 .. Len(m.questions)
  PROVE  LET b == Len(Asked(m)[i - 1])
             question == EncodeQuestion(m.questions[i])
         IN  /\ Contains(Encode(m), question, b)
             /\ Len(Asked(m)[i]) = b + Len(question)
<1>1. PICK q, Q, A, a, parts, recs :
        /\ q = Len(m.questions) /\ Q = Asked(m) /\ A = Answered(m) /\ a = Len(m.records)
        /\ parts = QuestionParts(m) /\ recs = RecordParts(m)
  OBVIOUS
<1>2. /\ AreParts(parts, q, Bytes) /\ GrowsBy(Q, Header(m), parts, q, Bytes)
      /\ AreParts(recs, a, Bytes) /\ GrowsBy(A, Q[q], recs, a, Bytes)
  BY <1>1, AskedIs, AnsweredIs
<1>3. IsPrefixOf(Q[q], A[a])
  <2>1. a \in Nat /\ 0 \in Nat /\ 0 <= a /\ a <= a
    BY <1>2 DEF AreParts
  <2>2. IsPrefixOf(A[0], A[a])
    BY <1>2, <2>1, WrittenStays
  <2> QED BY <1>2, <2>2 DEF GrowsBy
<1>4. i \in 1 .. q
  BY <1>1
<1>5. Contains(Q[q], parts[i], Len(Q[i - 1])) /\ Appends(Q[i - 1], parts[i], Q[i])
  BY <1>2, <1>4, PartStays, PartWritten
<1>6. Contains(A[a], parts[i], Len(Q[i - 1]))
  BY <1>3, <1>5, StillContains
<1>7. parts[i] = EncodeQuestion(m.questions[i])
  <2>1. m.questions \in Seq(Seq(Bytes))
    BY DEF IsMessage
  <2>2. DOMAIN m.questions = 1 .. q
    BY <1>1, <2>1
  <2> QED BY <1>1, <1>4, <2>2 DEF QuestionParts
<1> QED BY <1>1, <1>5, <1>6, <1>7 DEF Encode, Appends

LEMMA RecordAt ==
  ASSUME NEW m, IsMessage(m), NEW i, i \in 1 .. Len(m.records)
  PROVE  LET b == Len(Answered(m)[i - 1])
             R == EncodeRecord(m.records[i])
         IN  Contains(Encode(m), R, b) /\ Len(Answered(m)[i]) = b + Len(R)
<1>1. PICK A, n, parts :
        A = Answered(m) /\ n = Len(m.records) /\ parts = RecordParts(m)
  OBVIOUS
<1>2. AreParts(parts, n, Bytes) /\ \E start : GrowsBy(A, start, parts, n, Bytes)
  BY <1>1, AnsweredIs
<1>3. i \in 1 .. n
  BY <1>1
<1>4. Contains(A[n], parts[i], Len(A[i - 1])) /\ Appends(A[i - 1], parts[i], A[i])
  BY <1>2, <1>3, PartStays, PartWritten
<1>5. parts[i] = EncodeRecord(m.records[i])
  BY <1>1, <1>3, RecordsAre DEF RecordParts
<1> QED BY <1>1, <1>4, <1>5 DEF Encode, Appends

LEMMA InPacket ==
  ASSUME NEW data, NEW L, NEW m, IsPacket(data, L, m), NEW p, NEW b, Contains(Encode(m), p, b)
  PROVE  \A k \in 1 .. Len(p) : b + k <= L => data[b + k] = p[k]
<1>1. PICK E, n : E = Encode(m) /\ n = Len(p)
  OBVIOUS
<1>2. b \in Nat /\ n \in Nat /\ L \in Nat /\ \A k \in 1 .. n : E[b + k] = p[k]
  BY <1>1 DEF Contains, IsPacket, AreBytes
<1>3. \A k \in 1 .. n : b + k <= L => b + k \in 1 .. L
  BY <1>2
<1> QED BY <1>1, <1>2, <1>3 DEF IsPacket

(* A loop that goes on at p, and one that has been left.                   *)
Going(s, p, F) == p \in Nat /\ s = [pos |-> p, found |-> F]
Stopped(s, F) == s = [pos |-> Left, found |-> F]

LEMMA StaysStopped ==
  ASSUME NEW data, NEW s, NEW F, Stopped(s, F)
  PROVE  Stopped(ParseQuestion(data, s), F) /\ Stopped(ParseRecord(data, s), F)
<1>1. s.pos = Left /\ s.found = F
  BY DEF Stopped
<1>2. ParseQuestion(data, s) = [pos |-> Left, found |-> F]
  BY <1>1, Zenon DEF ParseQuestion
<1>3. ParseRecord(data, s) = [pos |-> Left, found |-> F]
  BY <1>1, Zenon DEF ParseRecord
<1> QED BY <1>2, <1>3 DEF Stopped

LEMMA GoingIs ==
  ASSUME NEW s, NEW p, NEW F, Going(s, p, F)
  PROVE  s.pos = p /\ s.pos # Left /\ s.found = F
BY DEF Going, Left

(* A turn of the first loop: the question is passed if it is there.        *)
LEMMA QuestionTurn ==
  ASSUME NEW data, NEW L, NEW m, IsPacket(data, L, m), NEW i, i \in 1 .. Len(m.questions),
         NEW s, NEW F, Going(s, Len(Asked(m)[i - 1]), F)
  PROVE  IF Len(Asked(m)[i]) <= L THEN Going(ParseQuestion(data, s), Len(Asked(m)[i]), F)
                                  ELSE Stopped(ParseQuestion(data, s), F)
<1>1. PICK name, n, b, e, q :
        /\ name = m.questions[i] /\ n = Len(name) /\ b = Len(Asked(m)[i - 1])
        /\ e = Len(Asked(m)[i]) /\ q = EncodeQuestion(name)
  OBVIOUS
<1>2. name \in Seq(Bytes) /\ IsName(name)
  BY <1>1, QuestionsAre DEF IsPacket
<1>3. Len(q) = n + 4 /\ \A k \in 1 .. n : q[k] = name[k]
  BY <1>1, <1>2, QuestionIs DEF Appends
<1>4. AreBytes(name, n) /\ n \in Nat
  BY <1>1, <1>2, BytesAre DEF AreBytes
<1>5. Contains(Encode(m), q, b) /\ e = b + Len(q)
  BY <1>1, QuestionAt DEF IsPacket
<1>6. b \in Nat /\ e = b + n + 4 /\ L \in Nat /\ n \in Nat
  <2>1. b \in Nat
    BY <1>5 DEF Contains
  <2>2. L \in Nat
    BY DEF IsPacket, AreBytes
  <2> QED BY <1>3, <1>4, <1>5, <2>1, <2>2
<1>7. \A k \in 1 .. n : b + k <= L => data[b + k] = name[k]
  <2>1. \A k \in 1 .. Len(q) : b + k <= L => data[b + k] = q[k]
    BY <1>5, InPacket
  <2>2. \A k \in 1 .. n : k \in 1 .. Len(q)
    BY <1>3, <1>4
  <2> QED BY <1>3, <2>1, <2>2
<1>8. PICK p : p = SkipName(data, b)
  OBVIOUS
<1>9. p \in Nat /\ (b + n <= L => p = b + n) /\ (b + n > L => p > L)
  <2>1. AreBytes(data, L)
    BY DEF IsPacket
  <2> QED BY <1>2, <1>4, <1>6, <1>7, <1>8, <2>1, NameSkipped
<1>10. s.pos = b /\ s.pos # Left /\ s.found = F
  BY <1>1, GoingIs
<1>11. Len(data) = L
  BY DEF IsPacket, AreBytes
<1>12. ParseQuestion(data, s) =
         [pos |-> IF p + 4 > L THEN Left ELSE p + 4, found |-> F]
  BY <1>8, <1>10, <1>11, Zenon DEF ParseQuestion
<1>13. CASE e <= L
  <2>1. p + 4 = e /\ ~(p + 4 > L)
    BY <1>6, <1>9, <1>13
  <2>2. Going(ParseQuestion(data, s), e, F)
    BY <1>6, <1>4, <1>12, <2>1 DEF Going
  <2> QED BY <1>1, <1>13, <2>2
<1>14. CASE ~(e <= L)
  <2>1. p + 4 > L
    BY <1>6, <1>9, <1>14
  <2>2. Stopped(ParseQuestion(data, s), F)
    BY <1>12, <2>1 DEF Stopped
  <2> QED BY <1>1, <1>14, <2>2
<1> QED BY <1>13, <1>14

LEMMA PartIs ==
  ASSUME NEW data, data \in Seq(Bytes), NEW part, part \in Seq(Bytes),
         NEW b \in Nat, NEW d, d = Len(part), b + d <= Len(data),
         \A k \in 1 .. d : data[b + k] = part[k]
  PROVE  SubSeq(data, b + 1, b + d) = part
<1>1. d \in Nat /\ Len(data) \in Nat /\ part = [k \in 1 .. d |-> part[k]]
  OBVIOUS
<1>2. SubSeq(data, b + 1, b + d) = [k \in 1 .. d |-> data[b + k]]
  BY <1>1
<1> QED BY <1>1, <1>2

(* A turn of the second loop: an address is taken if it is there.          *)
LEMMA RecordTurn ==
  ASSUME NEW data, NEW L, NEW m, IsPacket(data, L, m), NEW i, i \in 1 .. Len(m.records),
         NEW s, NEW F, Going(s, Len(Answered(m)[i - 1]), F)
  PROVE  LET r == m.records[i] IN
         IF Len(Answered(m)[i]) <= L
         THEN Going(ParseRecord(data, s), Len(Answered(m)[i]),
                    IF IsAddress(r) THEN F \cup {r.data} ELSE F)
         ELSE Stopped(ParseRecord(data, s), F)
<1>1. PICK r, n, d, b, e, R :
        /\ r = m.records[i] /\ n = Len(r.name) /\ d = Len(r.data) /\ R = EncodeRecord(r)
        /\ b = Len(Answered(m)[i - 1]) /\ e = Len(Answered(m)[i])
  OBVIOUS
<1>2. IsRecord(r)
  BY <1>1, RecordsAre DEF IsPacket
<1>3. /\ n \in Nat /\ d \in Nat /\ Len(R) = n + 10 + d
      /\ \A k \in 1 .. n : R[k] = r.name[k]
      /\ R[n + 1] * 256 + R[n + 2] = r.type
      /\ R[n + 9] * 256 + R[n + 10] = d
      /\ \A k \in 1 .. d : R[n + 10 + k] = r.data[k]
  BY <1>1, <1>2, RecordIs DEF LiesIn
<1>4. AreBytes(r.name, n) /\ IsName(r.name) /\ r.data \in Seq(Bytes)
  BY <1>1, <1>2, BytesAre DEF IsRecord
<1>5. Contains(Encode(m), R, b) /\ e = b + Len(R)
  BY <1>1, RecordAt DEF IsPacket
<1>6. b \in Nat /\ e = b + n + 10 + d /\ L \in Nat /\ Len(data) = L
  <2>1. b \in Nat
    BY <1>5 DEF Contains
  <2>2. L \in Nat /\ Len(data) = L
    BY DEF IsPacket, AreBytes
  <2> QED BY <1>3, <1>5, <2>1, <2>2
<1>7. \A k \in 1 .. n + 10 + d : b + k <= L => data[b + k] = R[k]
  <2>1. \A k \in 1 .. Len(R) : b + k <= L => data[b + k] = R[k]
    BY <1>5, InPacket
  <2> QED BY <1>3, <2>1, Zenon
<1>8. \A k \in 1 .. n : b + k <= L => data[b + k] = r.name[k]
  <2>1. \A k \in 1 .. n : k \in 1 .. n + 10 + d
    BY <1>3
  <2> QED BY <1>3, <1>7, <2>1
<1>9. PICK p : p = SkipName(data, b)
  OBVIOUS
<1>10. p \in Nat /\ (b + n <= L => p = b + n) /\ (b + n > L => p > L)
  <2>1. AreBytes(data, L)
    BY DEF IsPacket
  <2>2. PICK name : name = r.name
    OBVIOUS
  <2>3. AreBytes(name, n) /\ IsName(name) /\ \A k \in 1 .. n : b + k <= L => data[b + k] = name[k]
    BY <1>4, <1>8, <2>2
  <2>4. b \in Nat
    BY <1>6
  <2> QED BY <1>9, <2>1, <2>3, <2>4, NameSkipped
<1>11. s.pos = b /\ s.pos # Left /\ s.found = F
  BY <1>1, GoingIs
<1>12. PICK type, len, rdata :
         /\ type = U16At(data, p) /\ len = U16At(data, p + 8)
         /\ rdata = SubSeq(data, p + 11, p + 10 + len)
  OBVIOUS
<1>13. PICK G : G = IF (type = 1 /\ len = 4) \/ (type = 28 /\ len = 16) THEN F \cup {rdata} ELSE F
  OBVIOUS
<1>14. ParseRecord(data, s) =
         IF b + 10 > L \/ p + 10 > L \/ p + 10 + len > L THEN [pos |-> Left, found |-> F]
         ELSE [pos |-> p + 10 + len, found |-> G]
  BY <1>6, <1>9, <1>11, <1>12, <1>13, Zenon DEF ParseRecord
<1>15. CASE b + n + 10 > L
  <2>1. p + 10 > L /\ ~(e <= L)
    BY <1>3, <1>6, <1>10, <1>15
  <2>2. Stopped(ParseRecord(data, s), F)
    BY <1>14, <2>1, Zenon DEF Stopped
  <2> QED BY <1>1, <2>1, <2>2
<1>16. CASE ~(b + n + 10 > L)
  <2>1. p = b + n /\ ~(p + 10 > L) /\ ~(b + 10 > L)
    BY <1>3, <1>6, <1>10, <1>16
  <2>2. \A k \in 1 .. 10 : data[b + n + k] = R[n + k]
    <3>1. \A k \in 1 .. 10 : n + k \in 1 .. n + 10 + d /\ b + (n + k) <= L /\ b + (n + k) = b + n + k
      BY <1>3, <1>6, <1>16
    <3> QED BY <1>7, <3>1
  <2>3. type = r.type /\ len = d
    <3>1. /\ p + 1 = b + n + 1 /\ p + 1 + 1 = b + n + 2
          /\ p + 8 + 1 = b + n + 9 /\ p + 8 + 1 + 1 = b + n + 10
      BY <1>3, <1>6, <2>1
    <3>2. /\ data[b + n + 1] = R[n + 1] /\ data[b + n + 2] = R[n + 2]
          /\ data[b + n + 9] = R[n + 9] /\ data[b + n + 10] = R[n + 10]
      BY <2>2
    <3> QED BY <1>3, <1>12, <3>1, <3>2 DEF U16At, ByteAt
  <2>4. p + 10 + len = e
    BY <1>3, <1>6, <2>1, <2>3
  <2>5. CASE e <= L
    <3>1. \A k \in 1 .. d : data[b + n + 10 + k] = r.data[k]
      <4>1. \A k \in 1 .. d : n + 10 + k \in 1 .. n + 10 + d /\ b + (n + 10 + k) <= L
                              /\ b + (n + 10 + k) = b + n + 10 + k
        <5>1. n \in Nat /\ d \in Nat /\ b \in Nat /\ L \in Nat /\ b + n + 10 + d <= L
          BY <1>3, <1>6, <2>5
        <5> QED BY <5>1
      <4> QED BY <1>3, <1>7, <4>1
    <3>2. rdata = r.data
      <4>1. PICK c : c = b + n + 10
        OBVIOUS
      <4>2. c \in Nat /\ c + d <= Len(data) /\ p + 11 = c + 1 /\ p + 10 + len = c + d
        BY <1>3, <1>6, <2>1, <2>3, <2>5, <4>1
      <4>3. \A k \in 1 .. d : data[c + k] = r.data[k]
        BY <3>1, <4>1
      <4>4. data \in Seq(Bytes)
        BY DEF IsPacket
      <4>5. SubSeq(data, c + 1, c + d) = r.data
        BY <1>1, <1>4, <4>2, <4>3, <4>4, PartIs
      <4> QED BY <1>12, <4>2, <4>5
    <3>3. G = IF IsAddress(r) THEN F \cup {r.data} ELSE F
      BY <1>1, <1>13, <2>3, <3>2 DEF IsAddress
    <3>4. ParseRecord(data, s) = [pos |-> e, found |-> G]
      <4>1. ~(p + 10 + len > L)
        BY <1>3, <1>6, <2>4, <2>5
      <4> QED BY <1>14, <2>1, <2>4, <4>1, Zenon
    <3>5. Going(ParseRecord(data, s), e, G)
      BY <1>3, <1>6, <3>4 DEF Going
    <3> QED BY <1>1, <2>5, <3>3, <3>5
  <2>6. CASE ~(e <= L)
    <3>1. p + 10 + len > L
      BY <1>3, <1>6, <2>4, <2>6
    <3>2. Stopped(ParseRecord(data, s), F)
      BY <1>14, <3>1, Zenon DEF Stopped
    <3> QED BY <1>1, <2>6, <3>2
  <2> QED BY <2>5, <2>6
<1> QED BY <1>15, <1>16

LEMMA NoRecordLeft ==
  ASSUME NEW data, NEW L, NEW m, IsPacket(data, L, m), NEW s, NEW F, Going(s, L, F)
  PROVE  Stopped(ParseRecord(data, s), F)
<1>1. s.pos = L /\ s.found = F /\ Len(data) = L /\ L \in Nat
  BY GoingIs DEF IsPacket, AreBytes
<1>2. s.pos + 10 > Len(data)
  BY <1>1
<1> QED BY <1>1, <1>2, Zenon DEF ParseRecord, Stopped

(* The states of the loops.                                                *)
Addresses == {a \in Seq(Bytes) : Len(a) \in {4, 16}}
IsPartOf(a, data) ==
  \E k \in Nat : k + Len(a) <= Len(data) /\ \A i \in 1 .. Len(a) : a[i] = data[k + i]
TakenFrom(data) == {a \in Addresses : IsPartOf(a, data)}
Turns(data) == [pos : Nat \cup {Left}, found : SUBSET TakenFrom(data)]

LEMMA PartTaken ==
  ASSUME NEW data, data \in Seq(Bytes), NEW k \in Nat, NEW n \in Nat, k + n <= Len(data)
  PROVE  IsPartOf(SubSeq(data, k + 1, k + n), data)
<1>1. PICK a : a = SubSeq(data, k + 1, k + n)
  OBVIOUS
<1>2. Len(a) = n
  BY <1>1
<1>3. \A i \in 1 .. n : a[i] = data[k + i]
  BY <1>1
<1> QED BY <1>1, <1>2, <1>3 DEF IsPartOf

LEMMA QuestionKeeps ==
  ASSUME NEW data, NEW L, AreBytes(data, L), NEW s \in Turns(data)
  PROVE  ParseQuestion(data, s) \in Turns(data)
<1>1. PICK pos, F : pos = s.pos /\ F = s.found
  OBVIOUS
<1>2. pos \in Nat \cup {Left} /\ F \in SUBSET TakenFrom(data)
  BY <1>1 DEF Turns
<1>3. PICK q : q = SkipName(data, pos) + 4
  OBVIOUS
<1>4. pos # Left => q \in Nat
  BY <1>2, <1>3, SkipIs
<1>5. PICK p : p = IF pos = Left \/ q > Len(data) THEN Left ELSE q
  OBVIOUS
<1>6. p \in Nat \cup {Left}
  BY <1>4, <1>5
<1>7. ParseQuestion(data, s) = [pos |-> p, found |-> F]
  BY <1>1, <1>3, <1>5, Zenon DEF ParseQuestion
<1> QED BY <1>2, <1>6, <1>7 DEF Turns

LEMMA RecordKeeps ==
  ASSUME NEW data, data \in Seq(Bytes), NEW s \in Turns(data)
  PROVE  ParseRecord(data, s) \in Turns(data)
<1>1. PICK b, F, L : b = s.pos /\ F = s.found /\ L = Len(data)
  OBVIOUS
<1>2. b \in Nat \cup {Left} /\ F \in SUBSET TakenFrom(data)
  BY <1>1 DEF Turns
<1>3. PICK p, type, len, rdata :
         /\ p = SkipName(data, b) /\ type = U16At(data, p) /\ len = U16At(data, p + 8)
         /\ rdata = SubSeq(data, p + 11, p + 10 + len)
  OBVIOUS
<1>4. PICK G : G = IF (type = 1 /\ len = 4) \/ (type = 28 /\ len = 16) THEN F \cup {rdata} ELSE F
  OBVIOUS
<1>5. ParseRecord(data, s) =
        IF b = Left \/ b + 10 > L \/ p + 10 > L \/ p + 10 + len > L THEN [pos |-> Left, found |-> F]
        ELSE [pos |-> p + 10 + len, found |-> G]
  BY <1>1, <1>3, <1>4, Zenon DEF ParseRecord
<1>6. AreBytes(data, L)
  BY <1>1, BytesAre
<1>7. CASE b = Left \/ b + 10 > L \/ p + 10 > L \/ p + 10 + len > L
  <2>1. ParseRecord(data, s) = [pos |-> Left, found |-> F]
    BY <1>5, <1>7, Zenon
  <2> QED BY <1>2, <2>1 DEF Turns
<1>8. CASE ~(b = Left \/ b + 10 > L \/ p + 10 > L \/ p + 10 + len > L)
  <2>0. b \in Nat /\ L \in Nat
    BY <1>2, <1>6, <1>8 DEF AreBytes
  <2>1. b \in Nat /\ p \in Nat /\ L \in Nat
    BY <1>3, <1>6, <2>0, SkipIs
  <2>2. p + 8 + 1 \in 1 .. L /\ p + 8 + 1 + 1 \in 1 .. L
    BY <1>8, <2>1
  <2>3. data[p + 8 + 1] \in Nat /\ data[p + 8 + 1 + 1] \in Nat
    BY <1>6, <2>2 DEF AreBytes
  <2>4. len \in Nat
    <3>1. PICK x, y : x = data[p + 8 + 1] /\ y = data[p + 8 + 1 + 1]
      OBVIOUS
    <3>2. len = x * 256 + y
      BY <1>3, <3>1 DEF U16At, ByteAt
    <3> QED BY <2>3, <3>1, <3>2
  <2>5. PICK x, y : x = p + 11 /\ y = p + 10 + len
    OBVIOUS
  <2>6. x \in 1 .. L + 1 /\ y \in 0 .. L
    BY <1>8, <2>1, <2>4, <2>5
  <2>7. rdata \in Seq(Bytes) /\ Len(rdata) = len
    <3>1. rdata = SubSeq(data, x, y)
      BY <1>3, <2>1, <2>5
    <3>2. rdata \in Seq(Bytes) /\ Len(rdata) = IF x <= y THEN y - x + 1 ELSE 0
      BY <1>1, <2>6, <3>1
    <3>3. y - x + 1 = len /\ (len = 0 => ~(x <= y)) /\ (len # 0 => x <= y)
      BY <2>1, <2>4, <2>5
    <3> QED BY <3>2, <3>3
  <2>8. G \in SUBSET TakenFrom(data)
    <3>1. len \in {4, 16} => rdata \in Addresses
      BY <2>7 DEF Addresses
    <3>2. IsPartOf(rdata, data)
      <4>1. PICK k : k = p + 10
        OBVIOUS
      <4>2. k \in Nat /\ p + 11 = k + 1 /\ p + 10 + len = k + len /\ k + len <= Len(data)
        BY <1>1, <1>8, <2>1, <2>4, <4>1
      <4>3. IsPartOf(SubSeq(data, k + 1, k + len), data)
        BY <2>4, <4>2, PartTaken
      <4> QED BY <1>3, <4>2, <4>3
    <3>3. CASE len \in {4, 16}
      <4>1. rdata \in TakenFrom(data)
        BY <3>1, <3>2, <3>3 DEF TakenFrom
      <4> QED BY <1>2, <1>4, <4>1
    <3>4. CASE len \notin {4, 16}
      BY <1>2, <1>4, <3>4
    <3> QED BY <3>3, <3>4
  <2>9. ParseRecord(data, s) = [pos |-> p + 10 + len, found |-> G]
    BY <1>5, <1>8, Zenon
  <2>10. p + 10 + len \in Nat
    BY <2>1, <2>4
  <2> QED BY <2>8, <2>9, <2>10 DEF Turns
<1> QED BY <1>7, <1>8

(* A loop: there is such a function, and its values have their type.       *)
Loops(g, a, turn) == \A i \in Nat : g[i] = IF i = 0 THEN a ELSE turn[g[i - 1]]

LEMMA LoopExists ==
  ASSUME NEW V, NEW a \in V, NEW turn \in [V -> V]
  PROVE  \E g \in [Nat -> V] : Loops(g, a, turn)
<1> DEFINE s == [i \in Nat |-> turn]
<1>1. s \in [Nat -> [V -> V]] /\ \A i \in Nat : s[i] = turn
  OBVIOUS
<1> HIDE DEF s
<1>2. PICK g \in [Nat -> V] : GoesUp(g, a, s)
  BY <1>1, Iterates, Zenon
<1>3. g[0] = a /\ \A i \in Nat : g[i + 1] = turn[g[i]]
  BY <1>1, <1>2 DEF GoesUp
<1>4. \A i \in Nat : i # 0 => i - 1 \in Nat /\ (i - 1) + 1 = i
  OBVIOUS
<1> QED BY <1>3, <1>4 DEF Loops

LEMMA StaysIn ==
  ASSUME NEW V, NEW f, f[0] \in V, \A i \in Nat : f[i] \in V => f[i + 1] \in V
  PROVE  \A i \in Nat : f[i] \in V
<1> DEFINE Bad == {i \in Nat : f[i] \notin V}
<1>1. SUFFICES ASSUME Bad # {} PROVE FALSE
  BY <1>1
<1>2. PICK i \in Bad : \A j \in Bad : i <= j
  BY <1>1, SmallestOf
<1>3. i # 0
  BY <1>2
<1>4. i - 1 \in Nat /\ i - 1 \notin Bad /\ (i - 1) + 1 = i
  BY <1>2, <1>3
<1>5. f[i - 1] \in V
  BY <1>4
<1> QED BY <1>2, <1>4, <1>5

QuestionLoop(data, f) == [i \in Nat |-> IF i = 0 THEN Begin ELSE ParseQuestion(data, f[i - 1])]
RecordLoop(data, f) ==
  [i \in Nat |-> IF i = 0 THEN Questions(data)[U16At(data, 4)] ELSE ParseRecord(data, f[i - 1])]

LEMMA QuestionsIs ==
  ASSUME NEW data, data \in Seq(Bytes)
  PROVE  /\ Questions(data)[0] = Begin
         /\ \A i \in Nat : /\ Questions(data)[i + 1] = ParseQuestion(data, Questions(data)[i])
                           /\ Questions(data)[i] \in Turns(data)
<1>1. PICK V : V = Turns(data)
  OBVIOUS
<1>2. AreBytes(data, Len(data))
  BY BytesAre
<1>3. \A s \in V : ParseQuestion(data, s) \in V
  BY <1>1, <1>2, QuestionKeeps
<1>4. PICK turn : turn = [x \in V |-> ParseQuestion(data, x)]
  OBVIOUS
<1>5. turn \in [V -> V] /\ \A x \in V : turn[x] = ParseQuestion(data, x)
  BY <1>3, <1>4
<1>6. Begin \in V
  BY <1>1 DEF Begin, Turns
<1>7. PICK g \in [Nat -> V] : Loops(g, Begin, turn)
  BY <1>5, <1>6, LoopExists, Zenon
<1>8. \A i \in Nat : i # 0 => i - 1 \in Nat
  OBVIOUS
<1>9. \A i \in Nat : g[i] = IF i = 0 THEN Begin ELSE ParseQuestion(data, g[i - 1])
  BY <1>5, <1>7, <1>8 DEF Loops
<1>10. g = QuestionLoop(data, g)
  BY <1>9 DEF QuestionLoop
<1> DEFINE f == CHOOSE h : h = QuestionLoop(data, h)
<1>11. f = QuestionLoop(data, f)
  BY <1>10, Zenon
<1>12. Questions(data) = f
  BY DEF Questions, QuestionLoop
<1> HIDE DEF f
<1>13. \A i \in Nat : f[i] = IF i = 0 THEN Begin ELSE ParseQuestion(data, f[i - 1])
  BY <1>11 DEF QuestionLoop
<1>14. \A i \in Nat : i + 1 \in Nat /\ i + 1 # 0 /\ (i + 1) - 1 = i
  OBVIOUS
<1>15. f[0] = Begin /\ \A i \in Nat : f[i + 1] = ParseQuestion(data, f[i])
  BY <1>13, <1>14
<1>16. \A i \in Nat : f[i] \in V
  BY <1>3, <1>6, <1>15, StaysIn
<1> QED BY <1>1, <1>12, <1>15, <1>16

LEMMA RecordsIs ==
  ASSUME NEW data, data \in Seq(Bytes), U16At(data, 4) \in Nat
  PROVE  /\ Records(data)[0] = Questions(data)[U16At(data, 4)]
         /\ \A i \in Nat : /\ Records(data)[i + 1] = ParseRecord(data, Records(data)[i])
                           /\ Records(data)[i] \in Turns(data)
<1>1. PICK V, a : V = Turns(data) /\ a = Questions(data)[U16At(data, 4)]
  OBVIOUS
<1>2. \A s \in V : ParseRecord(data, s) \in V
  BY <1>1, RecordKeeps
<1>3. PICK turn : turn = [x \in V |-> ParseRecord(data, x)]
  OBVIOUS
<1>4. turn \in [V -> V] /\ \A x \in V : turn[x] = ParseRecord(data, x)
  BY <1>2, <1>3
<1>5. a \in V
  BY <1>1, QuestionsIs
<1>6. PICK g \in [Nat -> V] : Loops(g, a, turn)
  BY <1>4, <1>5, LoopExists, Zenon
<1>7. \A i \in Nat : i # 0 => i - 1 \in Nat
  OBVIOUS
<1>8. \A i \in Nat : g[i] = IF i = 0 THEN a ELSE ParseRecord(data, g[i - 1])
  BY <1>4, <1>6, <1>7 DEF Loops
<1>9. g = RecordLoop(data, g)
  BY <1>1, <1>8 DEF RecordLoop
<1> DEFINE f == CHOOSE h : h = RecordLoop(data, h)
<1>10. f = RecordLoop(data, f)
  BY <1>9, Zenon
<1>11. Records(data) = f
  BY DEF Records, RecordLoop
<1> HIDE DEF f
<1>12. \A i \in Nat : f[i] = IF i = 0 THEN a ELSE ParseRecord(data, f[i - 1])
  BY <1>1, <1>10 DEF RecordLoop
<1>13. \A i \in Nat : i + 1 \in Nat /\ i + 1 # 0 /\ (i + 1) - 1 = i
  OBVIOUS
<1>14. f[0] = a /\ \A i \in Nat : f[i + 1] = ParseRecord(data, f[i])
  BY <1>12, <1>13
<1>15. \A i \in Nat : f[i] \in V
  BY <1>2, <1>5, <1>14, StaysIn
<1> QED BY <1>1, <1>11, <1>14, <1>15

LEMMA HeaderFirst ==
  ASSUME NEW m, IsMessage(m)
  PROVE  /\ \A i \in 0 .. Len(m.records) : 12 <= Len(Answered(m)[i]) /\ Len(Answered(m)[i]) \in Nat
         /\ \A k \in 1 .. 12 : Encode(m)[k] = Header(m)[k]
<1>1. PICK q, Q, A, n, parts, recs, h :
        /\ q = Len(m.questions) /\ Q = Asked(m) /\ A = Answered(m) /\ n = Len(m.records)
        /\ parts = QuestionParts(m) /\ recs = RecordParts(m) /\ h = Header(m)
  OBVIOUS
<1>2. /\ AreParts(parts, q, Bytes) /\ GrowsBy(Q, h, parts, q, Bytes)
      /\ AreParts(recs, n, Bytes) /\ GrowsBy(A, Q[q], recs, n, Bytes)
  BY <1>1, AskedIs, AnsweredIs
<1>3. q \in Nat /\ n \in Nat /\ Q[0] = h /\ A[0] = Q[q]
  BY <1>2 DEF AreParts, GrowsBy
<1>4. Len(h) = 12
  BY <1>1, HeaderIs
<1>5. ASSUME NEW i \in 0 .. n PROVE IsPrefixOf(h, A[i])
  <2>1. 0 \in Nat /\ 0 <= q /\ q <= q /\ i \in Nat /\ 0 <= i /\ i <= n
    BY <1>3
  <2>2. IsPrefixOf(Q[0], Q[q])
    BY <1>2, <1>3, <2>1, WrittenStays
  <2>3. IsPrefixOf(A[0], A[i])
    BY <1>2, <1>3, <2>1, WrittenStays
  <2> QED BY <1>3, <2>2, <2>3, PrefixOfPrefix
<1>6. n \in 0 .. n
  BY <1>3
<1>7. IsPrefixOf(h, A[n])
  BY <1>5, <1>6
<1> QED BY <1>1, <1>4, <1>5, <1>7 DEF IsPrefixOf, Encode

LEMMA CountsRead ==
  ASSUME NEW data, NEW L, NEW m, IsPacket(data, L, m), L >= 12
  PROVE  /\ U16At(data, 4) = Len(m.questions) /\ U16At(data, 4) \in Nat
         /\ U16At(data, 6) = m.announced /\ U16At(data, 6) \in Nat
<1>1. PICK h, E : h = Header(m) /\ E = Encode(m)
  OBVIOUS
<1>2. L \in Nat /\ \A k \in 1 .. L : data[k] = E[k]
  BY <1>1 DEF IsPacket, AreBytes
<1>3. \A k \in 1 .. 12 : k \in 1 .. L /\ E[k] = h[k]
  BY <1>1, <1>2, HeaderFirst DEF IsPacket
<1>4. data[5] = h[5] /\ data[6] = h[6] /\ data[7] = h[7] /\ data[8] = h[8]
  BY <1>2, <1>3
<1>5. h[5] * 256 + h[6] = Len(m.questions) /\ h[7] * 256 + h[8] = m.announced
  BY <1>1, HeaderIs DEF IsPacket
<1>6. Len(m.questions) \in Nat /\ m.announced \in Nat
  <2>1. Len(m.questions) \in Words /\ m.announced \in Words
    BY DEF IsPacket, IsMessage
  <2>2. \A x \in Words : x \in Nat
    BY DEF Words
  <2> QED BY <2>1, <2>2
<1>7. U16At(data, 4) = data[5] * 256 + data[6] /\ U16At(data, 6) = data[7] * 256 + data[8]
  BY DEF U16At, ByteAt
<1> QED BY <1>4, <1>5, <1>6, <1>7

(* After each turn of the first loop.                                      *)
AfterQuestion(s, m, L, i) ==
  IF Len(Asked(m)[i]) <= L THEN Going(s, Len(Asked(m)[i]), {}) ELSE Stopped(s, {})

LEMMA QuestionsParsed ==
  ASSUME NEW data, NEW L, NEW m, IsPacket(data, L, m), L >= 12
  PROVE  \A i \in 0 .. Len(m.questions) : AfterQuestion(Questions(data)[i], m, L, i)
<1>1. PICK n, Q, t : n = Len(m.questions) /\ Q = Asked(m) /\ t = Questions(data)
  OBVIOUS
<1>2. n \in Nat /\ \E parts : AreParts(parts, n, Bytes) /\ GrowsBy(Q, Header(m), parts, n, Bytes)
  BY <1>1, AskedIs DEF IsPacket, AreParts
<1>3. t[0] = Begin /\ \A i \in Nat : t[i + 1] = ParseQuestion(data, t[i])
  BY <1>1, QuestionsIs DEF IsPacket
<1>4. AfterQuestion(t[0], m, L, 0)
  <2>1. Len(Q[0]) = 12
    BY <1>2, HeaderIs DEF GrowsBy, IsPacket
  <2> QED BY <1>1, <1>3, <2>1 DEF AfterQuestion, Going, Begin
<1>5. ASSUME NEW i \in Nat, i + 1 <= n, AfterQuestion(t[i], m, L, i)
      PROVE  AfterQuestion(t[i + 1], m, L, i + 1)
  <2>1. i + 1 \in 1 .. Len(m.questions) /\ (i + 1) - 1 = i
    BY <1>1, <1>2, <1>5
  <2>2. t[i + 1] = ParseQuestion(data, t[i])
    BY <1>3
  <2>3. CASE Len(Q[i]) <= L
    <3>1. Going(t[i], Len(Q[i]), {})
      BY <1>1, <1>5, <2>3 DEF AfterQuestion
    <3>2. PICK j, s : j = i + 1 /\ s = t[i]
      OBVIOUS
    <3>3. j \in 1 .. Len(m.questions) /\ Going(s, Len(Asked(m)[j - 1]), {})
      BY <1>1, <2>1, <3>1, <3>2
    <3>4. AfterQuestion(ParseQuestion(data, s), m, L, j)
      BY <3>3, QuestionTurn, Zenon DEF AfterQuestion
    <3> QED BY <2>2, <3>2, <3>4
  <2>4. CASE ~(Len(Q[i]) <= L)
    <3>1. Stopped(t[i], {})
      BY <1>1, <1>5, <2>4 DEF AfterQuestion
    <3>2. Stopped(t[i + 1], {})
      BY <2>2, <3>1, StaysStopped
    <3>3. i + 1 \in Nat /\ i <= i + 1
      OBVIOUS
    <3>4. IsPrefixOf(Q[i], Q[i + 1])
      BY <1>2, <1>5, <3>3, WrittenStays
    <3>5. ~(Len(Q[i + 1]) <= L)
      <4>1. L \in Nat
        BY DEF IsPacket, AreBytes
      <4> QED BY <2>4, <3>4, <4>1 DEF IsPrefixOf
    <3> QED BY <1>1, <3>2, <3>5 DEF AfterQuestion
  <2> QED BY <2>3, <2>4
<1> DEFINE Bad == {i \in Nat : i <= n /\ ~AfterQuestion(t[i], m, L, i)}
<1>6. Bad = {}
  <2> SUFFICES ASSUME Bad # {} PROVE FALSE
    OBVIOUS
  <2>1. PICK i \in Bad : \A j \in Bad : i <= j
    BY SmallestOf
  <2>2. i # 0
    BY <1>4, <2>1
  <2>3. i - 1 \in Nat /\ i - 1 \notin Bad /\ (i - 1) + 1 = i /\ i <= n /\ i - 1 <= n
    BY <1>2, <2>1, <2>2
  <2>4. AfterQuestion(t[i - 1], m, L, i - 1)
    BY <2>3
  <2>5. PICK j : j = i - 1
    OBVIOUS
  <2>6. j \in Nat /\ j + 1 <= n /\ AfterQuestion(t[j], m, L, j) /\ j + 1 = i
    BY <2>3, <2>4, <2>5
  <2>7. AfterQuestion(t[i], m, L, i)
    BY <1>5, <2>6
  <2> QED BY <2>1, <2>7
<1> QED BY <1>1, <1>2, <1>6

(* What the first i records that are there in full say, and what is known  *)
(* after a turn of the second loop.                                        *)
FoundUpTo(m, L, i) ==
  {m.records[k].data :
     k \in {j \in 1 .. Len(m.records) :
             j <= i /\ Len(Answered(m)[j]) <= L /\ IsAddress(m.records[j])}}
AfterRecord(s, m, L, i) ==
  IF i <= Len(m.records) /\ Len(Answered(m)[i]) <= L
  THEN Going(s, Len(Answered(m)[i]), FoundUpTo(m, L, i))
  ELSE Stopped(s, FoundUpTo(m, L, i))

LEMMA FoundMore ==
  ASSUME NEW m, NEW L, NEW i \in Nat, Len(m.records) \in Nat
  PROVE  LET r == m.records[i + 1] IN
         FoundUpTo(m, L, i + 1) =
           IF i + 1 <= Len(m.records) /\ Len(Answered(m)[i + 1]) <= L /\ IsAddress(r)
           THEN FoundUpTo(m, L, i) \cup {r.data} ELSE FoundUpTo(m, L, i)
<1>1. PICK n, A, k : n = Len(m.records) /\ A = Answered(m) /\ k = i + 1
  OBVIOUS
<1>2. PICK S, T : /\ S = {j \in 1 .. n : j <= i /\ Len(A[j]) <= L /\ IsAddress(m.records[j])}
                  /\ T = {j \in 1 .. n : j <= k /\ Len(A[j]) <= L /\ IsAddress(m.records[j])}
  OBVIOUS
<1>3. FoundUpTo(m, L, i) = {m.records[j].data : j \in S} /\ FoundUpTo(m, L, k) = {m.records[j].data : j \in T}
  BY <1>1, <1>2 DEF FoundUpTo
<1>4. \A j \in 1 .. n : j <= k <=> j <= i \/ j = k
  BY <1>1
<1>5. CASE k <= n /\ Len(A[k]) <= L /\ IsAddress(m.records[k])
  <2>1. k \in 1 .. n
    BY <1>1, <1>5
  <2>2. T = S \cup {k}
    BY <1>1, <1>2, <1>4, <1>5, <2>1
  <2> QED BY <1>1, <1>3, <1>5, <2>2
<1>6. CASE ~(k <= n /\ Len(A[k]) <= L /\ IsAddress(m.records[k]))
  <2>1. T = S
    BY <1>1, <1>2, <1>4, <1>6
  <2> QED BY <1>1, <1>3, <1>6, <2>1
<1> QED BY <1>5, <1>6

LEMMA RecordsParsed ==
  ASSUME NEW data, NEW L, NEW m, IsPacket(data, L, m), L >= 12
  PROVE  \A i \in Nat : AfterRecord(Records(data)[i], m, L, i)
<1>1. PICK n, A, t : n = Len(m.records) /\ A = Answered(m) /\ t = Records(data)
  OBVIOUS
<1>2. n \in Nat /\ \E start, parts : AreParts(parts, n, Bytes) /\ GrowsBy(A, start, parts, n, Bytes)
  BY <1>1, AnsweredIs DEF IsPacket, AreParts
<1>3. /\ t[0] = Questions(data)[Len(m.questions)]
      /\ \A i \in Nat : t[i + 1] = ParseRecord(data, t[i])
  <2>1. data \in Seq(Bytes)
    BY DEF IsPacket
  <2>2. U16At(data, 4) = Len(m.questions) /\ U16At(data, 4) \in Nat
    BY CountsRead
  <2> QED BY <1>1, <2>1, <2>2, RecordsIs
<1>4. L \in Nat /\ L <= Len(A[n])
  BY <1>1 DEF IsPacket, AreBytes, Encode
<1>5. AfterRecord(t[0], m, L, 0)
  <2>1. Len(m.questions) \in Nat
    BY QuestionsAre DEF IsPacket
  <2>2. AfterQuestion(t[0], m, L, Len(m.questions))
    <3>1. PICK q : q = Len(m.questions)
      OBVIOUS
    <3>2. q \in 0 .. q
      BY <2>1, <3>1
    <3>3. AfterQuestion(Questions(data)[q], m, L, q)
      BY <3>1, <3>2, QuestionsParsed
    <3> QED BY <1>3, <3>1, <3>3
  <2>3. A[0] = Asked(m)[Len(m.questions)]
    BY <1>1, AnsweredIs DEF GrowsBy, IsPacket
  <2>4. FoundUpTo(m, L, 0) = {}
    BY DEF FoundUpTo
  <2>5. 0 <= Len(m.records)
    BY <1>1, <1>2
  <2>6. CASE Len(A[0]) <= L
    BY <1>1, <2>2, <2>3, <2>4, <2>5, <2>6 DEF AfterQuestion, AfterRecord
  <2>7. CASE ~(Len(A[0]) <= L)
    BY <1>1, <2>2, <2>3, <2>4, <2>7 DEF AfterQuestion, AfterRecord
  <2> QED BY <2>6, <2>7
<1>6. ASSUME NEW i \in Nat, AfterRecord(t[i], m, L, i)
      PROVE  AfterRecord(t[i + 1], m, L, i + 1)
  <2>1. PICK k, s, F, G : k = i + 1 /\ s = t[i] /\ F = FoundUpTo(m, L, i) /\ G = FoundUpTo(m, L, k)
    OBVIOUS
  <2>2. t[k] = ParseRecord(data, s) /\ k \in Nat /\ k - 1 = i
    BY <1>3, <2>1
  <2>3. G = IF k <= n /\ Len(A[k]) <= L /\ IsAddress(m.records[k])
            THEN F \cup {m.records[k].data} ELSE F
    BY <1>1, <1>2, <2>1, FoundMore
  <2>4. CASE i <= n /\ Len(A[i]) <= L /\ k <= n
    <3>1. Going(s, Len(A[k - 1]), F) /\ k \in 1 .. n
      BY <1>1, <1>2, <1>6, <2>1, <2>2, <2>4 DEF AfterRecord
    <3>2. IF Len(A[k]) <= L
          THEN Going(t[k], Len(A[k]), IF IsAddress(m.records[k]) THEN F \cup {m.records[k].data} ELSE F)
          ELSE Stopped(t[k], F)
      <4>1. k \in 1 .. Len(m.records) /\ Going(s, Len(Answered(m)[k - 1]), F)
        BY <1>1, <3>1
      <4>2. IF Len(Answered(m)[k]) <= L
            THEN Going(ParseRecord(data, s), Len(Answered(m)[k]),
                       IF IsAddress(m.records[k]) THEN F \cup {m.records[k].data} ELSE F)
            ELSE Stopped(ParseRecord(data, s), F)
        BY <4>1, RecordTurn, Zenon
      <4> QED BY <1>1, <2>2, <4>2
    <3> QED BY <1>1, <2>1, <2>3, <2>4, <3>2 DEF AfterRecord
  <2>5. CASE i <= n /\ Len(A[i]) <= L /\ ~(k <= n)
    <3>1. i = n /\ Len(A[i]) \in Nat
      BY <1>1, <1>2, <2>1, <2>5, HeaderFirst DEF IsPacket
    <3>2. Len(A[i]) = L
      BY <1>4, <2>5, <3>1
    <3>3. Going(s, L, F)
      BY <1>1, <1>6, <2>1, <2>5, <3>2 DEF AfterRecord
    <3>4. Stopped(t[k], F)
      BY <2>2, <3>3, NoRecordLeft
    <3> QED BY <1>1, <2>1, <2>3, <2>5, <3>4 DEF AfterRecord
  <2>6. CASE ~(i <= n /\ Len(A[i]) <= L)
    <3>1. ~(k <= n /\ Len(A[k]) <= L)
      <4>1. SUFFICES ASSUME k <= n PROVE ~(Len(A[k]) <= L)
        OBVIOUS
      <4>2. i <= n /\ i <= k
        BY <1>2, <2>1, <4>1
      <4>3. IsPrefixOf(A[i], A[k])
        BY <1>2, <2>2, <4>1, <4>2, WrittenStays
      <4> QED BY <1>4, <2>6, <4>2, <4>3 DEF IsPrefixOf
    <3>2. Stopped(s, F)
      BY <1>1, <1>6, <2>1, <2>6 DEF AfterRecord
    <3>3. Stopped(t[k], F)
      BY <2>2, <3>2, StaysStopped
    <3> QED BY <1>1, <2>1, <2>3, <3>1, <3>3 DEF AfterRecord
  <2> QED BY <2>4, <2>5, <2>6
<1> DEFINE Bad == {i \in Nat : ~AfterRecord(t[i], m, L, i)}
<1>7. Bad = {}
  <2> SUFFICES ASSUME Bad # {} PROVE FALSE
    OBVIOUS
  <2>1. PICK i \in Bad : \A j \in Bad : i <= j
    BY SmallestOf
  <2>2. i # 0
    BY <1>5, <2>1
  <2>3. i - 1 \in Nat /\ i - 1 \notin Bad /\ (i - 1) + 1 = i
    BY <2>1, <2>2
  <2>4. PICK j : j = i - 1
    OBVIOUS
  <2>5. j \in Nat /\ AfterRecord(t[j], m, L, j) /\ j + 1 = i
    BY <2>3, <2>4
  <2>6. AfterRecord(t[i], m, L, i)
    BY <1>6, <2>5
  <2> QED BY <2>1, <2>6
<1> QED BY <1>1, <1>7

(* Any bytes at all, a message or not: what the parser takes for addresses *)
(* are parts of what was received, and of the length of an address         *)
(* (parse_dns_response, with skip_name).                                   *)
THEOREM AnyBytesParsed ==
  ASSUME NEW data, data \in Seq(Bytes)
  PROVE  ParseDnsResponse(data) \subseteq TakenFrom(data)
<1>1. CASE Len(data) < 12
  BY <1>1 DEF ParseDnsResponse
<1>2. CASE ~(Len(data) < 12)
  <2>1. U16At(data, 4) \in Nat /\ U16At(data, 6) \in Nat
    <3>1. \A k \in {5, 6, 7, 8} : data[k] \in Nat
      <4>1. AreBytes(data, Len(data))
        BY BytesAre
      <4>2. \A k \in {5, 6, 7, 8} : k \in 1 .. Len(data)
        BY <1>2, <4>1 DEF AreBytes
      <4> QED BY <4>1, <4>2 DEF AreBytes
    <3>2. PICK a, b, c, d : a = data[5] /\ b = data[6] /\ c = data[7] /\ d = data[8]
      OBVIOUS
    <3>3. U16At(data, 4) = a * 256 + b /\ U16At(data, 6) = c * 256 + d
      BY <3>2 DEF U16At, ByteAt
    <3>4. a \in Nat /\ b \in Nat /\ c \in Nat /\ d \in Nat
      BY <3>1, <3>2
    <3> QED BY <3>3, <3>4
  <2>2. Records(data)[U16At(data, 6)] \in Turns(data)
    BY <2>1, RecordsIs
  <2> QED BY <1>2, <2>2 DEF ParseDnsResponse, Turns
<1> QED BY <1>1, <1>2

LEMMA ParsedIs ==
  ASSUME NEW m, IsMessage(m), NEW L \in 0 .. Len(Encode(m))
  PROVE  ParseDnsResponse(SubSeq(Encode(m), 1, L)) = Says(m, L)
<1>1. PICK data : data = SubSeq(Encode(m), 1, L)
  OBVIOUS
<1>2. IsPacket(data, L, m)
  BY <1>1, CutIsPacket
<1>3. Len(data) = L /\ L \in Nat
  BY <1>2 DEF IsPacket, AreBytes
<1>4. Len(m.records) \in Nat /\ DOMAIN m.records = 1 .. Len(m.records)
  BY RecordsAre
<1>5. Says(m, L) = FoundUpTo(m, L, m.announced)
  BY <1>4 DEF Says, FoundUpTo
<1>6. CASE L < 12
  <2>1. \A j \in 1 .. Len(m.records) : ~(Len(Answered(m)[j]) <= L)
    <3>1. \A j \in 1 .. Len(m.records) : j \in 0 .. Len(m.records)
      BY <1>4
    <3>2. \A j \in 1 .. Len(m.records) : 12 <= Len(Answered(m)[j]) /\ Len(Answered(m)[j]) \in Nat
      BY <3>1, HeaderFirst
    <3> QED BY <1>3, <1>6, <3>2
  <2>2. FoundUpTo(m, L, m.announced) = {}
    BY <2>1 DEF FoundUpTo
  <2>3. ParseDnsResponse(data) = {}
    BY <1>3, <1>6 DEF ParseDnsResponse
  <2> QED BY <1>1, <1>5, <2>2, <2>3
<1>7. CASE ~(L < 12)
  <2>1. L >= 12
    BY <1>3, <1>7
  <2>2. U16At(data, 6) = m.announced /\ m.announced \in Nat
    BY <1>2, <2>1, CountsRead
  <2>3. AfterRecord(Records(data)[m.announced], m, L, m.announced)
    BY <1>2, <2>1, <2>2, RecordsParsed
  <2>4. Records(data)[m.announced].found = FoundUpTo(m, L, m.announced)
    BY <2>3 DEF AfterRecord, Going, Stopped
  <2>5. ParseDnsResponse(data) = FoundUpTo(m, L, m.announced)
    BY <1>3, <1>7, <2>2, <2>4 DEF ParseDnsResponse
  <2> QED BY <1>1, <1>5, <2>5
<1> QED BY <1>6, <1>7
-----------------------------------------------------------------------------
(* The queries for the host of the pool, their answers and the addresses.  *)
ResolverInv ==
  /\ queries \in 0 .. 4
  /\ queries > 0 => phase = "query"
  /\ answer # Absent =>
       /\ queries > 0
       /\ answer.message \in Messages
       /\ answer.size \in 0 .. Len(Encoded[answer.message])
  /\ addrs \subseteq Addresses
  /\ phase \in {"servers", "query", "ready"} => pool.url # Absent

LEMMA ResolverInit == Init => ResolverInv
  BY DEF Init, ResolverInv

(* The parser on the answer just received.                                 *)
LEMMA ReceivedIsParsed ==
  ASSUME ResolverInv, answer # Absent
  PROVE  ParseDnsResponse(Received) = Says(answer.message, answer.size)
<1>1. PICK m, L : m = answer.message /\ L = answer.size
  OBVIOUS
<1>2. m \in Messages /\ Encoded[m] = Encode(m) /\ L \in 0 .. Len(Encode(m))
  BY <1>1 DEF ResolverInv, Encoded
<1>3. IsMessage(m)
  BY <1>2, MessagesAssumption
<1>4. Received = SubSeq(Encode(m), 1, L)
  BY <1>1, <1>2 DEF Received
<1>5. ParseDnsResponse(SubSeq(Encode(m), 1, L)) = Says(m, L)
  BY <1>2, <1>3, ParsedIs
<1> QED BY <1>1, <1>4, <1>5

LEMMA AddressesSaid ==
  ASSUME NEW m, IsMessage(m), NEW n
  PROVE  Says(m, n) \subseteq Addresses
<1>1. \A i \in DOMAIN m.records : m.records[i].data \in Seq(Bytes)
  BY RecordsAre DEF IsRecord
<1> QED BY <1>1 DEF Says, Addresses, IsAddress

LEMMA PlanResolver ==
  ASSUME PlanInv, ResolverInv, PlanThreads
  PROVE  ResolverInv'
<1>1. /\ phase = "plan" /\ phase' \in {"servers", "ready"} /\ pool'.url = config.url
      /\ UNCHANGED <<queries, answer, addrs>>
  BY DEF PlanThreads
<1>2. config.url = PoolUrl(input.args, input.file) /\ config.url # Absent
  BY <1>1 DEF PlanInv, Loaded, Load
<1> QED BY <1>1, <1>2 DEF ResolverInv

LEMMA ParseResolver ==
  ASSUME ResolverInv, ParseAnswer
  PROVE  ResolverInv'
<1>1. /\ answer # Absent /\ answer' = Absent /\ queries' = queries - 1
      /\ addrs' = addrs \cup ParseDnsResponse(Received)
      /\ UNCHANGED <<phase, pool>>
  BY DEF ParseAnswer
<1>2. queries \in 0 .. 4 /\ queries > 0 /\ phase = "query" /\ answer.message \in Messages
  BY <1>1 DEF ResolverInv
<1>3. ParseDnsResponse(Received) \subseteq Addresses
  BY <1>1, <1>2, ReceivedIsParsed, AddressesSaid, MessagesAssumption
<1> QED BY <1>1, <1>2, <1>3 DEF ResolverInv

LEMMA TestResolver ==
  ASSUME NameInv, ResolverInv, TestAddresses
  PROVE  ResolverInv'
<1>1. /\ phase = "query" /\ phase' = "ready" /\ queries = 0
      /\ UNCHANGED <<config, queries, answer, addrs>>
  BY DEF TestAddresses
<1>2. pool.url # Absent /\ pool = [url |-> pool.url, sni |-> SniForClient]
  BY <1>1 DEF ResolverInv, NameInv
<1>3. pool'.url # Absent
  <2>1. CASE UNCHANGED pool
    BY <1>2, <2>1
  <2>2. ASSUME NEW a \in addrs,
               pool' = [pool EXCEPT !.url = [scheme |-> "", host |-> a, port |-> config.url.port]]
        PROVE  pool'.url # Absent
    <3>1. a \in Seq(Bytes)
      BY DEF ResolverInv, Addresses
    <3>2. config.url.port \in Ports
      BY <1>1 DEF NameInv, Resolves, HasHostAndPort, Ports
    <3>3. PICK url : url = [scheme |-> "", host |-> a, port |-> config.url.port]
      OBVIOUS
    <3>4. url \in [scheme : {""}, host : Seq(Bytes), port : Ports]
      BY <3>1, <3>2, <3>3
    <3>5. pool'.url = url
      BY <1>2, <2>2, <3>3
    <3> QED BY <3>4, <3>5, AbsentAssumption
  <2> QED BY <2>1, <2>2 DEF TestAddresses
<1>4. answer = Absent
  BY <1>1 DEF ResolverInv
<1> QED BY <1>1, <1>3, <1>4 DEF ResolverInv

LEMMA ResolverStep == PlanInv /\ NameInv /\ ResolverInv /\ [Next]_vars => ResolverInv'
<1> SUFFICES ASSUME PlanInv, NameInv, ResolverInv, [Next]_vars PROVE ResolverInv'
  OBVIOUS
<1>1. CASE LoadConfig
  BY <1>1 DEF LoadConfig, ResolverInv
<1>2. CASE PlanThreads
  BY <1>2, PlanResolver
<1>3. ASSUME NEW n \in 0 .. 2, ChooseServers(n) PROVE ResolverInv'
  <2>1. /\ phase = "servers" /\ queries' = 2 * n /\ phase' = (IF n = 0 THEN "ready" ELSE "query")
        /\ UNCHANGED <<pool, answer, addrs>>
    BY <1>3 DEF ChooseServers
  <2>2. queries' \in 0 .. 4 /\ (queries' > 0 => phase' = "query")
    BY <2>1
  <2>3. answer = Absent
    BY <2>1 DEF ResolverInv
  <2> QED BY <2>1, <2>2, <2>3 DEF ResolverInv
<1>4. ASSUME NEW m \in Messages, DohAnswers(m) PROVE ResolverInv'
  <2>1. PICK n \in 0 .. Len(Encoded[m]) : answer' = [message |-> m, size |-> n]
    BY <1>4 DEF DohAnswers
  <2>2. answer'.message = m /\ answer'.size = n
    BY <2>1
  <2>3. queries > 0 /\ UNCHANGED <<phase, pool, queries, addrs>>
    BY <1>4 DEF DohAnswers
  <2>4. Encoded' = Encoded
    BY DEF Encoded
  <2> QED BY <2>2, <2>3, <2>4 DEF ResolverInv
<1>5. CASE DohFails
  BY <1>5 DEF DohFails, ResolverInv
<1>6. CASE ParseAnswer
  BY <1>6, ParseResolver
<1>7. CASE TestAddresses
  BY <1>7, TestResolver
<1>8. CASE UNCHANGED vars
  <2>1. Encoded' = Encoded
    BY DEF Encoded
  <2> QED BY <1>8, <2>1 DEF vars, ResolverInv
<1> QED BY <1>1, <1>2, <1>3, <1>4, <1>5, <1>6, <1>7, <1>8 DEF Next

THEOREM ResolverCorrect == Spec => [](PlanInv /\ NameInv /\ ResolverInv)
BY PlanInit, PlanStep, NameInit, NameStep, ResolverInit, ResolverStep, PTL DEF Spec

(* However much of an answer arrives, and whatever it answers: exactly the *)
(* addresses that are there in full are found (parse_dns_response, with    *)
(* skip_name).                                                             *)
THEOREM AnswersUnderstood == Spec => []ParsesWhatItGot
<1>1. ResolverInv => ParsesWhatItGot
  BY ReceivedIsParsed DEF ParsesWhatItGot
<1> QED BY <1>1, ResolverCorrect, PTL

(* Types: there are at least one thread and no more PUs than threads, and  *)
(* what the resolver has gathered are addresses (Controller::run).         *)
THEOREM StartupTypes == Spec => []StartupTypeOK
<1>1. PlanInv /\ NameInv /\ ResolverInv => StartupTypeOK
  <2> SUFFICES ASSUME PlanInv, NameInv, ResolverInv PROVE StartupTypeOK
    OBVIOUS
  <2>1. phase \in {"load", "failed"} <=> config = Absent
    <3>1. PoolUrl(input.args, input.file) # Absent => Loaded # Absent
      BY AbsentAssumption DEF PlanInv, Loaded
    <3> QED BY <3>1 DEF PlanInv
  <2>2. ASSUME phase \in {"servers", "query", "ready"}
        PROVE  /\ workers.threads \in Nat \ {0}
               /\ Len(workers.pus) <= workers.threads
               /\ pool.url # Absent
    <3>1. input \in Inputs /\ config = Loaded
      BY <2>2 DEF PlanInv
    <3>2. IsMachine(input.machine)
      BY <3>1, StartupAssumption
    <3>3. config.threads \in Nat
      BY <3>1, LoadedThreads
    <3>4. PICK threads, pus : /\ threads = MineThreads(input.machine, config.useE, config.threads)
                              /\ pus = WorkerPus(input.machine, config.useE, config.threads)
      OBVIOUS
    <3>5. workers.threads = threads /\ workers.pus = pus
      <4>1. workers = [threads |-> threads, pus |-> pus]
        BY <2>2, <3>4 DEF PlanInv
      <4> QED BY <4>1
    <3>6. threads \in Nat \ {0} /\ Len(pus) <= threads
      BY <3>2, <3>3, <3>4, WorkersAre
    <3> QED BY <2>2, <3>5, <3>6 DEF ResolverInv
  <2>3. \A a \in addrs : a \in Seq(0 .. 255) /\ Len(a) \in {4, 16}
    BY DEF ResolverInv, Addresses, Bytes
  <2> QED BY <2>1, <2>2, <2>3 DEF StartupTypeOK, PlanInv, ResolverInv
<1> QED BY <1>1, ResolverCorrect, PTL
=============================================================================
