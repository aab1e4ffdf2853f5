----------------------------------- MODULE Startup -----------------------------------
(***************************************************************************)
(* From the command line to the first connection: Config::load, the thread *)
(* plan and the resolver (app::run, the beginning of Controller::run and   *)
(* doh::resolve in src/src/app/mod.rs, controller.rs and doh.rs).          *)
(*                                                                         *)
(* The network is the environment: a DoH server answers anything or        *)
(* nothing, an address accepts a connection or does not, and any of them   *)
(* may be the fastest.  (The plain DNS resolvers are timed as well, to no  *)
(* effect.)  Every wait has a timeout.                                     *)
(***************************************************************************)
EXTENDS PoolChoice, DnsAnswer

CONSTANTS
  Inputs,   \* command lines, configuration files and machines
  Messages  \* what DoH servers answer

(* A URL has a host, though perhaps no port.  Numbers of threads are u32;  *)
(* PUs belong to one core each, and there is at least one.                 *)
IsMachine(m) ==
  /\ m.hwloc \in BOOLEAN
  /\ m.logical \in Nat \ {0} /\ m.physical \in Nat
  /\ m.pus \subseteq Nat /\ m.pus # {} /\ IsFiniteSet(m.pus)
  /\ m.cores \subseteq SUBSET m.pus
  /\ \A c, d \in m.cores : c # d => c \cap d = {}
IsCpu(cpu) ==
  /\ {cpu.threads, cpu.hint} \subseteq Nat \cup {Absent}
  /\ cpu.rx = Absent \/ cpu.rx.n \in Nat
ASSUME StartupAssumption ==
  \A i \in Inputs :
    /\ PoolUrl(i.args, i.file) # Absent => PoolUrl(i.args, i.file).host # Absent
    /\ i.args.threads \in Nat \cup {Absent}
    /\ i.file # Absent =>
         /\ i.file.pools \in Seq(Range(i.file.pools))
         /\ i.file.cpu = Absent \/ IsCpu(i.file.cpu)
    /\ IsMachine(i.machine)

ASSUME MessagesAssumption == \A m \in Messages : IsMessage(m)

(* None is neither a configuration nor the URL of an address.              *)
ASSUME AbsentAssumption ==
  /\ \A i \in Inputs :
       PoolUrl(i.args, i.file) # Absent => Load(i.args, i.file, i.machine.logical) # Absent
  /\ Absent \notin [scheme : {""}, host : Seq(Bytes), port : Ports]

VARIABLES
  phase,    \* how far the program has come
  input,    \* what it is started with
  config,   \* the result of Config::load
  workers,  \* number of threads and the PUs they are pinned to
  pool,     \* the URL and the SNI the client is given
  queries,  \* DoH queries still to be made for the host of the pool
  answer,   \* the answer just received: a message, and how many bytes of it
  addrs     \* the addresses gathered

vars == <<phase, input, config, workers, pool, queries, answer, addrs>>

(* The messages as bytes.                                                  *)
Encoded == [m \in Messages |-> Encode(m)]

StartupTypeOK ==
  /\ phase \in {"load", "plan", "servers", "query", "ready", "failed"}
  /\ phase \in {"load", "failed"} <=> config = Absent
  /\ phase \in {"servers", "query", "ready"} =>
       /\ workers.threads \in Nat \ {0}
       /\ Len(workers.pus) <= workers.threads
       /\ pool.url # Absent
  /\ queries \in 0 .. 4
  /\ queries > 0 => phase = "query"
  /\ answer # Absent =>
       answer.message \in Messages /\ answer.size \in 0 .. Len(Encoded[answer.message])
  /\ \A a \in addrs : a \in Seq(0 .. 255) /\ Len(a) \in {4, 16}

Init ==
  /\ phase = "load"
  /\ input \in Inputs
  /\ config = Absent /\ workers = Absent /\ pool = Absent
  /\ queries = 0
  /\ answer = Absent
  /\ addrs = {}

-----------------------------------------------------------------------------
(* Config::load; without a URL, main ends with its error.                  *)
LoadConfig ==
  /\ phase = "load"
  /\ IF PoolUrl(input.args, input.file) = Absent
     THEN phase' = "failed" /\ UNCHANGED config
     ELSE /\ phase' = "plan"
          /\ config' = Load(input.args, input.file, input.machine.logical)
  /\ UNCHANGED <<input, workers, pool, queries, answer, addrs>>

(* Solo mining ignores the resolver, and so does a URL it cannot parse.    *)
Resolves == config.doh /\ ~config.daemon /\ HasHostAndPort(config.url)

(* Before it resolves the host, Controller::run keeps its name for TLS.    *)
SniIfGiven == config.sni
SniForClient ==
  IF Resolves /\ config.tls /\ config.sni = Absent THEN config.url.host ELSE config.sni

(* Controller::run and run_daemon_rpc up to the resolver.                  *)
PlanThreads ==
  /\ phase = "plan"
  /\ workers' = [threads |-> MineThreads(input.machine, config.useE, config.threads),
                 pus |-> WorkerPus(input.machine, config.useE, config.threads)]
  /\ pool' = [url |-> config.url, sni |-> SniForClient]
  /\ phase' = IF Resolves THEN "servers" ELSE "ready"
  /\ UNCHANGED <<input, config, queries, answer, addrs>>

(* The two DoH servers that were fastest with an address of example.com,   *)
(* or as many as there are.  Each is asked for A and for AAAA records.     *)
ChooseServers(n) ==
  /\ phase = "servers"
  /\ queries' = 2 * n
  /\ phase' = IF n = 0 THEN "ready" ELSE "query"
  /\ UNCHANGED <<input, config, workers, pool, answer, addrs>>

(* doh_query: the beginning of an answer, or none within five seconds.     *)
DohAnswers(m) ==
  /\ phase = "query" /\ queries > 0 /\ answer = Absent
  /\ \E n \in 0 .. Len(Encoded[m]) : answer' = [message |-> m, size |-> n]
  /\ UNCHANGED <<phase, input, config, workers, pool, queries, addrs>>

DohFailsRestarts ==
  /\ phase = "query" /\ queries > 0 /\ answer = Absent
  /\ phase' = "servers" /\ queries' = 0
  /\ UNCHANGED <<input, config, workers, pool, answer, addrs>>
DohFails ==
  /\ phase = "query" /\ queries > 0 /\ answer = Absent
  /\ queries' = queries - 1
  /\ UNCHANGED <<phase, input, config, workers, pool, answer, addrs>>

Received == SubSeq(Encoded[answer.message], 1, answer.size)
ParseAnswer ==
  /\ answer # Absent
  /\ addrs' = addrs \cup ParseDnsResponse(Received)
  /\ queries' = queries - 1
  /\ answer' = Absent
  /\ UNCHANGED <<phase, input, config, workers, pool>>

(* The fastest of the addresses that accept a connection takes the place   *)
(* of the URL; without one it stays.                                       *)
TestAddresses ==
  /\ phase = "query" /\ queries = 0
  /\ \/ \E a \in addrs :
          pool' = [pool EXCEPT !.url = [scheme |-> "", host |-> a, port |-> config.url.port]]
     \/ UNCHANGED pool
  /\ phase' = "ready"
  /\ UNCHANGED <<input, config, workers, queries, answer, addrs>>

Next ==
  \/ LoadConfig \/ PlanThreads
  \/ \E n \in 0 .. 2 : ChooseServers(n)
  \/ \E m \in Messages : DohAnswers(m)
  \/ DohFails \/ ParseAnswer \/ TestAddresses

Spec == Init /\ [][Next]_vars

(* The program runs on: no wait for the network is without a timeout.      *)
FairSpec == Spec /\ WF_vars(Next)

-----------------------------------------------------------------------------
(* "lite-xmr reads the first enabled pool": unless the URL is given on the *)
(* command line, it is that of an enabled pool if there is one, and TLS    *)
(* and fingerprint are not those of another (an empty one counts as none). *)
EnabledPoolUsed ==
  LET enabled == {i \in DOMAIN Listed(input.file) : Listed(input.file)[i].enabled} IN
  config # Absent /\ input.args.url \in {Absent, Blank} /\ enabled # {} =>
    \E i \in enabled :
      LET p == Listed(input.file)[i] IN
      /\ \A j \in enabled : i <= j
      /\ config.url = p.url
      /\ p.tls => config.tls
      /\ input.args.pin \in {Absent, Blank} =>
           config.pin = IF p.pin = Blank THEN Absent ELSE p.pin

(* No core is given two threads, and the automatic plan puts one on every  *)
(* P-core, or with use_e_cores on every core: if hwloc knows the cores.    *)
PCores(cores) ==
  LET smt == {c \in cores : Cardinality(c) > 1} IN IF smt = {} THEN cores ELSE smt
PinnedTo(pus, core) == {i \in DOMAIN pus : pus[i] \in core}
ThreadsSpread ==
  LET cores == input.machine.cores \ {{}} IN
  workers # Absent /\ input.machine.hwloc =>
    /\ \A c \in cores : Cardinality(PinnedTo(workers.pus, c)) <= 1
    /\ config.threads = 0 =>
         /\ \A c \in IF config.useE THEN cores ELSE PCores(cores) : PinnedTo(workers.pus, c) # {}
         /\ workers.threads = Len(workers.pus)

(* With TLS the server is asked for by the SNI configured or by the host   *)
(* of the URL, though an address has taken the host's place; and that      *)
(* address is one of the answers.                                          *)
ServerName == IF pool.sni # Absent THEN pool.sni ELSE pool.url.host
NameSurvivesDoh ==
  phase = "ready" /\ ~config.daemon =>
    /\ config.tls => ServerName = IF config.sni # Absent THEN config.sni ELSE config.url.host
    /\ pool.url = config.url \/ (pool.url.host \in addrs /\ pool.url.port = config.url.port)

(* Whatever part of an answer arrives, the parser finds the addresses it   *)
(* contains in full, no others, and never reads beyond its end.            *)
ParsesWhatItGot ==
  answer # Absent => ParseDnsResponse(Received) = Says(answer.message, answer.size)

(* "falling back to system DNS": with a configuration, the program gets to *)
(* the point where it connects, whatever the network does.                 *)
ConnectsAnyway == phase = "plan" ~> phase = "ready"
=============================================================================
