---------------------------------- MODULE MCStartup ----------------------------------
(* Three families of inputs, each with the others' part kept simple.       *)
EXTENDS Startup, SequencesExt

CONSTANTS poolA, poolB, front, own

Url(scheme, host, port) == [scheme |-> scheme, host |-> host, port |-> port]

NoOptions ==
  [url |-> Absent, tls |-> FALSE, allow12 |-> FALSE, pin |-> Absent, sni |-> Absent,
   socks5 |-> Absent, daemon |-> FALSE, keepalive |-> FALSE, doh |-> FALSE]
NoArgs == [threads |-> Absent, useE |-> FALSE] @@ NoOptions
APool == [enabled |-> TRUE] @@ [NoOptions EXCEPT !.url = Url("", poolA, "ordinary")]
AFile == [pool |-> APool, pools |-> << >>, cpu |-> Absent, useE |-> FALSE]
AMachine == [cores |-> {{0, 1}}, pus |-> {0, 1}, hwloc |-> TRUE, logical |-> 2, physical |-> 1]

(* Pools, enabled or not, in both places of the file.                      *)
SomePools ==
  {[APool EXCEPT !.enabled = e, !.url = p[1], !.tls = p[2], !.pin = p[3]] :
     e \in BOOLEAN,
     p \in {<<Url("", poolA, "ordinary"), FALSE, Absent>>,
            <<Url("stratum+ssl", poolB, "ordinary"), FALSE, own>>,
            <<Url("http", poolB, "monerod"), TRUE, Blank>>}}
PoolFiles ==
  [pool : SomePools \cup {Absent}, pools : SeqOf(SomePools, 2), cpu : {Absent}, useE : {FALSE}]
PoolInputs ==
  {[args |-> [NoArgs EXCEPT !.url = u], file |-> f, machine |-> AMachine] :
     u \in {Absent, Blank, Url("", poolB, "monerod")}, f \in PoolFiles \cup {Absent}}

(* Server names, with the resolver.                                        *)
NameInputs ==
  {[args |-> [NoArgs EXCEPT !.sni = s, !.doh = TRUE],
    file |-> [AFile EXCEPT !.pool.sni = t, !.pool.tls = tls, !.pool.url.port = port],
    machine |-> AMachine] :
     s \in {Absent, front}, t \in {Absent, "on"}, tls \in BOOLEAN,
     port \in {"ordinary", "missing"}}

(* Machines and numbers of threads.                                        *)
Machine(cores, logical) ==
  [cores |-> cores, pus |-> UNION cores, hwloc |-> TRUE, logical |-> logical,
   physical |-> Cardinality(cores)]
Machines ==
  {Machine({{0, 2}, {1, 3}}, 4), Machine({{0}, {1}, {2}}, 3),
   Machine({{0, 1}, {2, 3}, {4}, {5}}, 6), Machine({{0, 1}, {4}, {2}, {}}, 2),
   [Machine({}, 3) EXCEPT !.pus = {0, 1, 2}],
   [Machine({{0, 1}}, 2) EXCEPT !.hwloc = FALSE]}
Cpus ==
  [threads : {Absent, 0, 3}, hint : {Absent, 0, 51, 100},
   rx : {Absent} \cup [list : BOOLEAN, n : {0, 2}]] \cup {Absent}
MachineInputs ==
  {[args |-> [NoArgs EXCEPT !.threads = t, !.useE = e],
    file |-> [AFile EXCEPT !.cpu = cpu], machine |-> m] :
     t \in {Absent, 0, 1, 9}, e \in BOOLEAN, cpu \in Cpus, m \in Machines}

MCInputs == PoolInputs \cup NameInputs \cup MachineInputs

(* Answers: names in full, by pointer and both; addresses behind an alias; *)
(* data of a wrong length; a record announced that is not there, and one   *)
(* there that is not announced.                                            *)
Full == <<1, 97, 0>>
Pointer == <<192, 12>>
Both == <<1, 98, 192, 12>>
Four == <<10, 0, 0, 1>>
Sixteen == <<32, 1, 0, 0, 0, 0, 0, 0, 0, 0, 0, 0, 0, 0, 0, 1>>
Record(name, type, data) == [name |-> name, type |-> type, data |-> data]
Message(questions, records, announced) ==
  [questions |-> questions, records |-> records, announced |-> announced]
MCMessages ==
  {Message(<<Full>>, <<Record(Pointer, 5, Both), Record(Both, 1, Four)>>, 2),
   Message(<<Full>>, <<Record(Full, 28, Sixteen)>>, 2),
   Message(<<Full, Pointer>>, <<Record(Pointer, 1, Sixteen), Record(<<0>>, 28, Four)>>, 2),
   Message(<< >>, <<Record(Full, 1, Four), Record(Full, 28, Sixteen)>>, 1),
   Message(<<Full>>, << >>, 0)}
=============================================================================
