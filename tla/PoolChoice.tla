--------------------------------- MODULE PoolChoice ---------------------------------
(***************************************************************************)
(* Config::load (src/src/config.rs): the pool is chosen from the file, and *)
(* its settings are merged with the command line and with what the URL     *)
(* implies.                                                                *)
(*                                                                         *)
(* A URL is a scheme, a host and a port; Absent stands for None, Blank for *)
(* an empty string.  Options that only travel from here to the login or    *)
(* the log are left out.  Hosts are names or IPv4 addresses.                *)
(***************************************************************************)
EXTENDS ThreadPlan

CONSTANT Blank

(* A port: an ordinary one, one of those monerod uses, no number, none.    *)
Ports == {"ordinary", "monerod", "invalid", "missing"}

(* url_implies_tls, url_implies_daemon_rpc.                                *)
ImpliesTls(url) ==
  url.scheme \in {"stratum+ssl", "stratum+tls", "ssl", "tls", "https", "wss", "http3", "h3"}
ImpliesDaemonRpc(url) ==
  \/ url.scheme \in {"daemon+http", "daemon+https", "http", "https"}
  \/ url.scheme = "" /\ url.port = "monerod"

(* extract_host_from_pool_url wants a colon after the host, but does not   *)
(* look at the port; parse_pool_host_port does.                            *)
ExtractHost(url) == IF url.port = "missing" THEN Absent ELSE url.host
HasHostAndPort(url) == url.port \in {"ordinary", "monerod"}

(* first_non_empty.                                                        *)
FirstNonEmpty(a, b) ==
  IF a \notin {Absent, Blank} THEN a ELSE IF b \notin {Absent, Blank} THEN b ELSE Absent

-----------------------------------------------------------------------------
(* selected_pool: "pool" if it is enabled, the first enabled of "pools",   *)
(* "pool" all the same, the first of "pools".                              *)
Listed(file) == (IF file.pool = Absent THEN << >> ELSE <<file.pool>>) \o file.pools
SelectedPoolAsListed(file) ==
  IF Listed(file) = << >> THEN Absent ELSE Head(Listed(file))
SelectedPool(file) ==
  LET listed == Listed(file)
      enabled == {i \in DOMAIN listed : listed[i].enabled} IN
  IF listed = << >> THEN Absent ELSE listed[IF enabled = {} THEN 1 ELSE Min(enabled)]

(* resolve_pool_sni: the command line, a name given in the pool, or with   *)
(* "sni": true the host of the URL.                                        *)
ResolvePoolSni(cli, pool, url) ==
  IF cli \notin {Absent, Blank} THEN cli
  ELSE IF pool = Absent \/ pool.sni \in {Absent, "off"} THEN Absent
  ELSE IF pool.sni = "on" THEN ExtractHost(url) ELSE pool.sni

-----------------------------------------------------------------------------
ChosenPool(file) == IF file = Absent THEN Absent ELSE SelectedPool(file)

(* An option of the pool that was chosen.                                  *)
PoolOption(file, option) ==
  IF ChosenPool(file) = Absent THEN Absent ELSE ChosenPool(file)[option]

(* The URL; Absent is the error "missing pool url".                        *)
PoolUrl(args, file) == FirstNonEmpty(args.url, PoolOption(file, "url"))

Load(args, file, logical) ==
  LET url == PoolUrl(args, file)
      On(flag) == args[flag] \/ (ChosenPool(file) # Absent /\ PoolOption(file, flag))
  IN  [url       |-> url,
       tls       |-> On("tls") \/ ImpliesTls(url),
       allow12   |-> On("allow12"),
       pin       |-> FirstNonEmpty(args.pin, PoolOption(file, "pin")),
       sni       |-> ResolvePoolSni(args.sni, ChosenPool(file), url),
       socks5    |-> FirstNonEmpty(args.socks5, PoolOption(file, "socks5")),
       daemon    |-> On("daemon") \/ ImpliesDaemonRpc(url),
       keepalive |-> On("keepalive"),
       doh       |-> On("doh"),
       useE      |-> args.useE \/ (file # Absent /\ file.useE),
       threads   |-> ResolveThreads(args.threads,
                                    IF file = Absent THEN Absent ELSE file.cpu, logical)]
=============================================================================
