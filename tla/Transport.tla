-------------------------------- MODULE Transport --------------------------------
(***************************************************************************)
(* StratumTransport::connect (src/src/stratum/transport.rs): a TCP         *)
(* connection to the pool, directly or through a SOCKS5 proxy; over it, if *)
(* TLS is asked for, a rustls handshake; and if that fails, everything     *)
(* once more with OpenSSL.                                                 *)
(*                                                                         *)
(* Each library has its own code for the protocol versions and for the     *)
(* fingerprint of the certificate.  The peer may show any certificate and  *)
(* speak any version, another one on each connection.  A fingerprint is    *)
(* represented by the certificate that has it.                             *)
(***************************************************************************)
EXTENDS Settings, Integers

CONSTANT MaxName  \* bound of the model: length of the name in a SOCKS5 reply (255)

ASSUME TransportAssumption == MaxName \in Nat

VARIABLE link  \* the connection: how far it has come and what it is

linkVars == <<config, link>>

NoVersion == "none"
Versions == {"1.2", "1.3"}

TransportTypeOK ==
  /\ config \in Configs
  /\ link \in [stage : {"dial", "socks", "rustls", "openssl", "up", "closed"},
               library : {"rustls", "openssl"},
               proxied : BOOLEAN,
               cert : Certs \cup {NoCert},
               version : Versions \cup {NoVersion},
               unread : Int]

(* Nothing is connected: yet, the library being the one to be tried, or    *)
(* any more.                                                               *)
Unconnected(stage, library) ==
  [stage |-> stage, library |-> library, proxied |-> FALSE,
   cert |-> NoCert, version |-> NoVersion, unread |-> 0]
Dialing(library) == Unconnected("dial", library)
Closed == Unconnected("closed", "rustls")

TransportInit == link = Dialing("rustls")

(* What follows the TCP connection to the pool.                            *)
AfterTcp == IF config.tls THEN link.library ELSE "up"

-----------------------------------------------------------------------------
(* connect_tcp: TcpStream::connect to the proxy, if there is one.          *)
ProxyOnFirstDial == config.proxy /\ link.library = "rustls"
UsesProxy == config.proxy
Dial ==
  /\ link.stage = "dial"
  /\ link' = [link EXCEPT !.stage = IF UsesProxy THEN "socks" ELSE AfterTcp,
                          !.proxied = UsesProxy]
  /\ UNCHANGED config

(* The proxy's reply: four bytes, an address by its type, a port.  A name  *)
(* of n bytes comes after its length.                                      *)
ReplySize(type, n) ==
  4 + (CASE type = "v4" -> 4 [] type = "v6" -> 16 [] type = "name" -> 1 + n) + 2

(* What socks5_connect reads of it.                                        *)
ReadOfReply(type, n) ==
  4 + (CASE type = "v4" -> 6 [] type = "v6" -> 18 [] type = "name" -> 1 + (n + 2))

(* socks5_connect: greeting, request and reply.                            *)
SocksConnect(type, n) ==
  /\ link.stage = "socks"
  /\ link' = [link EXCEPT !.stage = AfterTcp,
                          !.unread = ReplySize(type, n) - ReadOfReply(type, n)]
  /\ UNCHANGED config

-----------------------------------------------------------------------------
(* The versions a library offers.                                          *)
Offered == IF config.allow12 THEN Versions ELSE {"1.3"}

(* connect_rustls: the fingerprint is parsed first, and compared by the    *)
(* certificate verifier within the handshake.                              *)
RustlsAccepts(c) == config.pin \in {NoCert, c}
Rustls(c, v) ==
  /\ link.stage = "rustls"
  /\ v \in Offered
  /\ RustlsAccepts(c)
  /\ link' = [link EXCEPT !.stage = "up", !.cert = c, !.version = v]
  /\ UNCHANGED config

(* Any error of it, a wrong or malformed fingerprint included: the         *)
(* connection is dropped and a new one made for OpenSSL.                   *)
RustlsFails ==
  /\ link.stage = "rustls"
  /\ link' = Dialing("openssl")
  /\ UNCHANGED config

(* connect_openssl: no verification in the handshake; the fingerprint is   *)
(* parsed and compared after it.                                           *)
OpenSslAcceptsAll(c) == TRUE
OpenSslAccepts(c) == config.pin \in {NoCert, c}
OpenSsl(c, v) ==
  /\ link.stage = "openssl"
  /\ v \in Offered
  /\ OpenSslAccepts(c)
  /\ link' = [link EXCEPT !.stage = "up", !.cert = c, !.version = v]
  /\ UNCHANGED config

(* An error that leaves StratumTransport::connect can come up in any stage *)
(* but the rustls handshake.                                               *)
MayFail == link.stage \notin {"rustls", "closed"}

TransportStep ==
  \/ Dial
  \/ \E type \in {"v4", "v6", "name"}, n \in 0 .. MaxName : SocksConnect(type, n)
  \/ \E c \in Certs, v \in Versions : Rustls(c, v) \/ OpenSsl(c, v)
  \/ RustlsFails
=============================================================================
