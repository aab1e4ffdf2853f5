--------------------------------- MODULE Settings ---------------------------------
(***************************************************************************)
(* The part of Config (src/src/config.rs) that the controller, the client  *)
(* and its transport read while they run.  It is fixed at start-up.        *)
(***************************************************************************)

CONSTANTS
  Certs,    \* certificates a peer may show
  NoCert,   \* no certificate, or no fingerprint configured
  BadPin,   \* a configured fingerprint that is no SHA-256 digest
  Configs   \* the configurations considered

ASSUME SettingsAssumption ==
  /\ NoCert \notin Certs /\ BadPin \notin Certs /\ NoCert # BadPin
  /\ Configs \subseteq [keepalive : BOOLEAN,  \* connect without mining
                        tls : BOOLEAN,        \* pool_tls
                        allow12 : BOOLEAN,    \* tls_allow_12
                        pin : Certs \cup {NoCert, BadPin}, \* tls_fingerprint
                        proxy : BOOLEAN]      \* socks5 is given

VARIABLE config

SettingsInit == config \in Configs
=============================================================================
