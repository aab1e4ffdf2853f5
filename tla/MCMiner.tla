---------------------------------- MODULE MCMiner ----------------------------------
(* Two threads and a small space of nonces.  PlainJob comes from a pool,   *)
(* Proxied and OtherSeed from a proxy that has reserved byte 1 (so that    *)
(* the nonces run out), Reannounced is a different job under the id of     *)
(* PlainJob, and ZeroByte comes from a proxy that has reserved byte 0.     *)
EXTENDS Miner

CONSTANTS k1, k2

PlainJob    == [id |-> "a", key |-> k1, nonce |-> 0,      proxied |-> FALSE]
Reannounced == [id |-> "a", key |-> k2, nonce |-> 0,      proxied |-> FALSE]
Proxied     == [id |-> "b", key |-> k1, nonce |-> LoSize, proxied |-> TRUE]
OtherSeed   == [id |-> "c", key |-> k2, nonce |-> LoSize, proxied |-> TRUE]
ZeroByte    == [id |-> "d", key |-> k1, nonce |-> 0,      proxied |-> TRUE]

MCSeedJobs   == {PlainJob, Reannounced, OtherSeed}
MCNonceJobs  == {PlainJob, Proxied}
MCZeroJobs   == {ZeroByte}
MCOneJob     == {PlainJob}
=============================================================================
