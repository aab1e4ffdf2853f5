--------------------------------- MODULE MCPipeline ---------------------------------
(* Mining over plain TCP, and every kind of connection in keepalive mode,  *)
(* in which no shares run.  Queues of one or two entries, so that a few    *)
(* shares and events fill them.                                            *)
EXTENDS Pipeline

CONSTANTS own, other

Mining == [keepalive |-> FALSE, tls |-> FALSE, allow12 |-> FALSE,
           pin |-> NoCert, proxy |-> FALSE]

MCConfigs ==
  {Mining} \cup [keepalive : {TRUE}, tls : BOOLEAN, allow12 : BOOLEAN,
                 pin : {NoCert, BadPin, own}, proxy : BOOLEAN]
MCMining == {Mining}
=============================================================================
