------------------------------- MODULE ShareDelivery -------------------------------
(***************************************************************************)
(* What the path from the mining threads to the pool promises of shares:   *)
(* a queue that hands them on in the order in which they were found, each  *)
(* at most once, and none that was not found.  Shares may be lost: when    *)
(* found (no room), or from the front of the queue (a connection breaks in *)
(* the middle of a submit, or nobody is left to read the queue).           *)
(***************************************************************************)
EXTENDS Integers, Sequences

CONSTANT MaxShares

VARIABLES
  queue,      \* shares on their way
  lastFound,  \* number of shares found
  delivered   \* shares handed to the pool, in order

deliveryVars == <<queue, lastFound, delivered>>

DeliveryInit ==
  /\ queue = << >>
  /\ lastFound = 0
  /\ delivered = << >>

FindShare ==
  /\ lastFound < MaxShares
  /\ lastFound' = lastFound + 1
  /\ queue' \in {queue, Append(queue, lastFound + 1)}
  /\ UNCHANGED delivered

Deliver ==
  /\ queue # << >>
  /\ delivered' = Append(delivered, Head(queue))
  /\ queue' = Tail(queue)
  /\ UNCHANGED lastFound

Lose ==
  /\ \E n \in 1 .. Len(queue) : queue' = SubSeq(queue, n + 1, Len(queue))
  /\ UNCHANGED <<lastFound, delivered>>

DeliveryNext == FindShare \/ Deliver \/ Lose

DeliverySpec == DeliveryInit /\ [][DeliveryNext]_deliveryVars
=============================================================================
