------------------------------ MODULE MCDaemonSolo ------------------------------
(* First and Second are ordinary templates; Twin comes under the id of     *)
(* First and has no room for a nonce.                                      *)
EXTENDS DaemonSolo

First  == [id |-> "a", body |-> 1, fits |-> TRUE]
Second == [id |-> "b", body |-> 2, fits |-> TRUE]
Twin   == [id |-> "a", body |-> 3, fits |-> FALSE]

MCTemplates == {First, Second, Twin}
=============================================================================
