-------------------------------- MODULE MCNonceHistory --------------------------------
(* The jobs of MCMiner, watched by the observer of nonces.                 *)
EXTENDS MCMiner, NonceHistory
=============================================================================
