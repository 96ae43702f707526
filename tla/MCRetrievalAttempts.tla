------------------------ MODULE MCRetrievalAttempts ------------------------
(* Instances of RetrievalAttempts for TLC: a free unsealed offer, a larger one *)
(* that costs the same per byte, and a sealed one.                             *)
EXTENDS RetrievalAttempts

MCOffers == {[unseal |-> 0, perByte |-> 1, size |-> 1],
             [unseal |-> 0, perByte |-> 1, size |-> 2],
             [unseal |-> 1, perByte |-> 0, size |-> 1]}
=============================================================================
