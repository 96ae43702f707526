---------------------------- MODULE MCRetrieval ----------------------------
(* Instances of Retrieval for TLC. *)
EXTENDS Retrieval
=============================================================================
