---------------------------- MODULE MCConnWatcher ----------------------------
(* Instances of ConnWatcher for TLC. *)
EXTENDS ConnWatcher
=============================================================================
