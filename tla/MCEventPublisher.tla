-------------------------- MODULE MCEventPublisher --------------------------
(* Instances of EventPublisher for TLC. *)
EXTENDS EventPublisher
=============================================================================
