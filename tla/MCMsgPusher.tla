---------------------------- MODULE MCMsgPusher ----------------------------
(* Instances of MsgPusher for TLC: an account known by two addresses, and another. *)
EXTENDS MsgPusher

CONSTANTS c1, c2, idAddr, keyAddr, other, k1, k2

MCCallers == {c1, c2}
MCAddrs   == {idAddr, keyAddr, other}
MCKeys    == {k1, k2}
MCKeyOf   == [a \in MCAddrs |-> IF a = other THEN k2 ELSE k1]
=============================================================================
