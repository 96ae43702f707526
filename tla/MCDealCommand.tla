---------------------------- MODULE MCDealCommand ----------------------------
(* Instances of DealCommand for TLC. *)
EXTENDS DealCommand

\* One ask above the size of the data and one below it.
MCAsks == {[price |-> 5, verifiedPrice |-> 0, minSize |-> 4],
           [price |-> 3, verifiedPrice |-> 1, minSize |-> 1]}
=============================================================================
