----------------------------- MODULE MCNodeSetup -----------------------------
(* The instance of NodeSetup for TLC. *)
EXTENDS NodeSetup, TLC

\* Commands are interchangeable, and so are keys.
SetupSymmetry == Permutations(Commands) \cup Permutations(Keys)
=============================================================================
