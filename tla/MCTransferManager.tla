------------------------- MODULE MCTransferManager -------------------------
(* Instances of TransferManager for TLC. *)
EXTENDS TransferManager, TLC

\* Requests are interchangeable; used only in runs without liveness properties.
XferSymmetry == Permutations(Xfers)
=============================================================================
