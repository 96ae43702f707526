------------------------- MODULE MCTransferQueries -------------------------
(* The instance of TransferQueries for TLC: one request with a new number  *)
(* and one with a number an earlier process used; the client prepares one  *)
(* of the two, and the content query asks of any of them, or of something  *)
(* else.                                                                   *)
EXTENDS TransferQueries

\* Bound: the client prepares one request.
OneRequest == prepared # Xfers
=============================================================================
