------------------------------ MODULE DealTerms ------------------------------
(***************************************************************************)
(* The terms of a storage deal, as MakeDealUnsigned computes them from the *)
(* provider's ask.  Sizes are padded piece sizes; a gibibyte is GiB units. *)
(***************************************************************************)
EXTENDS Naturals

CONSTANTS
  GiB,      \* the size that an ask's price is for
  PieceSize \* the size of the piece computePieceComm finds

ASSUME TermsAssumption == GiB \in Nat \ {0} /\ PieceSize \in Nat \ {0}

\* StateDealProviderCollateralBounds(size).Min of the gateway: more for a larger piece.
CollateralMin(size) == 7 * size

\* A piece smaller than the least size the provider takes is padded up to it.
Padded(minSize) == IF PieceSize < minSize THEN minSize ELSE PieceSize

PerEpoch(size, price) == (size * price) \div GiB

\* "10% above minimum to avoid fluctuations", rounded down.
Collateral(size) == (11 * CollateralMin(size)) \div 10

\* makeDealCmd: a verified deal has a price of its own.
PriceOf(ask, verified) == IF verified THEN ask.verifiedPrice ELSE ask.price

\* Deviation: price and collateral are those of the piece before it was padded.
ProposalBeforePadding(ask, verified) ==
  [size |-> Padded(ask.minSize), commitmentSize |-> Padded(ask.minSize),
   verified |-> verified,
   perEpoch |-> PerEpoch(PieceSize, PriceOf(ask, verified)),
   collateral |-> Collateral(PieceSize)]

\* The proposal: its piece commitment is the one of the data padded to
\* commitmentSize (ZeroPadPieceCommitment).
Proposal(ask, verified) ==
  LET size == Padded(ask.minSize)
  IN [size |-> size, commitmentSize |-> size, verified |-> verified,
      perEpoch |-> PerEpoch(size, PriceOf(ask, verified)),
      collateral |-> Collateral(size)]

\* What a provider asks of a proposal: a large enough piece, the commitment of just
\* that piece, at least its price, and a collateral not below the bound.
Meets(proposal, ask) ==
  /\ proposal.size >= ask.minSize /\ proposal.size >= PieceSize
  /\ proposal.commitmentSize = proposal.size
  /\ proposal.perEpoch >= PerEpoch(proposal.size, PriceOf(ask, proposal.verified))
  /\ proposal.collateral >= CollateralMin(proposal.size)
=============================================================================
