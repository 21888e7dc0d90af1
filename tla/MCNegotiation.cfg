SPECIFICATION FairSpec
CONSTANTS
  Controllers = {k1, k2}
  Host = host
  None = None
  MaxIce = 1
PROPERTY OfferIsAnswered
INVARIANT CandidatesAfterDescription
INVARIANT ConnectedIsServed
