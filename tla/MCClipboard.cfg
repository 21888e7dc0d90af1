SPECIFICATION FairSpec
CONSTANTS
  Texts = {x1, x2}
  None = None
  MaxCopies = 2
PROPERTY NoBounce
INVARIANT NoEcho
INVARIANT UncontendedSyncs
