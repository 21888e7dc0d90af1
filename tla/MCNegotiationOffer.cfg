SPECIFICATION FairSpec
CONSTANTS
  Controllers = {k1}
  Host = host
  None = None
  MaxIce = 1
PROPERTY AwaitedAnswerComes
