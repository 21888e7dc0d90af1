SPECIFICATION FairSpec
CONSTANTS
  Tasks = {t1, t2}
  Names <- MCNames
  Paths <- MCPaths
  Candidates <- MCCandidates
  Existing = {"a"}
  MaxChunks = 2
  MaxFailures = 1
  None = None
INVARIANT ReceivedIsWhole
PROPERTY NoClobber
PROPERTY FilesArrive
