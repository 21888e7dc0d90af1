SPECIFICATION Spec
CONSTANTS
  Buttons = {left}
  Keys = {space}
  Printable = {space}
  Deltas <- MCDeltas
  Width = 2
  Monitors <- MCMonitors
  MaxActs = 4
  None = None
INVARIANT TypedAsEntered
INVARIANT ClickHitsTarget
INVARIANT ScrollAddsUp
INVARIANT NothingStaysHeld
