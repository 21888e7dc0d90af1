SPECIFICATION ScreenFairSpec
CONSTANTS
  MonitorIds = {m1, m2, m3}
  Primary = m1
  QueueSize = 2
  MaxSelections = 2
  MaxUnplugs = 1
  NoMonitor = NoMonitor
INVARIANT OnlyAskedIsShown
INVARIANT SharedIsSelected
PROPERTY RequestsAreTaken
PROPERTY CaptureEnds
