SPECIFICATION Spec
CONSTANTS
  CONFIG_MAGIC <- MCMagic
  CONFIG_SLOT_SIZE = 3
  Json <- MCJson
  Binary <- MCBinary
  NPlatforms = 2
  Fetches = {f1, f2}
  Downloads = {d1}
  Saves = {3, 4}
  Own = Own
  MaxParallel = 1
  MaxRelease = 2
  None = None
SYMMETRY Symmetry
CONSTRAINT SavesBesideFirstPlatform
INVARIANT TemplateWhole
INVARIANT ServedIsConfigured
INVARIANT SettingsServedTogether
INVARIANT VersionMatches
PROPERTY NeverDowngrades
