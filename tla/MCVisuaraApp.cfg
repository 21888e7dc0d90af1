SPECIFICATION FairSpec
CONSTANTS
  p0 = p0
  p1 = p1
  a1 = a1
  a2 = a2
  MaxTasks = 2
  Prefs = {p1}
  Logins = {a1, a2}
  Entries <- MCEntries
  Embedded = p0
  MaxPings = 1
  MaxToggles = 2
  MaxKills = 1
  None = None
  Torn = Torn
INVARIANT SettingsAsChosen
INVARIANT AutostartHasCredentials
PROPERTY SessionEndsForAReason
PROPERTY SessionShowsOrEnds
