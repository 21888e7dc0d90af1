SPECIFICATION Spec
CONSTANTS
  Conns = {c1, c2, c3}
  Devices = {d1}
  Accounts = {a1, a2}
  Otps = {o1}
  Passwords = {p1}
  SessionIds = {s1}
  Workers = {}
  None = None
  MaxRestarts = 0
SYMMETRY Symmetry
CONSTRAINT AccountsFirst
CONSTRAINT SomeAccountLeft
INVARIANT SessionAuthorised
INVARIANT EstablishedMeansAnnounced
INVARIANT RelayBetweenPeers
INVARIANT AnnouncedBeforeRelayed
PROPERTY PasswordSetByOwner
PROPERTY ImplementsRendezvous
