SPECIFICATION FairSpec
CONSTANTS
  Conns = {c1, c2}
  Devices = {d1}
  Accounts = {a1}
  Otps = {o1, o2}
  Passwords = {}
  SessionIds = {}
  Workers = {w1}
  None = None
  MaxRestarts = 1
INVARIANT TypeOK
INVARIANT NoStaleOnline
INVARIANT ShownOtpWorks
PROPERTY ClosedGoesOffline
