SPECIFICATION SerialSpec
CONSTANTS
  Ids = {i1, i2, i3}
  Emails = {e1, e2}
  Tokens = {t1, t2}
  Requests = {r1, r2}
  None = None
  DbFails = TRUE
  MaxRestarts = 1
SYMMETRY Symmetry
INVARIANT TypeOK
INVARIANT LastAdminKept
INVARIANT SessionsHaveAccounts
INVARIANT GateClosesAfterFirst
