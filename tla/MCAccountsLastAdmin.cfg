SPECIFICATION Spec
CONSTANTS
  Ids = {i1, i2}
  Emails = {e1, e2}
  Tokens = {t1, t2}
  Requests = {r1, r2}
  None = None
  DbFails = FALSE
  MaxRestarts = 0
SYMMETRY Symmetry
INVARIANT AdminExists
