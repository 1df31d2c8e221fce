SPECIFICATION Spec
CONSTANTS
  Browsers = {b1, b2}
  Providers = {github, google}
  Flows = {f1, f2}
  Requests = {r1, r2}
  None = None
  TTL = 1
  MaxTime = 1
  MaxRestarts = 1
SYMMETRY Symmetry
INVARIANTS TypeOK SuccessIsOwnLogin CodePostedOnce SessionPageExplained
PROPERTIES ImplementsOneTimeLogins
CHECK_DEADLOCK FALSE
