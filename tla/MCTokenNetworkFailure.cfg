SPECIFICATION Spec
CONSTANTS
  Calls = {c1}
  Codes = {code1}
  States = {state1, state2}
  Verifiers = {verifier1}
  Tokens = {token1}
  Empty = Empty
  HasTimeout = TRUE
INVARIANT NetworkFailureIsTransport
CHECK_DEADLOCK FALSE
