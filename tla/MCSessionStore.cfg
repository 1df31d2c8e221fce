SPECIFICATION Spec
CONSTANTS
  github = github
  githubPadded = githubPadded
  google = google
  Callers = {c1, c2}
  Sessions = {s1, s2}
  Ids = {i1, i2}
  Names <- MCNames
  Trim <- MCTrim
  TTL = 2
  MaxAttempts = 4
  MaxTime = 3
INVARIANTS TypeOK RedeemedAtMostOnce Ownership
PROPERTIES PurgeIsExact CallsReturn ImplementsOneTimeSessions
