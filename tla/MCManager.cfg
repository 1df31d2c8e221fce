SPECIFICATION Spec
CONSTANTS
  github = github
  githubPadded = githubPadded
  gitlab = gitlab
  gh = gh
  empty = empty
  o1 = o1
  o2 = o2
  o3 = o3
  Callers = {c1, c2}
  Spellings <- MCSpellings
  Blank = empty
  Trim <- MCTrim
  Objects = {o1, o2, o3}
  NameOf <- MCNameOf
  Nobody = Nobody
INVARIANTS TypeOK RegistryConsistent OneClaimEach
PROPERTIES ImplementsWriteOnceNames
