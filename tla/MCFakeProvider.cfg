SPECIFICATION Spec
CONSTANTS
  Callers = {c1, c2}
  Kinds = {begin, complete}
  Requests = {q1, q2}
  Results = {u1, u2}
  Errors = {e1, e2}
  Unset = Unset
  Nobody = Nobody
  MaxCalls = 2
SYMMETRY Symmetry
INVARIANTS TypeOK
PROPERTIES ImplementsAtomicProvider
