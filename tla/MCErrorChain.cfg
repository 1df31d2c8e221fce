SPECIFICATION Spec
CONSTANTS
  Categories = {transport, decoding, unsupported}
  Unknown = unknown
  ZeroCode = zero
  OtherCode = other
  MaxLinks = 6
INVARIANTS TypeOK CodeIsMatched
PROPERTIES CategoriesKept
CHECK_DEADLOCK FALSE
