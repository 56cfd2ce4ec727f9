SPECIFICATION SymSpec
CONSTANTS
  mark = mark
  s1 = s1
  s2 = s2
  null = null
  Key <- Keys
  Mark <- mark
  Value = {v1}
  Null <- null
  Bucket <- Buckets
  Index <- Hash
  MaxDepth = 5
INVARIANTS
  TableTypeOK
  LookAgrees
  PopTakesTop
  DumpAssert
  DumpShowsAll
PROPERTIES
  ImplementsEnv
  ImplementsScopes
  CallsReturn
