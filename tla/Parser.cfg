SPECIFICATION ParserSpec
CONSTANT Files <- SmallFiles
INVARIANTS
  LeavesAreTokens
  EndsAsReported
