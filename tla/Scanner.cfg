SPECIFICATION Spec
CONSTANTS
  Inputs <- Files
  Keywords <- If
  IntMax = 40
INVARIANTS
  TypeOK
  ExitStatus
  CommentDepth
  LineTable
  LocationInFile
  LineExact
  StringText
  PositionExact
PROPERTY Terminates
