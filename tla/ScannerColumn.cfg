SPECIFICATION Spec
CONSTANTS
  Inputs <- CommentFiles
  Keywords <- If
  IntMax = 40
INVARIANTS
  ColumnExact
