SPECIFICATION RuntimeSpec
CONSTANTS
  v1 = v1
  v2 = v2
  Var <- Variables
  Literal <- Literals
  LastByte = 1
  MaxInt = 4
  Arg <- Args
  Long = {9}
  MaxStrings = 6
SYMMETRY Symmetry
INVARIANTS
  RuntimeTypeOK
  StringsSound
PROPERTIES
  StringsNeverChange
  ImplementsStrings
