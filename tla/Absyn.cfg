SPECIFICATION AbsynSpec
CONSTANTS
  n1 = n1
  n2 = n2
  Name <- Names
  Bucket = {0}
  Index <- Hash
  Class <- Classes
  MaxNodes = 4
  MaxStack = 4
INVARIANTS
  AbsynTypeOK
  OnlyKeepersLeak
  SharedNamesBreak
PROPERTIES
  ImplementsInterning
