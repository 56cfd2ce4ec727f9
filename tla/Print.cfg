SPECIFICATION PrintSpec
CONSTANTS
  Trees <- AllTrees
  Height <- Heights
  Roots <- AllRoots
  Names <- AllNames
INVARIANTS
  NoTwoAlike
  Indented
