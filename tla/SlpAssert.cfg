SPECIFICATION SlpSpec
CONSTANTS
  Trees <- AllTrees
  Height <- Depths
  Programs <- AllPrograms
  Id <- Ids
  IntMax = 2047
INVARIANT AssignedIsFound
