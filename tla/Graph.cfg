SPECIFICATION GraphSpec
CONSTANTS
  g1 = g1
  g2 = g2
  n1 = n1
  n2 = n2
  n3 = n3
  null = null
  Graphs <- GraphSet
  Nodes <- NodeSet
  List = {work}
  Null <- null
  MaxLength = 3
  MaxEdges = 2
SYMMETRY Symmetric
INVARIANTS
  GraphTypeOK
  KeysNumber
  EdgesMirror
  ListsAsSets
PROPERTY ImplementsDigraph
