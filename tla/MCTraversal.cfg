SPECIFICATION Spec
CONSTANTS
  n1 = n1
  n2 = n2
  n3 = n3
  n4 = n4
  f1 = f1
  f2 = f2
  f3 = f3
  Nodes <- MCNodes
  FileOf <- MCFileOf
  Containers = {n1, n3}
  TestNodes = {n3, n4}
  Depths = {0, 1, 2, 4}
  Limits = {2, 5}
  searchLimit = 2
  maxNodes = 3
  traversalDepth = 1
  maxPerFile = 1
  maxNonProd = 1
  Rows <- MCRows
  MaxEdges = 4
INVARIANTS
  SearchesAreExact
  DependentsAreFound
  ContextIsClosed
CHECK_DEADLOCK FALSE
