CONSTANTS
  Pkg = {1, 2, 3, 4, 9}
  Deb = {1, 2, 3, 4, 9}
  Worlds <- MCWorlds
  MaxRuns = 2
SPECIFICATION Spec
INVARIANTS ListsAttached ParseKeepsNames LeastClosure DependenciesMet SuccessMeansMatch
PROPERTIES RunEnds
CHECK_DEADLOCK FALSE
