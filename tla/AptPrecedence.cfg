CONSTANTS
  Pkg = {1, 2, 3, 4, 9}
  Deb = {1, 2, 3, 4, 9}
  Worlds <- MCWorlds
  MaxRuns = 1
SPECIFICATION Spec
INVARIANTS BarBindsStronger
CHECK_DEADLOCK FALSE
