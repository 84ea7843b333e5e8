CONSTANTS
  X = X
  Y = Y
  L = L
  p = p
  Symbol = {X, Y, L, p}
  Path <- Paths
  Start = "main.of"
  Target <- Targets
  Join <- JoinPath
  StemOf <- Stem
  Core = "of:core"
  CoreItems <- CoreHas
  Prelude <- PreludeHas
  Disks <- SomeDisks
SPECIFICATION Spec
CHECK_DEADLOCK FALSE
INVARIANT CalleeIsTheOneChecked
