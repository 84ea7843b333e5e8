SPECIFICATION RunSpec
CONSTANTS
  x = x  e = e  f = f
  Name = {x, e, f}
  Param = x
  Stmt <- ShadowStmt
  Bodies <- ShadowBodies
  Size = 2
CHECK_DEADLOCK FALSE
INVARIANT BindingsSurviveLoops
