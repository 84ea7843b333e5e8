SPECIFICATION RunSpec
CONSTANTS
  x = x  e = e  f = f
  Name = {x, e, f}
  Param = x
  Stmt <- ShrinkStmt
  Bodies <- ShrinkBodies
  Size = 2
CHECK_DEADLOCK FALSE
INVARIANT PayloadGuarded
