SPECIFICATION RunSpec
CONSTANTS
  x = x  e = e  f = f
  Name = {x, e, f}
  Param = x
  Stmt <- MCStmt
  Bodies <- MCBodies
  Size = 2
CHECK_DEADLOCK FALSE
INVARIANT TypeOK
INVARIANT AllSealed
INVARIANT StacksMatch
INVARIANT SameBehaviour
PROPERTY TerminatorsAreFinal
PROPERTY KeepsMeeting
