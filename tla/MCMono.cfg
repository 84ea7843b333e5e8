SPECIFICATION Spec
CONSTANTS
  f1 = f1  f2 = f2  f3 = f3
  s1 = s1  s2 = s2
  i1 = i1  i2 = i2  i3 = i3
  u1 = u1
  FnInst <- MCFnInst
  StructInst <- MCStructInst
  IfaceInst <- MCIfaceInst
  UnionInst <- MCUnionInst
  Programs <- MCPrograms
INVARIANT TypeOK
INVARIANT OneHome
INVARIANT TablesAgree
INVARIANT BodiesSeeBuiltTypes
INVARIANT NoDangling
INVARIANT SlotsCallable
INVARIANT VTablesComplete
PROPERTY StableIds
PROPERTY Terminates
PROPERTY RefinesReach
CHECK_DEADLOCK FALSE
