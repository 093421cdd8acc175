CONSTANTS
  A = A
  B = B
  x = x
  y = y
  v = v
  u = u
  Prims = {"I8", "I32"}
  Names = {A, B}
  Fields = {x, y}
  MaxClasses = 2
  MaxItems = 3
  Vars = {u, v}
  Values = {"a"}
  Memory <- MCMemory
  Depth = 2
SYMMETRY Alike
SPECIFICATION Spec
INVARIANTS LayoutsSound AliasesExpanded InsideBlock ReadBack
CHECK_DEADLOCK FALSE
