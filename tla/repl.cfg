CONSTANTS
  Names = {"x", "P"}
  MaxStack = 6
SPECIFICATION Spec
INVARIANTS BracketsMatch CalmEndsKept
PROPERTIES WholeInputs LinesAnswered
CHECK_DEADLOCK FALSE
