CONSTANTS
  Names <- MCNames
  NoName = NoName
  MaxBlocks = 10
  MaxFrames = 5
  MaxCases = 2
  MaxDecls = 1
SPECIFICATION Spec
INVARIANTS OnlyRestsLate LoopsMatch BlocksFresh
PROPERTIES OnlyArmsStrand
