CONSTANTS
  Names <- MCNames
  NoName = NoName
  MaxBlocks = 9
  MaxFrames = 4
  MaxCases = 2
  MaxDecls = 1
SPECIFICATION Spec
INVARIANT AllEnded
