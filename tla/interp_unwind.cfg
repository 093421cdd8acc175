CONSTANTS
  Names <- MCNames
  MaxDepth = 2
  MaxFrames = 5
  MaxScopes = 2
SPECIFICATION Spec
INVARIANT UnwoundToGlobal
