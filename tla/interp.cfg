CONSTANTS
  Names <- MCNames
  MaxDepth = 2
  MaxFrames = 5
  MaxScopes = 2
SPECIFICATION Spec
INVARIANTS TypeOK DepthCounts ScopesSuffice ScopesNested
PROPERTIES StaleFromForHeader SignalsLand SignalsEnd
