CONSTANTS
  Capacity = 7
  RequestSizes = {0, 8, 9}
  SizeSpan = 8
  Junk <- MCJunk
SPECIFICATION Spec
INVARIANTS TypeOK BlocksTile LiveCounts WalkSound ReachWithinBlock OwnedInUse
PROPERTIES FreshZeroed LiveDataKept BlocksPermanent AllocReturns FirstFit
