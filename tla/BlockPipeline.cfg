SPECIFICATION Spec
CONSTANTS
  MaxHeight = 5
  RawCap = 1
  FxCap = 1
INVARIANTS
  TypeOK
  AppliedInOrder
  CompleteMeansTip
  ErrorIsReported
  NoThreadOutlivesWalk
  Backpressure
PROPERTIES
  ImplementsWalk
  WalkReturns
  StopEndsWalk
