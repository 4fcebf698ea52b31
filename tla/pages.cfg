CONSTANTS
  Null = Null
  MaxId = 4
  keyOf <- EqualKeys
  Scope <- AllButTwo
  Matching <- AllButOne
  Model <- Listing
  StringFields = {"title"}
  DEFAULT_PAGE_SIZE = 2
  MAX_PAGE_SIZE = 3
SPECIFICATION Spec
INVARIANTS
  StillWalkIsExact
  AscendingMissesNothing
  AscendingNeverRepeats
  SearchIsApplied
PROPERTY WalkEnds
CHECK_DEADLOCK FALSE
