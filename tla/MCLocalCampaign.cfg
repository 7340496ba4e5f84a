SPECIFICATION Spec
CONSTANTS
  Zero = Zero
  Left = Left
  Right = Right
  Far = Far
  Points <- FourPoints
  Origin = Zero
  MaxPoints = 3
  Calls <- ShortCalls
INVARIANT EachPointOnce
INVARIANT NothingRunsAfterFault
INVARIANT ClaimsTraceable
CHECK_DEADLOCK FALSE
