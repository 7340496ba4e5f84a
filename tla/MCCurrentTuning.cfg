SPECIFICATION DesignSpec
CONSTANTS
  Requests <- AllRequests
  Map <- SmallMap
INVARIANT BudgetsKept
INVARIANT DesignIsLargest
