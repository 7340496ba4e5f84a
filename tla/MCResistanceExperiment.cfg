SPECIFICATION ExperimentSpec
CONSTANTS
  SampleCap = 20
  Configs <- Options
  Observations <- Shown
INVARIANT BooksInStep
INVARIANT HandOffUsable
CHECK_DEADLOCK FALSE
