SPECIFICATION FairExperiment
CONSTANTS
  SampleCap = 20
  Configs <- Options
  Observations <- Shown
INVARIANT FreshPerStage
INVARIANT CleanExitIsReport
PROPERTY ExperimentEnds
CHECK_DEADLOCK FALSE
