SPECIFICATION FairSpec
CONSTANTS
  SampleCap = 20
  Configs <- AllConfigs
  Observations <- AllObservations
INVARIANT InStep
INVARIANT CompleteMeansEvidence
INVARIANT AuthorityFollowsPhase
INVARIANT BoundsContainEstimate
PROPERTY ImplementsAcquisition
PROPERTY RunsEnd
