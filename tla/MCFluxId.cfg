SPECIFICATION Spec
CONSTANTS
  SampleCap = 20
  Configs <- AllConfigs
  Observations <- AllObservations
INVARIANT InStep
INVARIANT CompleteMeansEvidence
INVARIANT ReferenceIsMagnet
INVARIANT AuthorityFollowsPhase
PROPERTY ImplementsAcquisition
