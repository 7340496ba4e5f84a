SPECIFICATION Spec
CONSTANTS
  Configs <- AllConfigs
  Inputs <- AllInputs
INVARIANT DriveOrFault
INVARIANT LawsNeverMix
INVARIANT FailureExplained
INVARIANT PolicyHonoured
PROPERTY FallbackOnlyByLookup
