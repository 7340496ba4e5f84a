SPECIFICATION Spec
CONSTANTS
  Configs <- TwoConfigs
  Inputs <- ThreeInputs
  Settings <- SomeSettings
  TraceCapacity = 2
INVARIANT ReportMeansSuccess
INVARIANT DiagnosticsAgree
INVARIANT SettlingIsLast
CHECK_DEADLOCK FALSE
