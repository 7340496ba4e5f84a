SPECIFICATION FairSpec
CONSTANTS
  MaxAxis = 256
  Sources <- AllSources
  Tables <- AllTables
  Limits <- AllLimits
  Currents <- AllCurrents
  FluxRates <- AllFluxRates
  NoSource = NoSource
INVARIANT TypeOK
INVARIANT HandleSound
INVARIANT SearchFindsCell
PROPERTY InteriorHolds
PROPERTY OutputsAnswer
PROPERTY CallsReturn
