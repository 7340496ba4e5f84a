SPECIFICATION Spec
CONSTANTS
  Commands <- AllCommands
  Buses = {0, 4, 5}
INVARIANT BridgeObeys
