SPECIFICATION PlantSpec
CONSTANTS
  H = 1
  Region <- Square
  MaxFinite = 300
  MaxCalls = 3
  Machines <- AllMachines
  Starts <- AllStarts
  Loads = {0, 1}
  Voltages <- AllVoltages
PROPERTY StepIsTransaction
PROPERTY Integrates
CHECK_DEADLOCK FALSE
