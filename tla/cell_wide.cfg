CONSTANTS
  c1 = c1
  c2 = c2
  Chans <- One
  PlcEnable = FALSE
  DoorLimit = 2
  PressLimit = 2
  PressResend = 1
  StepMissing = TRUE
  PinsInputs = {}
  FireLevels = {0, 11, 12}
  Kinds = {"idle", "run", "next", "fin"}
  Faults = {"low", "rep", "pins", "clear"}
  MaxHost <- Mixed
  MaxFaults = 1
  MaxCrash = 0
SPECIFICATION Spec
INVARIANT TypeOK EndInStart
