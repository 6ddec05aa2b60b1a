CONSTANTS
  c1 = c1
  c2 = c2
  PlcEnable = TRUE
  DoorLimit = 2
  PressLimit = 2
  PressResend = 1
  StepMissing = FALSE
  PinsInputs <- OpenDoor
  FireLevels = {0}
  Kinds = {"next", "fin"}
  Faults = {}
  MaxHost <- TwoStarts
  MaxFaults = 0
  MaxCrash = 0
  Chans <- One
SPECIFICATION Spec
PROPERTY DoorShut
