CONSTANTS
  c1 = c1
  c2 = c2
  Chans <- Both
  PlcEnable = FALSE
  DoorLimit = 2
  PressLimit = 2
  PressResend = 1
  StepMissing = FALSE
  PinsInputs = {}
  FireLevels = {0}
  Kinds = {"next", "fin", "pause"}
  Faults = {"mid"}
  MaxHost <- StartStopResume
  MaxFaults = 1
  MaxCrash = 0
SPECIFICATION Spec
INVARIANT EndExact  
SYMMETRY Symmetry
