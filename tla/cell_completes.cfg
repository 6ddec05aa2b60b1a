CONSTANTS
  c1 = c1
  c2 = c2
  Chans <- Both
  PlcEnable = TRUE
  DoorLimit = 1
  PressLimit = 1
  PressResend = 1
  StepMissing = FALSE
  PinsInputs <- BothSignals
  FireLevels = {0}
  Kinds = {"next", "fin"}
  Faults = {}
  MaxHost <- TwoStarts
  MaxFaults = 0
  MaxCrash = 0
SPECIFICATION FairSpec
PROPERTY Started Completes PressEnds
