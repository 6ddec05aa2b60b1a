CONSTANTS
  c1 = c1
  c2 = c2
  Chans <- One
  PlcEnable = FALSE
  DoorLimit = 2
  PressLimit = 2
  PressResend = 1
  StepMissing = FALSE
  PinsInputs = {}
  FireLevels = {0}
  Kinds = {"run", "next", "fin", "wait", "pause"}
  Faults = {"link"}
  MaxHost <- StartStopPause
  MaxFaults = 1
  MaxCrash = 1
SPECIFICATION FairDrySpec
INVARIANT ActiveSaved
PROPERTY StepSupply
