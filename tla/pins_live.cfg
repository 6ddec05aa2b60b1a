CONSTANTS
  N = 1
  Commands <- MoveCommands
  MaxCmds = 1
  MaxFaults = 0
  Alarms <- StopBit
  Trays = {}
SPECIFICATION FairSpec
INVARIANT ReportedOnce
PROPERTY LinkShown TrayShown BrakeLowers StopHeard
