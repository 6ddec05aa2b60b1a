CONSTANTS
  N = 1
  Commands <- AllCommands
  MaxCmds = 1
  MaxFaults = 1
  Alarms = {}
  Trays <- One
SPECIFICATION Spec
INVARIANT TypeOK
PROPERTY TrayAnswer
