CONSTANTS
  c1 = c1
  c2 = c2
  Chans <- One
  First = c1
  BeatMax = 1
  FeatMod = 4
  MaxLag = 1
  CmdKinds = {"EXEC_PROCESS", "EXEC_STOP"}
  MaxCmds = 1
  MaxStops = 1
  MaxSilent = 1
SPECIFICATION FairSpec
INVARIANT TypeOK
PROPERTY AliveKept   SilenceNoticed
