CONSTANTS
  Steps = 2
  RecFreq = 1
  NoRunLimit = 1
  Rules = {"global"}
  MaxWire = 2
  MaxRuns = 2
  MaxStarts = 2
  MaxAlarms = 1
SPECIFICATION FairSpec
INVARIANT TypeOK OneVerdict OwnReason StampsApart
PROPERTY   NoRunTold
