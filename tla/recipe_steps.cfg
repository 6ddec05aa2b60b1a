CONSTANTS
  Recipes <- Loops
  MaxLost = 1
  MaxCrash = 1
  MaxJumps = 1
SPECIFICATION FairSpec
INVARIANT AsWritten NoneMissing
PROPERTY Follows Ends
CHECK_DEADLOCK FALSE
