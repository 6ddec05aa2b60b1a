CONSTANTS
  d1 = d1
  d2 = d2
  f1 = f1
  f2 = f2
  none = none
  NoFd = none
  NoDev = none
  Fds <- TwoFds
  Devices <- TwoDevices
  HupAlone = TRUE
  MaxConn = 3
SPECIFICATION FairSpec
INVARIANT TypeOK 
 
