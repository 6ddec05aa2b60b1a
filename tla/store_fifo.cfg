CONSTANTS
  r1 = r1
  k = k
  N = 2
  Process <- OneRecord
  Cached <- OneCached
  Cap = 2
  MaxRecords <- ThreeAndOne
SPECIFICATION FairSpec
INVARIANT TypeOK PopsSafe Bounded
PROPERTY FifoSpec
