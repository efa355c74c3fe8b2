\* Three writers of two contents, the collector, disk errors and crashes.
CONSTANTS
  Writers = {w1, w2, w3}
  Contents = {c1, c2}
SPECIFICATION FairSpec
INVARIANTS NoTornBlob NoTempAfterAnswer
PROPERTIES ImplementsBlobSet CloseReturns
\* Every writer may be done.
CHECK_DEADLOCK FALSE
