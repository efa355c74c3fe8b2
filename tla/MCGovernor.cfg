\* Three readers, two writers, two tokens: readers compete for tokens, with each other
\* and with writers, and two writers may drain at once.  Those two block each other for
\* good (MCGovernorBlocked.cfg), so the system may really stop.
CONSTANTS
  Readers = {r1, r2, r3}
  Writers = {w1, w2}
  Max = 2
  None = None
SPECIFICATION FairSpec
INVARIANTS TokensConserved UnLockSucceeds
PROPERTIES Refines WriterServed ReaderServed
CHECK_DEADLOCK FALSE
