\* AutoTrim goes on and off, AutoTrimLength up and down.  The chain is bounded, so the model
\* stops; it stops too when a collection panics, after a length has been raised.
CONSTANTS
  Lengths <- MCLengths
  MaxReleases = 6
SPECIFICATION Spec
INVARIANTS HistoryAccessible
PROPERTIES WindowMoves TrimsToLength
CHECK_DEADLOCK FALSE
