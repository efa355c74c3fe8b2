\* One distribution, every order of uploads and configuration changes.
CONSTANTS
  initial = initial
  flat = flat
  broken = broken
  k1 = k1
  k1again = k1again
  ring = ring
  locked = locked
  public = public
  Indexes <- MCIndexes
  Patterns = {initial, flat, broken}
  Broken = broken
  Directory <- MCDirectory
  Keyrings = {k1, k1again, ring, locked, public}
  Kind <- MCKind
  KeyOf <- MCKeyOf
  Unreadable <- MCUnreadable
  None = None
SPECIFICATION Spec
INVARIANTS PackagesComplete PoolServesPackages SignatureFresh PatternServes
