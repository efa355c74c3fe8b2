\* Every pair of strings of up to three characters, and versions with epoch and revision.
CONSTANTS Versions <- MCVersions
SPECIFICATION Comparison
INVARIANTS OrdersAsPolicy
\* The comparison ends.
CHECK_DEADLOCK FALSE
