\* Every order of uploads and changes of the rules.  Where no rule matches, the process may end.
CONSTANTS
  Entries <- MCEntries
  RuleSets <- MCRuleSets
  None = None
SPECIFICATION Spec
INVARIANTS IndexSorted MergesByRule LogExplains
PROPERTIES NewestKept
CHECK_DEADLOCK FALSE
