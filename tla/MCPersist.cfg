\* Saves, failures and restarts.
SPECIFICATION Spec
CONSTANTS
  MaxVersions = 2
  MaxGen = 2
  MaxOwed = 2
  MaxBoots = 2
INVARIANTS WholeFile DurableOnceSaved SettledFile
PROPERTIES EverySaved
CHECK_DEADLOCK FALSE
