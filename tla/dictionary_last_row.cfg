\* Small tables: the row that holds the last addresses is not read.
CONSTANTS
  None = None
  Unreadable = Unreadable
  Unknown = {"-"}
  Databases <- FewDatabases
  Masks <- MCMasks
SPECIFICATION Spec
INVARIANT AllValuesListed
CHECK_DEADLOCK FALSE
