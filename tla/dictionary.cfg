\* Databases of two rows that are read in one table or in both, five masks.
CONSTANTS
  None = None
  Unreadable = Unreadable
  Unknown = {"-"}
  Databases <- MCDatabases
  Masks <- MCMasks
SPECIFICATION Spec
INVARIANTS TypeOK ResultExact CastsSound FirstLongName
CHECK_DEADLOCK FALSE
