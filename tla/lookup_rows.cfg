\* Every table of up to four rows that starts at address 0 or 1, every address.
CONSTANTS
  WordMod = 128
  MaxAddr = 4
  MaxRows = 4
  Bases = {6}
  Start0 = {0, 1}
  Databases <- MCDatabases
SPECIFICATION FairSpec
INVARIANTS TypeOK LookupCorrect ProbesInTable
PROPERTIES Halves LookupEnds
