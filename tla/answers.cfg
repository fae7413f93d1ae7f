\* All kinds of addresses without columns, and all kinds of strings at one address.
CONSTANTS
  ByteBits = 2
  WordBytes = 2
  DecimalSize = 6
  Garbage <- MCGarbage
  Field = {0, 1, 2, 3, 4, 5}
  Floats = {3}
  ZeroFields = {3, 5}
  LongName = 1
  Masks <- MCMasks
  Databases <- MCDatabases
  Asked <- MCAsked
SPECIFICATION Spec
INVARIANTS TypeOK AddressExact DecimalInBuffer ReadsInside ReadsExact
