\* Two processes open one valid database; nobody dies, no call fails.
CONSTANTS
  A = A
  B = B
  C = C
  Proc = {p1, p2}
  Loc = {l1}
  Node = {n1}
  Name = {nm1}
  Ino = {i1, i2}
  Db = {A}
  DbSize <- MCDbSize
  PageSize <- MCPageSize
  FFAt <- MCFFAt
  Extent <- MCExtent
  Fallible = {}
  MaxCrash = 0
  None = None
SPECIFICATION Spec
PROPERTY LoadedNameKept
