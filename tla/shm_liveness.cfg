\* Clients that keep opening; the loader of a segment may die.
CONSTANTS
  A = A
  B = B
  C = C
  Proc = {p1, p2}
  Loc = {l1}
  Node = {n1}
  Name = {nm1}
  Ino = {i1, i2}
  Db = {A, C}
  DbSize <- MCDbSize
  PageSize <- MCPageSize
  FFAt <- MCFFAt
  Extent <- MCExtent
  Fallible = {}
  MaxCrash = 1
  None = None
SPECIFICATION RetrySpec
PROPERTIES CallsReturn StaleRecovers
