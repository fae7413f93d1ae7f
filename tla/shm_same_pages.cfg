\* Two databases with different sizes and the same number of pages.
CONSTANTS
  A = A
  B = B
  C = C
  Proc = {p1, p2}
  Loc = {l1, l2}
  Node = {n1, n2}
  Name = {nm1}
  Ino = {i1, i2}
  Db = {A, B}
  DbSize <- MCDbSize
  PageSize <- MCPageSize
  FFAt <- MCFFAt
  Extent <- MCExtent
  Fallible = {}
  MaxCrash = 0
  None = None
SPECIFICATION Spec
SYMMETRY Symmetry
INVARIANT AttachedComplete
