\* A file replaced by a longer one while it is mapped.
CONSTANTS
  A = A
  B = B
  C = C
  D = D
  Loc = {l1, l2, l3}
  Node = {n1, n2, n3}
  Path = {f1, f2}
  Db = {A, B, C, D}
  DbSize <- MCDbSize
  Extent <- MCExtent
  MinSize = 2
  MaxSize = 4
  None = None
SPECIFICATION Spec
SYMMETRY Symmetry
INVARIANT MemoryCoversFile
