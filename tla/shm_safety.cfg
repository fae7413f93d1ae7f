\* Two processes with two locations each, a valid and a corrupt database.
CONSTANTS
  A = A
  B = B
  C = C
  Proc = {p1, p2}
  Loc = {l1, l2}
  Node = {n1, n2}
  Name = {nm1}
  Ino = {i1, i2}
  Db = {A, C}
  DbSize <- MCDbSize
  PageSize <- MCPageSize
  FFAt <- MCFFAt
  Extent <- MCExtent
  Fallible = {"shm_open", "ftruncate", "fstat", "mmap", "fread"}
  MaxCrash = 1
  None = None
SPECIFICATION Spec
SYMMETRY Symmetry
INVARIANTS TypeOK RefCountExact OneListedNode LoadedByOne AttachedComplete MappedOnce
PROPERTIES ContentStable KeepsPromise
