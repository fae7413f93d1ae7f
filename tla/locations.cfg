\* Three objects, two paths, files replaced and removed at any time.
CONSTANTS
  A = A
  B = B
  C = C
  D = D
  Loc = {l1, l2, l3}
  Node = {n1, n2}
  Path = {f1, f2}
  Db = {A, B, C, D}
  DbSize <- MCDbSize
  Extent <- MCExtent
  MinSize = 2
  MaxSize = 4
  None = None
SPECIFICATION AddonSpec
SYMMETRY Symmetry
INVARIANTS ObjectsOK RefCountExact OpenIsOwned OccupantsExact LastInitAnswers
PROPERTIES FirstReadsCurrent ContentsStable InitReadsCurrent
