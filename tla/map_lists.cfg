\* Two of the three lists, three names, four nodes.
CONSTANTS
  Node = {n1, n2, n3, n4}
  Type = {cache, shared}
  Name = {a, b, c}
  MaxUsers = 2
  NULL = NULL
SPECIFICATION Spec
SYMMETRY Symmetry
INVARIANTS TypeOK LinksSound
PROPERTY ImplementsTable
