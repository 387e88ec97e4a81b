\* Two iterators over one object of up to three keys.
CONSTANTS
  p1 = p1
  d1 = d1
  i1 = i1
  i2 = i2
  h1 = h1
  h2 = h2
  h3 = h3
  NoDoc = NoDoc
  Plugin = {p1}
  DocId = {d1}
  IterId = {i1, i2}
  HandleId = {h1, h2, h3}
  Path = {}
  Careful = FALSE
  MaxSize = 3
  Key = {1, 2, 3}
  Scalar <- NoScalar
  Text <- IterText
  Index = {}
  Stored <- Leaf
  Failing = {}
  MaxFaulty = 0
SPECIFICATION Spec
SYMMETRY Symmetry
INVARIANTS
  TypeOK
  IteratorsStand
  IterationComplete
PROPERTIES
  NoRevisit
