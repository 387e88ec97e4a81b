\* Two plugins that keep to the discipline share handles; every creation step may
\* fail.
CONSTANTS
  p1 = p1
  p2 = p2
  d1 = d1
  d2 = d2
  i1 = i1
  h1 = h1
  h2 = h2
  h3 = h3
  f1 = f1
  NoDoc = NoDoc
  Plugin = {p1, p2}
  DocId = {d1, d2}
  IterId = {i1}
  HandleId = {h1, h2, h3}
  Path = {f1}
  Careful = TRUE
  MaxSize = 1
  Key = {1}
  Scalar <- NoScalar
  Text <- HandleText
  Index <- HandleIndex
  Stored <- Leaf
  Failing = {"ObjectCreate", "ArrayCreate", "LoadFromString", "LoadFromFile", "GetResponseBodyAsJSON", "Get", "CreateIterator"}
  MaxFaulty = 2
SPECIFICATION Spec
SYMMETRY Symmetry
INVARIANTS
  HandlesResolve
  LeakOnlyOnFault
  CarefulIsDefined
