\* Two documents, nested elements, indices in and out of range, and files
\* written from documents that do not all print.
CONSTANTS
  p1 = p1
  d1 = d1
  d2 = d2
  h1 = h1
  h2 = h2
  f1 = f1
  NoDoc = NoDoc
  Plugin = {p1}
  DocId = {d1, d2}
  IterId = {}
  HandleId = {h1, h2}
  Path = {f1}
  Careful = FALSE
  MaxSize = 2
  Key = {1}
  Scalar <- ValueScalar
  Text <- ValueText
  Index <- ValueIndex
  Stored <- ValueStored
  Failing = {}
  MaxFaulty = 0
SPECIFICATION Spec
SYMMETRY Symmetry
INVARIANTS
  FilesReadBack
PROPERTIES
  ErrorsOnlyPad
  ReadsOnlyPad
  TornOnlyOnError
