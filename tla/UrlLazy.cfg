\* Two objects, every order of four calls.
CONSTANTS
  FieldWord = 65536
  TailLength = 7
  MaxPort = 65535
  Word = 100000
  url1 = url1
  url2 = url2
  Obj = {url1, url2}
  Texts <- MCTexts
  Edits <- MCEdits
  Queries <- MCQueries
  Entries <- MCEntries
  KeepsReference = FALSE
  MaxCalls = 4
SYMMETRY Symmetry
SPECIFICATION Spec
INVARIANTS
  BuiltIsCurrent
PROPERTIES
  LooksEager
\* The calls are bounded.
CHECK_DEADLOCK FALSE
