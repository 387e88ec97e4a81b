\* Every text there and back, twice.
CONSTANTS
  FieldWord = 65536
  TailLength = 15
  Field = {0, 43981}
  MaxPort = 65535
  Word = 100000
  Written <- MCWritten
SPECIFICATION Spec
INVARIANTS
  RoundTrip
  AddressKept
  ValidExactly
PROPERTIES
  Settles
\* The plugin stops after two trips.
CHECK_DEADLOCK FALSE
