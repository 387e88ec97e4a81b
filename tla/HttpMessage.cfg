\* Three lengths, so that a wrong one is not the body's by chance.
CONSTANTS
  Body = {0, 3, 5}
  NoLength = NoLength
SPECIFICATION MessageSpec
INVARIANTS
  FramedOnWire
\* One message.
CHECK_DEADLOCK FALSE
