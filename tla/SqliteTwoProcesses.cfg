\* Two server processes on one file.
SPECIFICATION Spec
CONSTANTS
  Processes = {p, q}
  Tokens = {tok1, tok2}
  TTL = 1
  MaxTime = 3
INVARIANTS TypeOK
PROPERTIES HonouredInWindow SweptStaysSwept
