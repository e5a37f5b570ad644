CONSTANTS
  Copier = c
  Paster = p
  Threads = {c, p}
  Arguments <- Ints
  MAX_CLIP = 2
  INT_MAX = 5
SPECIFICATION ProgramsSpec
INVARIANTS NoValidationFault NumbersInTransit
PROPERTY AllNumbersPass
