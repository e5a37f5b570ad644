CONSTANTS
  Readers = {r1, r2}
  Writers = {w1, w2}
  MaxSurplus = 2
SPECIFICATION FairSpec
INVARIANTS TypeOK CountsExact
PROPERTIES ReaderEntry WriterEntry
CHECK_DEADLOCK FALSE
