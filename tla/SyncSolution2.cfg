CONSTANTS
  Readers = {r1, r2, r3}
  Writers = {w1, w2}
SPECIFICATION FairSpec
INVARIANTS TypeOK Exclusion BinarySemaphores
PROPERTIES WritersFirst RWSpec ReaderEntry WriterEntry
