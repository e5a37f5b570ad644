CONSTANTS
  Readers = {r1, r2, r3}
  Writers = {w1, w2, w3}
SPECIFICATION FairSpec
INVARIANTS TypeOK Exclusion BinarySemaphores ReadersShare LockInvariant
PROPERTIES RWSpec ReaderEntry WriterEntry
