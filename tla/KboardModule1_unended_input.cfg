CONSTANTS
  Readers = {}
  Writers = {w1}
  Observers = {}
  Inputs <- MCUnendedItems
  StackNumbers = {2}
  RING_BUFFER_SIZE = 2
  INT_MAX = 0
SPECIFICATION Spec
INVARIANT StoredAsWritten
