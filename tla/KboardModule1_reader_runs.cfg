CONSTANTS
  Readers = {r1, r2}
  Writers = {w1}
  Observers = {}
  Inputs <- MCOneItem
  StackNumbers = {}
  RING_BUFFER_SIZE = 2
  INT_MAX = 0
SPECIFICATION Spec
INVARIANT PerformReaderExact
