CONSTANTS
  Readers = {r1}
  Writers = {w1}
  Observers = {o1}
  Inputs <- MCOneItem
  StackNumbers = {}
  RING_BUFFER_SIZE = 1
  INT_MAX = 0
SPECIFICATION FairSpec
PROPERTIES CallsReturn
