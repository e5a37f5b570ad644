CONSTANTS
  Readers = {r1}
  Writers = {w1, w2}
  Observers = {}
  Inputs <- MCInputs
  StackNumbers = {2}
  RING_BUFFER_SIZE = 2
  INT_MAX = 0
SPECIFICATION Spec
INVARIANTS TypeOK ReaderSeesQueue PerformWriterExact CountNearSlots
PROPERTY ClipSpec
