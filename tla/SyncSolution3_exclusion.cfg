CONSTANTS
  Readers = {r1, r2}
  Writers = {w1}
  MaxSurplus = 2
SPECIFICATION Spec
INVARIANT Exclusion
