CONSTANTS
  Threads = {t1, t2}
  Arguments <- MCArguments
  MAX_CLIP = 2
SPECIFICATION Spec
INVARIANT CountIsStored
