CONSTANTS
  Threads = {t1, t2}
  Arguments <- MCArguments
  MAX_CLIP = 2
SPECIFICATION FairQuietSpec
INVARIANTS TypeOK MutualExclusion PasteNeverInvalid
PROPERTIES ClipSpec CallsReturn
