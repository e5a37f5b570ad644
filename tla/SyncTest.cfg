CONSTANTS
  WriterNumber = 1
  ReaderNumber = 1
  Others = {u1}
  Users <- TestUsers
SPECIFICATION TestSpec
INVARIANTS TypeOK InitBeforeUse
PROPERTIES QuietExit UnloadEnds TestEnds
CHECK_DEADLOCK FALSE
