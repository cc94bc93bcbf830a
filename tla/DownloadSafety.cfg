SPECIFICATION Spec
CONSTANTS
  NTables = 2
  Downloadable = {1, 2}
  Capacity = 2
  Batch = 2
  ChkLastRecord = {0, 1}
  MaxRecord = 3
  MaxCrash = 1
  Trouble = {"reply", "file", "check"}
  MaxFault = 1
  MaxInit = 1
INVARIANTS TypeOK NoLoss AtMostOnce OneLinePerCrash ConfComplete
PROPERTIES InOrder NearsEnd KeepsLog
