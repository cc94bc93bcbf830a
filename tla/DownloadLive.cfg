SPECIFICATION FairSpec
CONSTANTS
  NTables = 2
  Downloadable = {2}
  Capacity = 2
  Batch = 2
  ChkLastRecord = {0}
  MaxRecord = 3
  MaxCrash = 1
  Trouble = {"reply", "file", "check"}
  MaxFault = 1
  MaxInit = 2
PROPERTIES SessionEnds 
