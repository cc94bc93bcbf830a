SPECIFICATION Spec
CONSTANTS
  NTables = 2
  Downloadable = {1}
  Capacity = 2
  Batch = 2
  ChkLastRecord = {1}
  MaxRecord = 3
  MaxCrash = 0
  Trouble = {"check"}
  MaxFault = 1
  MaxInit = 1
INVARIANT ResumesBehindLastLine
