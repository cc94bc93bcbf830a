SPECIFICATION FairSpec
CONSTANTS
  File <- MCFile
  Swath = 2
  Skew = 9
  FirstNbr = 252
  Rings = 1
  Turns = 2
  Retries = 1
  MaxAsk = 1
  MaxLoss = 1
INVARIANTS TypeOK Joined ClockRight FileWhole
PROPERTY Ends
CHECK_DEADLOCK FALSE
