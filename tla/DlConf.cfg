SPECIFICATION Spec
CONSTANTS
  Letter <- MCLetter
  Tables <- MCTables
  Cursor <- MCCursor
  Comment <- MCComment
  Junk <- MCJunk
  MaxSession = 4
  MaxCrash = 1
  MaxComment = 1
INVARIANTS TypeOK Whole
PROPERTIES FirstPart RoundTrip
CHECK_DEADLOCK FALSE
