SPECIFICATION FairSpec
CONSTANTS
  Proc = {p1, p2, p3}
  Inode = {1, 2, 3}
  NoPid = NoPid
  NoFile = NoFile
  Overlap = FALSE
INVARIANTS TypeOK MutualExclusion LockStands
PROPERTY StaleTakenOver
