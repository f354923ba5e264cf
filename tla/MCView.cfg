CONSTANTS
  p1 = p1
  Threads = {t1, t2} Unread = {t1} Profiles = {p1, p2}
  ProfileOf <- MCProfileOf
  MaxTasks = 2
  Capacity = 1
  MaxMail = 1
  MaxMoves = 2
  MaxFaults = 1
SPECIFICATION ViewFairSpec
INVARIANTS ViewTypeOK QuietViewIsCurrent ReadWasSeen
PROPERTIES OnlyTheUserOpens Settles
CHECK_DEADLOCK FALSE
