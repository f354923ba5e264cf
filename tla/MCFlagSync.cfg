SPECIFICATION FairSpec
CONSTANTS
  m1 = m1
  m2 = m2
  f1 = f1
  f2 = f2
  None = None
  Msgs = {m1, m2}
  Folders = {f1, f2}
  FolderOf <- MCFolderOf
  Latest = m2
  Handlers = {h1, h2}
  QueueCap = 1
  MaxRequests = 2
  MaxChanges = 1
  MaxFaults = 1
CHECK_DEADLOCK FALSE
INVARIANTS
  TypeOK
  DifferencesAreUnderWay
  StoresGoToTheirFolder
PROPERTY
  FlagsConverge
