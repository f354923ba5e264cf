CONSTANTS
  BatchSize = 2
  QueueCap = 2
  CondStore = TRUE
  Panics = TRUE
  ModSeqRestarts = FALSE
  MaxUid = 3
  MaxModSeq = 4
  MaxEpoch = 2
  MaxFaults = 3
SPECIFICATION FairSpec
INVARIANTS
  TypeOK
  NoneSkipped
  FlagsUpToWatermark
PROPERTY
  MailArrives
\* The writer does not come back from a panic: a pass may wait for it for ever.
CHECK_DEADLOCK FALSE
