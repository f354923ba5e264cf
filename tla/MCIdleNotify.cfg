SPECIFICATION FairSpec
CONSTANTS
  BufferCap = 2
  NotifsCap = 1
  MaxArrivals = 4
  MaxFaults = 2
\* Idle may block for good, see Blocked.
CHECK_DEADLOCK FALSE
INVARIANTS
  TypeOK
  QuietIsCaughtUp
  DoneBeforeCommands
PROPERTY
  ArrivalsAreSeen
