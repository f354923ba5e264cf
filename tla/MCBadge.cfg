CONSTANTS
  Messages = {m1, m2}
  Capacity = 1
  MaxSilent = 1
  MaxFaults = 2
SPECIFICATION BadgeFairSpec
INVARIANTS BadgeTypeOK 
PROPERTY BadgeConverges
CHECK_DEADLOCK FALSE
