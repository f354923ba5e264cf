CONSTANTS
  Arrivals = {m1, m2}
  Capacity = 1
  PendingCap = 1
  MaxMutes = 1
  MaxFaults = 2
SPECIFICATION NoticesFairSpec
INVARIANTS NoticesTypeOK PendingFollowsScreen
PROPERTIES ClicksOpenTheirOwn ArrivalsAreNotified
CHECK_DEADLOCK FALSE
