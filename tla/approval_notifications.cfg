SPECIFICATION FairSpec
CONSTANTS
  MaxRequests = 2
  MaxCommands = 1
  MaxClicks = 1
  None = None
CHECK_DEADLOCK FALSE
PROPERTIES RequestsAreAnnounced NotificationsSettle NothingAfterStop
