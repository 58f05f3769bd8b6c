SPECIFICATION FairSpec
CONSTANTS
  Messages = {m1}
  Ticks = {t1}
  NoMsg = NoMsg
  MaxAttempts = 2
  MaxSessions = 1
  MaxReloads = 1
PROPERTY SendingIsResumed
CHECK_DEADLOCK FALSE
