SPECIFICATION Spec
CONSTANTS
  Messages = {m1}
  Ticks = {t1}
  NoMsg = NoMsg
  MaxAttempts = 2
  MaxSessions = 0
  MaxReloads = 0
PROPERTY DeliveredIsFinal
CHECK_DEADLOCK FALSE
