\* Either component alone. Outbound: two rows, one tick at a time, the radio
\* staying up or going down for good, no reload. Resource: three segments of
\* one hash each, and an advertisement that is repeated.
SPECIFICATION MCSpec
CONSTANTS
  \* Outbound
  Messages = {m1, m2}
  Ticks = {t1}
  NoMsg = NoMsg
  MaxAttempts = 2
  MaxSessions = 0
  MaxReloads = 0
  \* Resource
  PartCount = 3
  SegLen = 1
  InitialWindow = 1
  MaxWindow = 2
  StallRetries = 1
  MaxHashing = 1
  Starts = 2
INVARIANTS
  DeliveredIsReal
  TransmittedIsTracked
  DeliveredIsSent
  DeliveredOnce
  SenderKnows
  NeverUnwatched
PROPERTIES
  RowsSettle
  ReceiverEnds
CHECK_DEADLOCK FALSE
