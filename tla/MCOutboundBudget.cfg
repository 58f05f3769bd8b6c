\* One row, a tick that the interval starts before the earlier one has ended;
\* no other session and no reload.
SPECIFICATION Spec
CONSTANTS
  Messages = {m1}
  Ticks = {t1, t2}
  NoMsg = NoMsg
  MaxAttempts = 2
  MaxSessions = 0
  MaxReloads = 0
INVARIANT TransmissionsBounded
CHECK_DEADLOCK FALSE
