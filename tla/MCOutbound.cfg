\* One row, two overlapping ticks beside sendMessage's own call, the radio
\* going down and up again, one reload.
SPECIFICATION Spec
CONSTANTS
  Messages = {m1}
  Ticks = {t1, t2}
  NoMsg = NoMsg
  MaxAttempts = 2
  MaxSessions = 1
  MaxReloads = 1
SYMMETRY TickSymmetry
INVARIANT OverspentByOverlap
PROPERTIES
  DeletedStaysDeleted
  KeepsContract
CHECK_DEADLOCK FALSE
