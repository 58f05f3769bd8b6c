\* Two copies of one message, handled together.
SPECIFICATION InboundSpec
CONSTANTS
  Copies = {1, 2}
  Texts = {t1}
  Reactions = {}
  Target = t1
  Beacons = {}
  MaxRecent = 2
  MaxReloads = 0
INVARIANT OneRowPerMessage
CHECK_DEADLOCK FALSE
