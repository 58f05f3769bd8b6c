\* Six components, one at a time.
SPECIFICATION Spec
CONSTANTS
  \* PathRequest: two callers that overwrite each other's entry, one that joins
  Callers = {r1, r2, r3}  NoCaller = NoCaller
  \* PnSync
  Syncs = {1, 2}  Blobs = {b1, b2}  PerRound = 1  MaxRounds = 3
  \* ConfigClient
  Handlers = {h1, h2}  MaxOnAir = 2
  \* RNodeCommands
  o1 = o1  o2 = o2  o3 = o3
  Orders = {o1, o2, o3}
  CommandOf <- MCCommandOf
  \* Dfu
  Chunks = 2  MaxAttempts = 2
  \* Bridge
  c1 = c1  c2 = c2  c3 = c3
  Conns = {c1, c2, c3}
  AddressOf <- MCAddressOf
  MaxConns = 2  MaxPerIP = 1
INVARIANTS
  TypeOK
  PurgedWasTried
  FlashIsWhole
  EntryIsLive
PROPERTIES
  SyncEnds
  CallsSettle
  BridgeEnds
  OwnersAnswered
  JoinersAnswered
CHECK_DEADLOCK FALSE
