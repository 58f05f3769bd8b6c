\* Four components, one at a time.
SPECIFICATION Spec
CONSTANTS
  n1 = n1  n2 = n2  n3 = n3  c1 = c1  c2 = c2  j1 = j1  j2 = j2
  \* Conversations: one peer, two rows
  Peers = {p1}  MaxRows = 2  Renders = {c1, c2}  Deliveries = {d1}  Announcers = {a1}
  \* NodeStore: three nodes and room for one
  Nodes = {n1, n2, n3}  Linked = {n1}  Cap = 1  PruneEvery = 2
  Hearings = {c1, c2}  Prunes = {j1, j2}  MaxClock = 3
  \* Composer: two conversations
  People = {pa, pb}  Picks = {i1}  Sendings = {c1, c2}
  \* Wipe
  Workers = {x1, x2}
INVARIANTS
  ReadMeansPainted
  StoreBounded
  SentFromHome
  ResidueWasInFlight
SYMMETRY Symmetry
CHECK_DEADLOCK FALSE
