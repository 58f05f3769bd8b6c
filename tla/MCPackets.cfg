\* Nine components, one at a time.
SPECIFICATION Spec
CONSTANTS
  \* AlnRouter: two nodes; two announces and a datagram of one identity, a link of another
  a1 = a1  a2 = a2  d1 = d1  l1 = l1  k1 = k1  f1 = f1  b1 = b1
  idX = idX  idY = idY  hashZ = hashZ
  Packets = {a1, a2, d1, l1, k1, f1, b1}
  KindOf <- MCKindOf
  DestOf <- MCDestOf
  Ids = {idX, idY}  Links = {}  Hashes = {hashZ}  Nodes = {n1, n2}  Nobody = Nobody
  MaxPending = 1  MaxReverse = 1  MaxSends = 2  MaxItems = 2
  \* Inbound
  Copies = {1, 2, 3}  Texts = {t1, t2}  Reactions = {r1}  Target = t1  Beacons = {g1}
  MaxRecent = 1  MaxReloads = 1
  \* ResponderLink
  Requests = {1, 2}  Receivers = {h1, h2}  NoLink = NoLink
  \* Announcing
  Calls = {c1, c2}  Tags = {u1, u2}  RingDepth = 1  DedupMax = 1
  MaxRotations = 2  MaxRestarts = 2
  \* NomadNet
  Navs = {v1, v2}  NomadNodes = {m1, m2}  Paths = {p, q}
  \* Session
  MaxIfaces = 3  Presses = {s1, s2}  Goodbyes = {e1, e2}
  \* Framing
  MaxBytes = 2  MaxPackets = 2
  \* Codec
  HashLength = 2
  \* Transports
  Writes = {w1, w2, w3}  ChunkBytes = 2
INVARIANTS
  TypeOK
  BufferedInOnePlace
  BufferedIsUnresolved
  PeersGreeted
  LinkProofMeansStored
  CopiesCounted
  ProofsAgree
  AnnouncedIsKept
  ReadyIsDriven
  OneLossSpoilsOne
  WholeOrNothing
  AloneArrives
PROPERTY
  PageMatchesRequest
SYMMETRY Symmetry
CHECK_DEADLOCK FALSE
