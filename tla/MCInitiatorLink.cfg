\* Two openings of a link to one destination, two proofs in flight at once.
SPECIFICATION FairSpec
CONSTANTS
  Callers = {c1, c2}
  NoCaller = NoCaller
  Handlers = {h1, h2}
  NoHandler = NoHandler
INVARIANTS
  ResolvedIsUsable
  LinkIsMutual
PROPERTY OpenSettles
