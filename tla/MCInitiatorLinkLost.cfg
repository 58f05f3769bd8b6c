SPECIFICATION Spec
CONSTANTS
  Callers = {c1}
  NoCaller = NoCaller
  Handlers = {h1}
  NoHandler = NoHandler
INVARIANT LostIsForgotten
