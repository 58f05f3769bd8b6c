SPECIFICATION PathFairSpec
CONSTANTS
  Callers = {c1, c2}
  NoCaller = NoCaller
PROPERTY CallersAnswered
