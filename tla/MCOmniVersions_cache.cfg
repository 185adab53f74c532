SPECIFICATION Spec
CONSTANTS
  Proc = {p1, p2}
  u1 = u1
  u2 = u2
  u3 = u3
  old = old
  new = new
  Url = {u1, u2, u3}
  Order <- MCOrder
  Version = {1, 2, 3}
  Invocation <- MCInvocation
  Line <- MCLine
  Server <- MCServer
  Says <- MCSays
  Down <- MCDown
  Started <- MCStart
  Configured = {}
  Registry = {u1, u2, u3}
  CacheAge = 0
  MaxTime = 1
  MaxFaults = 1
  Replacement <- MCReplacement
  MaxCommands = 2
SYMMETRY MCSymmetry
INVARIANTS SpokeRecently
PROPERTIES SwitchNeverLoses
CHECK_DEADLOCK FALSE
