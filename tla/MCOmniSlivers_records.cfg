CONSTANTS
  a = a
  b = b
  a1 = a1
  a2 = a2
  AM = {a, b}
  Sliver = {a1, a2}
  Home <- MCHome
  MaxTime = 2
  Invocation <- MCInvocation
  MaxBusyRetries = 1
  NoAM = NoAM
SPECIFICATION Spec
CHECK_DEADLOCK FALSE
INVARIANT
  RecordFollowsAnswer
  RecordIsTrue
PROPERTY
  NothingForgotten
  CommandsEnd
