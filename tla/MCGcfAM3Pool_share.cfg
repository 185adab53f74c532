SPECIFICATION Spec
CONSTANTS
  Slice = {s1, s2}
  User = {u1}
  Resource = {r1, r2}
  SliverId = {i1, i2}
  Free = Free
  NoSliver = NoSliver
  NoContainer = NoContainer
  MaxTime = 1
  Horizon = 1
  MaxAlloc = 1
  MaxLease = 1
  MaxHold = 1
  RequestTimes = {0}
SYMMETRY Symmetry
VIEW ButReply
INVARIANTS
  LeaseExclusive
  SlicesTracked
PROPERTIES
  OnlyDeleteRemoves
  ShutdownFreezes
  LostOnlyByRefusedAllocate
  ImplementsPool
