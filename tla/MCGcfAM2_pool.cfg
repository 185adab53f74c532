SPECIFICATION MCSpec
CONSTANTS
  Slice = {s1, s2}
  User = {u1, u2}
  Resource = {r1, r2, r3}
  NoSlice = NoSlice
  NoContainer = NoContainer
  MaxTime = 2
  Horizon = 2
  MaxLease = 1
  RequestTimes = {0, 1}
  MaxHold = 2
SYMMETRY Symmetry
VIEW ButReply
INVARIANTS
  CatalogIsSlice
  Partition
  OneOwner
PROPERTIES
  ShutdownHolds
  LostOnlyByDoubleRequest
