SPECIFICATION GovernedSpec
CONSTANTS
  Slice = {s1, s2}
  User = {u1}
  Resource = {r1, r2}
  SliverId = {i1, i2}
  NoSliver = NoSliver
  NoContainer = NoContainer
  MaxTime = 2
  Horizon = 2
  MaxAlloc = 1
  MaxLease = 1
  MaxHold = 1
  RequestTimes = {0, 1}
  Project <- MCProject
  AuthorityOf <- MCAuthorityOf
  Policies <- MCQuotas
SYMMETRY Symmetry
VIEW ButReply
INVARIANTS
  TypeOK
  NoSliverOutlivesSlice
  LeaseBounded
  QuotasKept
PROPERTIES
  CallsExpire
