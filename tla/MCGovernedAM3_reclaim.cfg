SPECIFICATION GovernedFairSpec
CONSTANTS
  Slice = {s1}
  User = {u1}
  Resource = {r1}
  SliverId = {i1}
  NoSliver = NoSliver
  NoContainer = NoContainer
  MaxTime = 2
  Horizon = 1
  MaxAlloc = 1
  MaxLease = 1
  MaxHold = 1
  RequestTimes = {0}
  Project <- MCProject
  AuthorityOf <- MCAuthorityOf
  Policies <- MCTrust
PROPERTIES
  Reclaimed
