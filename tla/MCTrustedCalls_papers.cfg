CONSTANTS
  Gid <- MCGid
  Root = {"geni", "far"}
  Authority = {"geni", "proj", "far"}
  Hrn <- MCHrn
  SignedBy <- MCSignedBy
  Presents <- MCPresents
  CertEnd <- MCCertEnd
  User = {"alice", "bob"}
  Slice = {"slice"}
  Method = {"Allocate", "Shutdown"}
  Authorizers = {"sfa"}
  ForeignRights <- MCForeignRights
  Signer = {"far", "alice"}
  Ends = {0, 1}
  MaxTime = 1
  MaxRoots = 1
  MaxForeign = 2
  MaxStatements = 1
  MaxPapers = 3
SPECIFICATION Spec
INVARIANTS
  OnlyEntitled
  OursAreHonoured
  SpokenForAlike
CHECK_DEADLOCK FALSE
