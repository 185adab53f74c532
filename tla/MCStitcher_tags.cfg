CONSTANTS
  left = left
  middle = middle
  right = right
  hl = hl
  h1 = h1
  h2 = h2
  hr = hr
  Agg = {left, middle, right}
  Hop = {hl, h1, h2, hr}
  Tag = {t1, t2, t3}
  AnyTag = AnyTag
  NoTag = NoTag
  NoHop = NoHop
  NoAgg = NoAgg
  Owner <- MCOwner
  Translates = {}
  Kind <- TagsKind
  Narrow = {}
  Slow = {}
  AltUrl = {}
  UserRequested = {left, right}
  ScsRange <- AllTags
  Workflows <- MiddleFirst
  Faults = {"vlan"}
  Options <- NoOptions
  MaxTries = 2
  MaxSiteTries = 2
  MaxPicks = 2
  MaxDcnPicks = 2
  MaxScsCalls = 1
SPECIFICATION Spec
SYMMETRY Symmetry
CHECK_DEADLOCK FALSE
INVARIANT
  TagsAgree
