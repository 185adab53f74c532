CONSTANTS
  left = left
  middle = middle
  right = right
  hl = hl
  h1 = h1
  h2 = h2
  hr = hr
  Agg = {left, middle, right}
  Hop = {hl, h1, h2, hr}
  Tag = {t1, t2}
  AnyTag = AnyTag
  NoTag = NoTag
  NoHop = NoHop
  NoAgg = NoAgg
  Owner <- MCOwner
  Translates = {}
  Kind <- EndsKind
  Narrow = {left}
  Slow = {left}
  AltUrl = {}
  UserRequested = {left, right}
  ScsRange <- AllTags
  Workflows <- AnyOrder
  Faults = {"timeout", "scs", "vlan", "doubt", "fatal", "again", "other url", "once more",
            "malformed", "lost", "otherTag", "no tag", "broken", "unparsable", "poll",
            "delete", "list", "taken"}
  Options <- NoOptions
  MaxTries = 2
  MaxSiteTries = 2
  MaxPicks = 2
  MaxDcnPicks = 2
  MaxScsCalls = 2
SPECIFICATION FairSpec
CHECK_DEADLOCK FALSE
INVARIANT
  TagsAgree
PROPERTIES
  ImplementsSchedule
  Terminates
