SPECIFICATION Spec
CONSTANTS
  alice = alice
  bob = bob
  User = {alice, bob}
  Urn = {"s1", "s2"}
  CredLife = 1
  MaxLife = 2
  MaxTime = 2
  MaxGids = 3
  Sites <- MCSites
  Commands <- MCCommands
  MaxCommands = 3
  MaxLost = 1
SYMMETRY MCSymmetry
VIEW MCView
INVARIANTS TypeOK ReportsWhatWas
PROPERTIES KeepsPromises SavedIsCurrent
CHECK_DEADLOCK FALSE
