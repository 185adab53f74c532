CONSTANTS
  Agg = {a1, a2, a3, a4}
  NoAgg = NoAgg
SPECIFICATION Spec
SYMMETRY Symmetry
INVARIANTS NoCycle LoopIsReal DependenciesKept
CHECK_DEADLOCK FALSE
