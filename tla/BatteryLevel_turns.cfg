CONSTANTS
  Reader = {r1, r2}
  MaxLevel = 2
  Exclusive = TRUE
  Faulty = FALSE
SYMMETRY MCSymmetry
SPECIFICATION Spec
CHECK_DEADLOCK FALSE
INVARIANT Released
PROPERTY KeepsPromise
