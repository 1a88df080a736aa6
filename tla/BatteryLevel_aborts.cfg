CONSTANTS
  Reader = {r1}
  MaxLevel = 3
  Exclusive = TRUE
  Faulty = TRUE
SPECIFICATION FairSpec
CHECK_DEADLOCK FALSE
INVARIANTS TypeOK MeasureInv CleanReadingTrue
PROPERTY MeasurementEnds
