SPECIFICATION FairSpec
CONSTANTS
  Intervals  = {0, 2}
  Thresholds = {0, 1, 3, 4}
  Callbacks  = {"none", "log", "beat", "reset"}
  TicksPerMs = 2
  CounterMod = 5
INVARIANTS
  TypeOK
  DeathDeserved
PROPERTIES
  NoResurrection
  SilenceDetected
