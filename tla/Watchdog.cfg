\* Read at once or every 2 ms; one limit, the other, both or none; every
\* callback.
SPECIFICATION FairSpec
CONSTANTS
  Intervals = {0, 2}
  RssLimits = {0, 1}
  VmsLimits = {0, 1}
  MaxConsecutives = {0, 1, 3}
  Sizes = {0, 1, 2}
  CounterMod = 5
INVARIANTS
  TypeOK
  StateReflectsReads
PROPERTIES
  RecoveryReported
  BreachBecomesCritical
