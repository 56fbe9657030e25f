SPECIFICATION Spec
CONSTANTS
  Sizes = {0, 1, 2, 4}
  MaxTime = 5
  CounterMod = 7
  BaseKb = 1
  MaxLevels = 3
  MaxTicks = 6
  MaxChecks = 5
  Threads = {t1, t2}
  Readings = {1, 4}
  SeqMod = 3
  Nobody = Nobody
  MaxProbes = 3
  Climbs = {0, 10, 15, 150}
  MaxClimb = 4
  EscalateConfigs <- FourConfigs
  CascadeLevels <- ThreeLevels
  Longs <- FourLongs
  MaxReports = 3
INVARIANTS
  TypeOK
  CascadeFiresOnce
  LimitsCountTruly
  CeilingHasHysteresis
  ProbesTell
  VerdictsMonotone
  TrendsTell
PROPERTIES
  NothingLost
