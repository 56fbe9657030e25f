\* The samples that a test calls growing.
SPECIFICATION Spec
CONSTANTS
  Sizes = {0, 1, 2, 3}
  MaxTime = 2
  CounterMod = 7
  BaseKb = 1
  MaxLevels = 3
  MaxTicks = 1
  MaxChecks = 1
  Threads = {t1}
  Readings = {1}
  SeqMod = 3
  Nobody = Nobody
  MaxProbes = 1
  Climbs = {1000, 1050, 1100, 1150, 1200, 1250}
  MaxClimb = 6
  EscalateConfigs <- FourConfigs
  CascadeLevels <- ThreeLevels
  Longs <- FourLongs
  MaxReports = 1
INVARIANTS
  SteadyClimbGrows
