SPECIFICATION Spec
CONSTANTS
  Sizes = {0, 1, 2, 3}
  MaxTime = 2
  CounterMod = 7
  BaseKb = 1
  MaxLevels = 3
  MaxTicks = 1
  MaxChecks = 1
  Threads = {t1}
  Readings = {1}
  SeqMod = 3
  Nobody = Nobody
  MaxProbes = 1
  Climbs = {0}
  MaxClimb = 1
  EscalateConfigs <- FourConfigs
  CascadeLevels <- ThreeLevels
  Longs <- FourLongs
  MaxReports = 1
PROPERTY SentinelTripsOnTransitions
