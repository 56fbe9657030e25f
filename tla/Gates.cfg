SPECIFICATION Spec
CONSTANTS
  Durations = {0, 1, 3}
  Counts = {0, 1, 2, 3}
  MaxTime = 11
  Never = Never
  ClockMod = 5
  MaxRecords = 4
  MaxPasses = 5
  MaxSignals = 6
  MaxSuppressed = 2
  WordMod = 16
  Initials = {0, 1, 3, 15}
  Multipliers = {0, 1, 2, 3, 7}
  Maxima = {0, 4, 12, 15}
  AttemptLimits = {0, 2}
  Bases = {0, 3, 15}
  Caps = {0, 6, 15}
INVARIANTS
  TypeOK
  ReadyForetells
  SuppressionJust
  AcceptsBursts
  DelaysKeepToLaw
PROPERTIES
  GatesLimitRate
