\* One thread: long logs (1 -> 2 -> 4 -> 8 slots), and the liveness properties.
SPECIFICATION ReadableSpec
CONSTANTS
  Junk  = Junk
  Callers = {Main}
  InitCaps = {1, 3}
  Limits = {0, 1, 3}
  MaxReads = 5
INVARIANTS
  LogSound
PROPERTIES
  StopEndsRun
  LimitEndsRun
