\* The sentence of heartbeat.h about on_dead.
SPECIFICATION Spec
CONSTANTS
  Intervals  = {1}
  Thresholds = {1, 3}
  Callbacks  = {"none", "log"}
  TicksPerMs = 2
  CounterMod = 5
PROPERTIES
  CalledOnTransition
