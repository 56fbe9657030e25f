\* Two threads and one stop flag.
SPECIFICATION Spec
CONSTANTS
  Junk  = Junk
  Callers = {Main, Other}
  InitCaps = {1}
  Limits = {0, 2}
  MaxReads = 3
SYMMETRY CallerSymmetry
INVARIANTS
  TypeOK
  StopLatency
PROPERTIES
  ReturnsWhatItAppended
  ImplementsSession
