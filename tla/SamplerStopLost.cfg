\* The sentence of sampler.h about sampler_stop, with one thread.
SPECIFICATION ReadableSpec
CONSTANTS
  Junk  = Junk
  Callers = {Main}
  InitCaps = {1}
  Limits = {0}
  MaxReads = 1
PROPERTIES
  StopHeard
