\* Labels that differ only beyond what an entry keeps.
SPECIFICATION Spec
CONSTANTS
  Sizes = {0, 1}
  Largest = 9
  Nothing = Nothing
  Capacities = {2}
  MaxSamples = 1
  MinReady = 1
  MaxClock = 1
  Labels <- MixedLabels
  Names <- MixedLabels
  Pids = {1}
  Room = 3
  Categories = {x}
  Bytes <- SmallAmounts
  MaxEntries = 2
  MaxEvents = 1
  MaxCount = 1
  MaxGeneration = 1
  Latches = {l1}
  MaxTriggers = 1
  MaxOffers = 1
  MaxFed = 1
  MaxMoment = 1
  MaxSnapshots = 1
  MaxTicks = 4
  MaxRecords = 1
  Bounds <- SmallBounds
  Substrings = {substr}
  Empty = Empty
  ChainMax = 1
  MaxCalls = 1
INVARIANTS
  OneEntryPerLabel
