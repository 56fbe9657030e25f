SPECIFICATION Spec
CONSTANTS
  Sizes = {0, 1, 2}
  Largest = 9
  Nothing = Nothing
  Capacities = {1, 2, 3}
  MaxSamples = 3
  MinReady = 2
  MaxClock = 6
  Labels <- ShortLabels
  Names <- MixedLabels
  Pids = {1, 2, 3, 4}
  Room = 3
  Categories = {x, y, z}
  Bytes <- SmallAmounts
  MaxEntries = 2
  MaxEvents = 3
  MaxCount = 2
  MaxGeneration = 1
  Latches = {l1, l2}
  MaxTriggers = 2
  MaxOffers = 2
  MaxFed = 3
  MaxMoment = 3
  MaxSnapshots = 2
  MaxTicks = 8
  MaxRecords = 2
  Bounds <- SmallBounds
  Substrings = {substr}
  Empty = Empty
  ChainMax = 2
  MaxCalls = 2
INVARIANTS
  TypeOK
  SummariesAgree
  EstimatesAreRecent
  ScansFindExtremes
  TotalsTrue
  TrackersTell
  FiltersSelect
  LatchesHold
PROPERTIES
  StoresSlide
  TablesKeepEntries
  AveragesTrue
