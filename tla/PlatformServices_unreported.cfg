\* The jobs of one terminal only.
CONSTANTS
  r1 = r1  r2 = r2  k1 = k1  k2 = k2  s1 = s1
  Requests = {r1, r2}
  Arrivals <- Jobs
  Tokens = {k1, k2}
  MaxPasswords = 2
  MaxSessions = 2
  MaxSecrets = 2
  MaxKeys = 2
  Members = {1}
  FreshIds = {2, 3}
  Pairs <- OurPairs
  Tables <- Images
  FoundingBooks <- Founding
  OptimisedIds <- Optimised
  MaxSymbols = 24
  Canonical <- Matrix
  ChatAccounts = {1, 2}
  Names = {1, 2}
  Sockets = {s1}
  ChatPage = 1
  RateMax = 1
  RateWindow = 1
  MaxMessages = 3
  MaxReports = 1
  MaxChatTime = 1
  DaysBefore = {1}
  MaxDay = 2
  MaxNotices = 2
  MaxLapses = 1
  Captures = {1, 2}
  MaxFrames = 1
  MaxScreens = 2
  Height = 12
  Levels <- Bands
  Touch = 1
  Lookback = 6
  Charts <- BandCharts
  FailureThreshold = 3
  MaxFailures = 4
  Prices <- BarPrices
  Atrs = {4, 8}
  MaxHold = 3
  MaxEntries = 2
  Tickets = {1, 2, 3}
  Lots = {1, 3}
  LotStep = 2
  LotMin = 2
  LotMax = 4
  Fillings = 3
  MaxJobs = 2
  MaxStored = 3
  Adapters = {1, 2, 3}
  MirrorSignals = {1, 2}
  MirrorRisk <- Risks
  SlaveIds = {1, 2, 3}
  SlaveTiers = {1, 2}
SPECIFICATION PlatformSpec
INVARIANT TradesAreReported
CHECK_DEADLOCK FALSE
