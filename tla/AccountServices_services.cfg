\* Signals: equity reports and tolerance changes that overlap; two posts and a restart; a
\* post, a report and a fill, two of them at a time.  The other services: two or three requests at once.
CONSTANTS
  eu = eu  c1 = c1  c2 = c2  p1 = p1  p2 = p2  r1 = r1  r2 = r2  r3 = r3
  t1 = t1  t2 = t2  t3 = t3
  Observed = {"signals", "devices", "quotas", "withdrawals", "checkout"}
  Calls = {c1, c2}
  Posts = {p1, p2}
  Scenes <- AllScenes
  Equities = {7000, 8000}
  Tolerances = {10000, 25000}
  Fills = {900}
  MaxOpen = 900
  Stored <- StoredRows
  Symbols = {eu}
  Bars = {1, 2}
  MaxStarts = 1
  MaxOvertaken = 1
  Widths = {0, 3, 5}
  Instruments <- Specifications
  MinNotional = 1000
  Margins = {200, 900}
  Phones = {"old", "new", "spare"}
  Registrations = {r1, r2}
  Consumers = {r1, r2}
  DeviceLimits = {1, 2}
  UseLimits = {0, 1, 2}
  MaxUses = 3
  NoRow = NoRow
  Clients = {r1, r2}
  StartEquities = {100000}
  Gains <- Profits
  ReportsEquity = {TRUE, FALSE}
  Keys = {"withdrawal"}
  Shares = {1, 2}
  MaxConfigured = 2
  NoAccount = NoAccount
  Checkouts = {r1, r2, r3}
  MaxAttempts = 4
SPECIFICATION AccountSpec
CHECK_DEADLOCK FALSE
INVARIANTS BarFiresOnce SizedToFit DrawdownHalts
INVARIANTS LimitsAreKept LedgerIsKept OneCheckout
