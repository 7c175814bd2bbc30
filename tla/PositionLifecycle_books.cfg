\* The books of one account, with the portfolio service always there and an executor
\* that is restarted again and again.
CONSTANTS
  s1 = s1  s2 = s2  s3 = s3
  Signals = {s1, s2, s3}
  RiskOf <- Risks3
  Labelled = {s1, s2}
  Several = {s2}
  Portfolio = {TRUE}
SPECIFICATION FairSpec
INVARIANT LedgerMatchesRows
PROPERTY LedgerRefined
PROPERTY ClosedRiskIsReleased
