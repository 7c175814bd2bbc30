\* Requests that may find no portfolio service: rows promoted and repaired later.  The
\* order of s2 may be executed twice.
CONSTANTS
  s1 = s1  s2 = s2  s3 = s3
  Signals = {s1, s2}
  RiskOf <- Risks2
  Labelled = {s1}
  Several = {s2}
  Portfolio = {TRUE, FALSE}
SPECIFICATION Spec
INVARIANT OpenRiskIsNotUnderstated
