\* Payments and reveals; payments, the sweep and connects; the same with an
\* administrator who cancels; two events about one charge.  Every behaviour ends
\* when all is delivered and done.
CONSTANTS
  d1 = d1  d2 = d2  d3 = d3  e1 = e1  e2 = e2  None = None
  Events = {e1, e2}
  Deliveries = {d1, d2, d3}
  EventOf <- EventOfDelivery
  Browsers = {b1}
  Webhooks <- Sent
  Scenes = {{"stripe", d1, d2, d3, "reveal", "preset", "expiry"},
            {"paystack", d1, d3, "sweep", "connect", "preset"},
            {"flutterwave", d1, d3, "admin", "connect"},
            {"flutterwave", d1, d2, "connect"}}
CHECK_DEADLOCK FALSE
SPECIFICATION FairSpec
INVARIANTS RevealedTokenIsCurrent RevokedIsCutOff
PROPERTIES AppliedOnce LapsedIsMarked
