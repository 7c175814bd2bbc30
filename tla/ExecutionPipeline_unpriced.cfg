\* Nothing fails, and no payload has a risk amount, as the one publisher of the queue
\* gives none.
CONSTANTS
  s1 = s1  s2 = s2  k1 = k1
  NoSignal = NoSignal  NoCall = NoCall
  Signals = {s1}
  Slots = {k1}
  SlotOf <- OneSlot
  Publishers = {p1}
  Pollers = {w1}
  AckRequests = {h1}
  RiskOf <- Risks
  Labelled = {s1}
  Priced = {}
  FillModes = 2
  Faults = {}
SPECIFICATION Spec
PROPERTY AcceptedFillIsCounted
