\* Two signals of one slot; answers of the server may be lost or late, and those of the
\* broker wrong.
CONSTANTS
  s1 = s1  s2 = s2  k1 = k1
  NoSignal = NoSignal  NoCall = NoCall
  Signals = {s1, s2}
  Slots = {k1}
  SlotOf <- OneSlot
  Publishers = {p1}
  Pollers = {w1}
  AckRequests = {h1}
  RiskOf <- Risks
  Labelled = {s1}
  Priced = {s1, s2}
  FillModes = 1
  Faults = {"timeout", "broker"}
SPECIFICATION Spec
INVARIANT RowsTellTheTruth
