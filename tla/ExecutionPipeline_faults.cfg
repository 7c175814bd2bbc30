\* One signal, every failure, two requests that overlap.
CONSTANTS
  s1 = s1  s2 = s2  k1 = k1
  NoSignal = NoSignal  NoCall = NoCall
  Signals = {s1}
  Slots = {k1}
  SlotOf <- OneSlot
  Publishers = {p1}
  Pollers = {w1}
  AckRequests = {h1, h2}
  RiskOf <- Risks
  Labelled = {}
  Priced = {s1}
  FillModes = 2
  Faults = {"timeout", "age", "database", "server", "terminal", "broker", "stop"}
SPECIFICATION Spec
INVARIANT TradedAtMostOnce
PROPERTY LifecycleRefined
