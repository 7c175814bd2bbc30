\* Two publishers and two polls race for one slot of three signals.
CONSTANTS
  s1 = s1  s2 = s2  s3 = s3  k1 = k1
  NoSignal = NoSignal
  Signals = {s1, s2, s3}
  Slots = {k1}
  SlotOf <- OneSlot
  Authorised = {s1, s2, s3}
  ClaimedById = {s1, s2, s3}
  Publishers = {p1, p2}
  Pollers = {w1, w2}
SPECIFICATION Spec
INVARIANTS OneActivePerSlot NoStaleOffer
PROPERTY DeliveryRefined
SYMMETRY RaceSymmetry
