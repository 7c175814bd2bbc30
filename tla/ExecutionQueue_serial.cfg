\* One publisher at a time, three signals of one slot, polls again and again.
CONSTANTS
  s1 = s1  s2 = s2  s3 = s3  k1 = k1
  NoSignal = NoSignal
  Signals = {s1, s2, s3}
  Slots = {k1}
  SlotOf <- OneSlot
  Authorised = {s1, s2, s3}
  ClaimedById = {}
  Publishers = {p1}
  Pollers = {w1}
SPECIFICATION FairSpec
PROPERTY AbandonedRowsTurnUncertain
