\* Two requests at a time: on one server with every fault but a restart, on two
\* servers that may restart, and on a server with more accounts than workers.
CONSTANTS
  a1 = a1  a2 = a2  i1 = i1  i2 = i2  c1 = c1  c2 = c2  None = None
  Instances = {i1, i2}
  Calls = {c1, c2}
  Scenes <- AllScenes
  Workers = {w1, w2}
  Accounts = {a1, a2}
  Jobs = {j1}
  MaxWorkers = 1
  MaxStops = 1
  MaxRestarts = 1
SPECIFICATION FairSpec
INVARIANT OneProcessPerServer
PROPERTIES CallRefined CallsEnd GhostsVanish
