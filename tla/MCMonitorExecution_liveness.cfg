SPECIFICATION FairSpec
CONSTANTS
  Monitors = {m1}
  Items = {i1}
  Calls = {c1, c2}
  Requests = {q1}
  Ops = {"updateItem", "deleteMonitor"}
  MaxRuns = 2
  Nobody = Nobody
INVARIANT IInv
PROPERTY CallsReturn
