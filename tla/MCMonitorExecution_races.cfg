SPECIFICATION Spec
CONSTANTS
  Monitors = {m1}
  Items = {i1}
  Calls = {c1, c2}
  Requests = {q1}
  Ops = {"updateMonitor", "deleteMonitor", "deleteRecords", "deleteItem"}
  MaxRuns = 3
  Nobody = Nobody
SYMMETRY Symmetry
INVARIANTS
  OneExecutionPerMonitor
  ActiveWasAnnounced
PROPERTIES
  OnceTriggersOnce
  LatestExecutionWins
  MonitorsFollowLedger
  
