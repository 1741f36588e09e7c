SPECIFICATION Spec
CONSTANTS
  m1 = m1
  m2 = m2
  often = often
  rare = rare
  east = east
  west = west
  Touched = {m1}
  Monitors = {m1,m2}
  Expressions = {often, rare}
  Zones = {east, west}
  Occurs <- MCOccurs
  Plans <- MCPlans
  Limits = {1, 2}
  Ops = {"edit", "module", "zone", "limit", "manual"}
  MaxTime = 3
INVARIANTS
  PollsInv
PROPERTIES
  LaunchedWhenDue
  DueIsLaunched
