SPECIFICATION Spec
CONSTANTS
  Commands = {k1, k2}
  MaxConns = 2
  MaxConcurrent = 2
  Total = 2
  Faults = {"cut", "close", "cancel", "tab", "user"}
  None = None
SYMMETRY MCSymmetry
INVARIANTS AgentsInv NobodyWaitsInVain AnswerIsWhole
CHECK_DEADLOCK FALSE
