SPECIFICATION FairSpec
CONSTANTS
  Captures = {s1}
  MaxEvents = 4
  SendCap = 2
  EventCap = 2
  OrphanCap = 2
  ChanCap = 2
  Faults = {"refuse", "end", "stream", "cancel"}
INVARIANTS  EndIsTold
PROPERTIES NoPanic StartsReturn
CHECK_DEADLOCK FALSE
