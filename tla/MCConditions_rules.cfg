SPECIFICATION ConditionsSpec
CONSTANTS
  Parts <- MCParts
  Stripped <- MCStripped
  NumberOf <- MCNumberOf
  Within <- MCWithin
  LengthOf <- MCLengthOf
  Matched <- MCMatched
  BoundsOf <- MCBoundsOf
  Sprint <- MCSprint
  Composed <- MCComposed
  Observations <- MCObservations
  Durations <- MCDurations
  Values <- MCValues
  Created <- MCCreated
  Edited <- MCEdited
  MaxResults = 2
INVARIANTS ConditionsInv ChangedMeansChanged
