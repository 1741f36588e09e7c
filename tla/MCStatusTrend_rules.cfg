SPECIFICATION BoardSpec
CONSTANTS
  Missing = Missing
  Unbounded = Unbounded
  Outcomes <- MCOutcomes
  Configs <- FittingConfigs
  DefaultPage = 2
  MaxPage = 3
  MinShown = 2
  MaxShown = 6
  MaxWindow = 6
  MaxExecutions = 5
INVARIANTS
  BoardInv
  HistoryIsShown
PROPERTY TrendsMeanTheirRules
