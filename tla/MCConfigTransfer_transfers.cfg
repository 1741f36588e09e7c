SPECIFICATION TransferSpec
CONSTANTS
  m1 = m1
  m2 = m2
  m3 = m3
  inapp = inapp
  c1 = c1
  c2 = c2
  i1 = i1
  i2 = i2
  i3 = i3
  s1 = s1
  s2 = s2
  s3 = s3
  InApp = inapp
  Monitors = {m1, m2, m3}
  Channels = {inapp, c1, c2}
  Items = {i1, i2, i3}
  Shares = {s1, s2, s3}
  ChannelSets <- MCChannelSets
  Starts <- MCStarts
  Fresh <- MCFresh
  Foreign <- MCForeign
  Wants <- MCWants
  Importers = {r1, r2}
  NoBundle = NoBundle
  MaxEdits = 1
SYMMETRY MCSymmetry
INVARIANT TransfersInv
PROPERTIES ImportIsTheBundle SummaryIsTrue
CHECK_DEADLOCK FALSE
