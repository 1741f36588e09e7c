SPECIFICATION FairSpec
CONSTANTS
  b1 = b1
  d1 = d1
  d2 = d2
  hook = hook
  InApp = InApp
  Batches = {b1}
  Deliveries = {d1, d2}
  Channels = {InApp, hook}
  ChannelOf <- InAppAndHook
  Queue <- TwoChannels
  Faults = {"crash", "record"}
INVARIANTS
  DeliveriesInv
  StatusIsHonest
PROPERTIES
  SettledStays
  PendingIsSettled
