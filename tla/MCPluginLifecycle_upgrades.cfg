SPECIFICATION Spec
CONSTANTS
  plugin = plugin
  ping = ping
  trace = trace
  Keys <- MCKeys
  Types = {ping, trace}
  ModulesOf <- MCModulesOf
  SignersOf <- MCSignersOf
  Monitored = {ping}
  Official <- MCOfficial
  SourceTrees <- MCSourceTrees
  Instances = {i1, i2}
  Threads = {o1}
  Calls = {c1}
  Faults = {"probe", "migrate", "store", "exit"}
  MaxRestarts = 1
  None = None
INVARIANTS PluginsInv MonitorsFit NoCallIsCutOff
PROPERTY WaitIsNotStarved
