SPECIFICATION SpiFairSpec
CONSTANTS
  QueueCap = 1
  TaskPeriodMs = 1
  OpenDelayMs = 1
  ReassertMs = 2
  TimerMod = 4
  CriticalMinDeciV = 600
  CriticalMaxDeciV = 876
  OlatA = OlatA
  OlatB = OlatB
  Bank <- MCBank
  Writes <- AnyWrites
  Snapshots <- FewSnapshots
PROPERTIES
  EStopTakesEffect
  QuietStopOpens
  ImplementsPolicy
