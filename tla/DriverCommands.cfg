SPECIFICATION FairSpec
CONSTANTS
  QueueCap = 3
  TaskPeriodMs = 1
  OpenDelayMs = 1
  ReassertMs = 1
  TimerMod = 3
  CriticalMinDeciV = 600
  CriticalMaxDeciV = 876
  Olat = Olat
  Bank <- MCBank
  Snapshots <- MCSnapshots
  ScanCycles = 3
  Quiet = 1
  WireCap = 2
PROPERTIES
  OlderResetWinsOnlyAfterBurst
  DropsOnlyAfterBurst
  FirstPressStops
