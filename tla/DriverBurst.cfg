SPECIFICATION Spec
CONSTANTS
  QueueCap = 8
  TaskPeriodMs = 1
  OpenDelayMs = 1
  ReassertMs = 1
  TimerMod = 3
  CriticalMinDeciV = 600
  CriticalMaxDeciV = 876
  Olat = Olat
  Bank <- MCBank
  Snapshots <- MCSnapshots
  ScanCycles = 5
  Quiet = 1
  WireCap = 1
PROPERTY OlderResetNeverWins
