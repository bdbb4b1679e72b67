SPECIFICATION Spec
CONSTANTS
  QueueCap = 1
  TaskPeriodMs = 1
  OpenDelayMs = 1
  ReassertMs = 1
  TimerMod = 3
  CriticalMinDeciV = 600
  CriticalMaxDeciV = 876
  Olat = Olat
  Bank <- MCBank
  CanTimeout = 2
  ChargerTimeout = 1
  MaxPerCall = 2
  Horizon = 5
  ErrorFlags <- MCErrorFlags
  PackVolts <- MCPackVolts
  VcuPeriod = 2
INVARIANTS
  DriveOnFreshData
  DangerIsBrief
VIEW ReadLater
