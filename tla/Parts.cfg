SPECIFICATION MCSpec
CONSTANTS
  OB_CAPACITY = 3
  Zero = Zero
  p1 = p1
  p2 = p2
  p3 = p3
  Packet <- MCPacket
\* Four channels, two in each bank.
  RELAY_TOTAL_CHANNELS = 4
  PerBank = 2
\* Times in units of 50 ms; one register block that is not the contract's.
  ModeTimeout = 10
  CfgTimeout = 40
  ReadTimeout = 10
  Settle = 1
  RetryDelay = 20
  WdtTimeout = 100
  Foreign = {"old"}
  MaxQueued = 3
\* 2843 rpm is the first speed over 300 km/h, 10001 the first charge over
\* 100%, 32768 the first word that is negative as an int16_t.
  Bytes = {0, 127, 128}
  Words = {2842, 2843, 10001, 32768}
  Lengths = {3, 4, 5, 7, 8}
\* Three cells at, below and above each threshold, 50 and 51 mV apart, and
\* a dead one.
  N = 3
  CellMv = {0, 2499, 2500, 2550, 2551, 2800, 3550, 3650, 3651, 3700}
  CellTemp = {50, 51, 61}
\* A clock of 32 values, so that it wraps around often.
  TickMod = 32
  Timeout = 7
  Period = 5
  MaxPause = 4
  Horizon = 39
\* Motor and BMS silent after two cycles, a charger after three.
  CanTimeout = 2
  ChargerTimeout = 3
  MaxPerCall = 2
  CanHorizon = 4
  ErrorFlags <- MCErrorFlags
  PackVolts <- MCPackVolts
\* A queue of one, one bank of contactors.
  QueueCap = 1
  TaskPeriodMs = 1
  OpenDelayMs = 1
  ReassertMs = 1
  TimerMod = 3
  CriticalMinDeciV = 600
  CriticalMaxDeciV = 876
  VcuBank = {"olat"}
  Snapshots <- MCSnapshots
  HmiTries = 5
CHECK_DEADLOCK FALSE
INVARIANTS
  IndicesAgree
  DoneAsCommanded
  VerdictTrue
  HealthyBootConfigures
  WatchdogFed
  OnlyRpmRejected
  PackAsDefined
  TimeoutIsTrue
  FlagsTellSilence
  EdgeAgreesWithLevel
  ArmedIsServed
  StartedSafe
PROPERTIES
  ImplementsFifo
  MovesAsCommanded
  BootEnds
  BusComesBack
  PeriodKept
  EStopFromTheStart
