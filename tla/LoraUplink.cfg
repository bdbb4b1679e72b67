SPECIFICATION FairSpec
CONSTANTS
  TxPeriod = 2
  SamplePeriod = 3
  LinkTimeout = 3
  BootGrace = 4
  ReplayBurst = 1
  MaxDelay = 2
  Horizon = 9
  SeqMod = 3
  MaxTs = 3
  OB_CAPACITY = 2
  UartResults <- ReliableUart
INVARIANTS
  BacklogInOrder
  OutageCovered
PROPERTIES
  ImplementsStoreAndForward
  BacklogDrains
  LiveFlows
