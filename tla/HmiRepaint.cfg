SPECIFICATION FairSpec
CONSTANTS
  Field = {packv}
  Value <- MCValue
  Command <- MCCommand
  NCells = 2
  NObjects = 3
  Budget = 2
  CellPeriod = 1
  WireCap = 10
PROPERTY BmsPageRepainted
