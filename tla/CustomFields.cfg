\* The forms of one process, alone or beside the API and new columns.
SPECIFICATION Spec
CONSTANTS
  loop = loop
  api = api
  api2 = api2
  Loop = {loop}
  Thread = {api}
  Addr = {"a"}
  Name = {"rack"}
  KeyFor <- KeyText
  Type = {"text", "number"}
  Value = {"", "x"}
  Fits <- OnlyNumbers
  MaxFields = 2
  MaxId = 2
  MaxHistory = 2
INVARIANTS
  TypeOK
  TextIsRecorded
  CellIsRecorded
  HistoryChains
  CellsOfTheirOwn
  ReplaceSucceeds
