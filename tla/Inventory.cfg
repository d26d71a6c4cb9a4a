\* Two processes start on old rows; projects are made, edited and imported.
SPECIFICATION Spec
CONSTANTS
  Bits = 3
  Text = {"", "=", "= ", "'=", "=x"}
  TooLong = {"'= ", "'=x"}
  Written = {"", "= ", "=x", "'=x"}
  Stripped <- Trimmed
  FileSize <- Bytes
  MaxImportBytes = 4
  MaxProjectAddresses = 4
  Name = {1}
  Safe <- Quoted
  Handler = {"loop"}
  Starter = {"web", "worker"}
  Web = "web"
  Option = {1, 2}
  MaxId = 2
  Older <- SmallNetworks
  MaxRows = 2
CONSTRAINT FewTexts
INVARIANTS
  TypeOK
  UpMeansNormal
  OrdinalsNeverClash
  ImportFindsItsRows
  CidrIsSmallest
  ExportReimports
  PagesCover
