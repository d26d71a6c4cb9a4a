\* Two administrators save and rotate the token, and rollbacks run.
SPECIFICATION Spec
CONSTANTS
  a1 = a1
  a2 = a2
  cli = cli
  Field <- TwoFields
  Group = {"interface", "limits"}
  GroupOf <- Grouped
  Value = {0, 2}
  Valid <- AllValid
  CsvField = "csv_import_max_bytes"
  CsvCap = 1
  Admin = {a1, a2}
  Cli = cli
  MaxRevision = 5
  MaxVersion = 3
CONSTRAINT FewWrites
SYMMETRY Administrators
INVARIANTS
  TypeOK
  RevisionTrail
  AuditReplays
  TokenTrail
  RollbackOnCourse
