\* Two requests at a time: logins, pages, logouts, accounts that change, restarts.
SPECIFICATION Spec
CONSTANTS
  h1 = h1
  h2 = h2
  h3 = h3
  Handler = {h1, h2}
  Browser = {"b1"}
  User = {"root", "u"}
  Root = "root"
  IdleTimeout = 1
  MaxToken = 2
  MaxHash = 3
  MaxTime = 1
  MaxRestarts = 1
SYMMETRY Requests
INVARIANTS
  TypeOK
  AdminRemains
  ServedHasSession
  IssuedUnderThisPassword
PROPERTY
  RemovedIsFinal
