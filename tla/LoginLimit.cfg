\* Failures, successes and the clock, with every order of the two lengths.
SPECIFICATION Spec
CONSTANTS
  h1 = h1
  h2 = h2
  h3 = h3
  Handler = {h1, h2, h3}
  Settings <- Lengths
  MaxTime = 6
  MaxEvents = 5
SYMMETRY
  Requests
INVARIANTS
  TypeOK
  RefusedExactly
  FailuresBounded
