\* Workers pass over the schedules, die, and an administrator saves them.
SPECIFICATION Spec
CONSTANTS
  p1 = p1
  p2 = p2
  f1 = f1
  NULL = NULL
  Worker = {w1, w2}
  Handler = {h1}
  Folder = {f1}
  Home <- OneFolder
  Project = {p1}
  Scheduled = {p1, f1}
  First = {p1}
  DefaultInterval = 1
  Edits <- OnOff
  MaxJobs = 3
  MaxTime = 2
  MaxCrashes = 1
SYMMETRY WorkerSymmetry
INVARIANTS
  TypeOK
  ActivePerSchedule
  EnabledHasNext
PROPERTY
  SavedStays
