\* Schedules that are due or missing, a project created and deleted, and a death.
SPECIFICATION FairSpec
CONSTANTS
  p1 = p1
  p2 = p2
  f1 = f1
  NULL = NULL
  Worker = {w1}
  Handler = {h1}
  Folder = {f1}
  Home <- OneFolder
  Project = {p1, p2}
  Scheduled = {p1, f1}
  First = {p1}
  DefaultInterval = 1
  Edits <- NoEdits
  MaxJobs = 5
  MaxTime = 1
  MaxCrashes = 1
PROPERTIES
  DueIsServed
  EveryProjectScheduled
