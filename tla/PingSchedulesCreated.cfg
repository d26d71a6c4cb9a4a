\* A worker gives a new project its schedule first.
SPECIFICATION Spec
CONSTANTS
  p1 = p1
  p2 = p2
  f1 = f1
  NULL = NULL
  Worker = {w1}
  Handler = {h1}
  Project = {p1}
  Folder = {f1}
  Home <- OneFolder
  Scheduled = {}
  First = {}
  DefaultInterval = 1
  Edits <- NoEdits
  MaxJobs = 1
  MaxTime = 1
  MaxCrashes = 0
PROPERTY
  CreatedIsQueued
