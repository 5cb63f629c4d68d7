SPECIFICATION FairSpec

CONSTANTS
  Jobs = {j1}
  Nets = {n1}
  Runs = {r1, r2}
  j1 = j1
  n1 = n1
  r1 = r1
  r2 = r2
  NoJob = NoJob
  NoNet = NoNet
  Limits = {1, 2}
  MaxJobs = 2
  ProgressStart = 1
  ProgressCap = 2
  ProgressDone = 3
  MaxRestarts = 1
  MaxFaults = 1

PROPERTIES
  RunningSettles
