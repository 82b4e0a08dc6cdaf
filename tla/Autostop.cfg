SPECIFICATION FairSpec
CONSTANTS
  Runs = {r1, r2}
  Before = 2
  After = 1
  Throttle = 2
  MaxJobs = 1
  MaxCrashes = 1
INVARIANT TypeOK
PROPERTIES DecidedOnTime IdleTimeGrows StopsOrFileLost
