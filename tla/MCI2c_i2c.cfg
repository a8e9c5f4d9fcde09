\* Both libraries, with a controller that comes, goes and stretches the clock, and a
\* device that restarts anywhere.
SPECIFICATION FairSpec
CONSTANTS
  Libraries <- BothLibraries
  Bytes = {0, 255, 90}
  Stretching = TRUE
  MaxFaults = 1
INVARIANT SoonInSync
PROPERTIES BytesRight Recovers
