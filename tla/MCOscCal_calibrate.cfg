\* Oscillators of both kinds.  A measurement may find no frame, which counts as 0, or
\* miss the second strobe, which counts as two frames.
SPECIFICATION FairSpec
CONSTANTS
  Oscillators <- Both
  Disturbed = {0, 4712}
  targetValue = 2356
INVARIANTS BestOfThree BestMatch OnlyMissedFramesTrap
PROPERTY CalibrationEnds
