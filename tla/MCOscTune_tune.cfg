\* Frames noticed and missed in any pattern, four at most from one to the next.
SPECIFICATION FairSpec
CONSTANTS
  Sub = 4
  Oscillators <- Lines
  Factory <- NearTarget
  MaxGap = 3
INVARIANT StaysUsable
PROPERTY Locks
