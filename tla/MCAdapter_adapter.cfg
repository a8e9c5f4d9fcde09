\* Both controllers, on boards with and without pull-ups.
SPECIFICATION FairSpec
CONSTANTS
  Controllers = {TRUE, FALSE}
  Boards = {TRUE, FALSE}
  Presses <- TwoButtons
  MaxPlug = 4
INVARIANTS ReportOfItsRead InitialisedBeforeRead PhantomOnlyUnnoticed
PROPERTIES UnplugReleases HeldButtonsShown BusWaitEnds
