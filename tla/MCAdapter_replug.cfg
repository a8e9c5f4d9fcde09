\* The SNES Mini controller is replugged between two polls.
SPECIFICATION Spec
CONSTANTS
  Controllers = {TRUE}
  Boards = {TRUE}
  Presses <- TwoButtons
  MaxPlug = 4
INVARIANT NoPhantomButtons
