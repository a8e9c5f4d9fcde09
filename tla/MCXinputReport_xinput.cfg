\* Every order of the setters.
SPECIFICATION Spec
CONSTANTS
  IntBytes = 2
  Buttons <- SomeButtons
  Percents <- SomePercents
  AxisPercents <- ManyPercents
INVARIANT ReportRight
