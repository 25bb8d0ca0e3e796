SPECIFICATION Spec
CONSTANTS
  Screens = {s1, s2, s3, s4}
  SleepScreen = SleepScreen
  NoActivity = NoActivity
  MaxCalls = 2
  MaxDepth = 2
INVARIANTS
  TypeOK
  DrawsTheCurrent
  ScreenFollows
  ResultsRouted
SYMMETRY ScreenSymmetry
