SPECIFICATION Spec
CONSTANTS
  Screens = {s1, s2, s3}
  SleepScreen = SleepScreen
  NoActivity = NoActivity
  MaxCalls = 2
  MaxDepth = 1
INVARIANT
  SleepScreenShown
