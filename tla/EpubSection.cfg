SPECIFICATION Spec
CONSTANTS
  Specs = {small, large}
  Total = 2
  StartMargin = 1
  WindowAhead = 1
  MaxRetries = 1
  MaxFaults = 2
  NoFile = NoFile
  NoSection = NoSection
INVARIANTS
  TypeOK
  PagesReadable
  NoDeadMessage
PROPERTIES
  RightLayout
  WorkIsKept
  StoreRefined
  DrawEnds
CHECK_DEADLOCK FALSE
