SPECIFICATION Spec
CONSTANTS
  MaxSeq = 8
  MaxFaults = 3
INVARIANTS
  TypeOK
  SwitchTakesEffect
  FallbackKept
PROPERTIES
  ChoiceIsAtomic
