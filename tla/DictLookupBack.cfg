SPECIFICATION Spec
CONSTANTS
  Words = {a, b}
  Visible = 3
  MaxHistory = 3
  NoWord = NoWord
  NoOwner = NoOwner
INVARIANTS
  EachPressReturns
