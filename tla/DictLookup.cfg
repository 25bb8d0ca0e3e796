SPECIFICATION Spec
CONSTANTS
  Words = {a, b}
  Visible = 2
  MaxHistory = 3
  NoWord = NoWord
  NoOwner = NoOwner
INVARIANTS
  TypeOK
  OwnerAlive
  WorkerAlone
  BackLeadsToTheWord
PROPERTIES
  LookupEnds
