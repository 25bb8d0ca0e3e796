SPECIFICATION Spec
CONSTANTS
  epub = epub
  txt = txt
  n1 = n1
  Paths = {p1, p2, p3}
  Books = {epub, txt}
  Notes = {n1}
  NoBook = NoBook
  NoPath = NoPath
  Epubs = {epub}
  Owner <- MCOwner
  MaxFaults = 2
  MaxExternal = 2
INVARIANTS
  TypeOK
  NothingLeftBehind
  NoNoteLost
  NoForeignRecord
  ListsFollow
PROPERTIES
  SuccessMeansMigrated
SYMMETRY PathSymmetry
