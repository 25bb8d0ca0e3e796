SPECIFICATION FairSpec
CONSTANTS
  epub = epub
  txt = txt
  n1 = n1
  Paths = {p1, p2}
  Books = {epub}
  Notes = {n1}
  NoBook = NoBook
  NoPath = NoPath
  Epubs = {epub}
  Owner <- MCOwner
  MaxFaults = 2
  MaxExternal = 1
PROPERTIES
  JournalWorkedOff
