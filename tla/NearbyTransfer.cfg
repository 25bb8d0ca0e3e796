SPECIFICATION FairSpec
CONSTANTS
  book = book
  copy = copy
  Names = {book, copy}
  OfferedName = book
  NoName = NoName
  NumChunks = 2
  MaxRetries = 2
  MaxApprovalRetries = 1
  MaxSessions = 2
  Capacity = 3
  MaxFaults = 2
INVARIANTS
  TypeOK
  NoPartialFile
  StopAndWait
  SuccessMeansStored
PROPERTIES
  DeliveredWhole
  SenderGivesUp
