CONSTANTS
  MaxLen = 3
  Files <- AllFiles
  Chunk = 2
  MaxChanges = 1
  Faults <- AllFaults
  NoFile = NoFile
SPECIFICATION FairSpec
CHECK_DEADLOCK FALSE
INVARIANTS TypeOK ExactCopy OnlyChangesRefused NothingOutstanding DeliveredToEnd NoStandoff
PROPERTIES ImplementsCopy BothEnd
