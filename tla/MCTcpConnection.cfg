CONSTANTS
  Modes <- MCBothModes
  HasTimer = TRUE
  ReadBufSize = 3
  WriteBufSize = 1
  SockSize = 1
  Byte = {1, 2}
  MaxRead = 3
  MaxIn = 2
  MaxOut = 3
SPECIFICATION FairSpec
INVARIANTS TypeOK RoomToRead InputIntact OutputIntact
PROPERTY OutputFlows
\* The connection may be closed, and the process may die.
CHECK_DEADLOCK FALSE
