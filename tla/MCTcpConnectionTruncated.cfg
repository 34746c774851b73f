CONSTANTS
  Modes <- MCLevelTriggered
  HasTimer = FALSE
  ReadBufSize = 2
  WriteBufSize = 4
  SockSize = 1
  Byte = {1, 2}
  MaxRead = 2
  MaxIn = 1
  MaxOut = 3
SPECIFICATION FairSpec
PROPERTY ResponseReachesPeer
\* The connection may be closed, and the process may die.
CHECK_DEADLOCK FALSE
