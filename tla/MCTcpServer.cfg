CONSTANTS
  io1 = io1
  io2 = io2
  conn1 = conn1
  conn2 = conn2
  None = None
  Conns = {conn1, conn2}
  Main = main
  PoolThreads <- MCPoolThreads
  MaxFds = 2
  Configs <- MCConfigs
SPECIFICATION FairSpec
INVARIANTS TypeOK NoUseAfterFree RemovalPendingOnce EpollMapAgreesWithKernel NoOrphanConnection
PROPERTIES ImplementsLife ClosedConnectionIsFreed
\* The peers may all be gone and every connection of the bound used.
CHECK_DEADLOCK FALSE
