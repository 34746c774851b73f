CONSTANTS
  LoopThread = loop
  Submitters = {s1, s2}
  Channels = {c1, c2}
  WakeupChannel = wakeup
  InitEvents = 1
  MaxTasks = 3
SPECIFICATION FairSpec
INVARIANTS TypeOK NoLostWakeup
PROPERTIES ImplementsExecutor TaskEventuallyRuns ReadyChannelServed
\* The loop ends when epoll_wait fails.
CHECK_DEADLOCK FALSE
