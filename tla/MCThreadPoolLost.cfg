CONSTANTS
  Num = 1
  NULL <- MCNull
  loop_ <- MCLoop
SPECIFICATION FairSpec
PROPERTY StartReturnsOnceRunning
\* The starter may wait for a signal it has missed.
CHECK_DEADLOCK FALSE
