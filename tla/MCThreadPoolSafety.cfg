CONSTANTS
  Num = 5
  NULL <- MCNull
  loop_ <- MCLoop
SPECIFICATION Spec
INVARIANTS OwnSlot NextLoopNotNull PoolSignalToCome
\* The starter may wait for a signal it has missed.
CHECK_DEADLOCK FALSE
