CONSTANTS
  Main = main
  Roller = roller
  Writer = writer
  Producers = {p1, p2, p3, main, roller}
  Consumers = {writer}
  Capacity = 2
  MaxItems = 2
  RollSize = 3
  CheckEveryN = 2
  DayLength = 2
  MaxSecond = 3
SPECIFICATION LogFairSpec
INVARIANTS LogTypeOK NoSignalLost FilesHoldTheLog
PROPERTIES ImplementsFifo LinesAreWritten JoinEnds
\* The loggers end, and join() returns or waits for room.
CHECK_DEADLOCK FALSE
