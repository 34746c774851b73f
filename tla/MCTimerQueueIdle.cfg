CONSTANTS
  Conns = {a}
  None = None
  Hold = 3
  Check = 2
  Lag = 0
  MaxTime = 9
  LongMax = 15
SPECIFICATION Spec
INVARIANT IdleIsShut
\* The clock is bounded by MaxTime.
CHECK_DEADLOCK FALSE
