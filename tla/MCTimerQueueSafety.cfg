CONSTANTS
  Conns = {a, b}
  None = None
  Hold = 2
  Check = 1
  Lag = 1
  MaxTime = 6
  LongMax = 15
SPECIFICATION Spec
SYMMETRY MCSymmetry
INVARIANTS TypeOK KeyIsExpiration OneTimerPerConnection IdleAfterReadIsShut
\* The clock is bounded by MaxTime.
CHECK_DEADLOCK FALSE
