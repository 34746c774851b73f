CONSTANTS
  Threads = {io1, io2, io3}
  MaxConn = 2
  NULL <- MCNull
  Names = {alice}
  Passwords = {"x", "y"}
  Literal <- MCLiteral
SPECIFICATION ServerSpec
SYMMETRY MCSymmetry
INVARIANTS ServerTypeOK Exclusive NoSleepBesideFree AnswersAreStored
