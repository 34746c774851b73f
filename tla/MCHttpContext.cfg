CONSTANTS
  PeerRequests <- MCRequests
  MaxRequests = 3
  MaxBody = 2
SPECIFICATION FairSpec
INVARIANTS TypeOK ServedAsSent
PROPERTY RequestIsAnswered
\* The peer ends, and the process may die.
CHECK_DEADLOCK FALSE
