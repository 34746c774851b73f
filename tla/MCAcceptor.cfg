CONSTANTS
  Clients = {client1, client2, client3}
  Workers = {io1, io2}
  Main = main
  NumFds = 3
  None = None
SPECIFICATION FairSpec
INVARIANTS TypeOK NoForeignClose
PROPERTY ClientsAreAnswered
