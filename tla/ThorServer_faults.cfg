CONSTANTS
  c1 = c1
  c2 = c2
  Clients = {c1, c2}
  NoClient = NoClient
  MaxCount = 2
  MaxFd = 4
  MaxSends = 2
  Creds = {"root", "bad", "short"}
  Cmds = {"bye", "peers", "shutdown", "short"}

SPECIFICATION Spec
SYMMETRY Symmetry
INVARIANTS
  TypeOK
  OneServingThread
PROPERTIES
  
  UsesList
  ImplementsService

\* the server may shut down, and clients may fall silent
CHECK_DEADLOCK FALSE
