CONSTANTS
  c1 = c1
  c2 = c2
  Clients = {c1, c2}
  NoClient = NoClient
  MaxCount = 3
  MaxFd = 4
  MaxSends = 2
  Creds = {"root", "bad"}
  Cmds = {"plain"}

SPECIFICATION Spec
SYMMETRY Symmetry
PROPERTIES
  FailureMeansInvalid

\* the server may shut down, and clients may fall silent
CHECK_DEADLOCK FALSE
