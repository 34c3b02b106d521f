CONSTANTS
  c1 = c1
  Clients = {c1}
  NoClient = NoClient
  MaxCount = 1
  MaxFd = 2
  MaxSends = 2
  Creds = {"root"}
  Cmds = {"plain"}

SPECIFICATION FairSpec
PROPERTIES
  LoggedInIsServed

\* the server may shut down, and clients may fall silent
CHECK_DEADLOCK FALSE
