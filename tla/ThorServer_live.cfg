CONSTANTS
  c1 = c1
  c2 = c2
  Clients = {c1, c2}
  NoClient = NoClient
  MaxCount = 2
  MaxFd = 4
  MaxSends = 2
  Creds = {"root"}
  Cmds = {"hog"}

SPECIFICATION FairSpec
PROPERTIES
  
  
  LoginAnswered

\* the server may shut down, and clients may fall silent
CHECK_DEADLOCK FALSE
