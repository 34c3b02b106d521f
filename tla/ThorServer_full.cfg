CONSTANTS
  c1 = c1
  c2 = c2
  c3 = c3
  Clients = {c1, c2, c3}
  NoClient = NoClient
  MaxCount = 2
  MaxFd = 5
  MaxSends = 2
  Creds = {"root", "bad"}
  Cmds = {"bye"}

SPECIFICATION Spec
SYMMETRY Symmetry
INVARIANTS
  CountTracksList
  
  Inductive
  LiveFdOwned
  DescriptorsAccounted
  PassCoversList

\* the server may shut down, and clients may fall silent
CHECK_DEADLOCK FALSE
