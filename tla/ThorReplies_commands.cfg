CONSTANTS
  Clients = {c1, c2}
  Names <- MCNames
  Upcs <- MCUpcs
  Pictures <- MCPictures
  MaxItems = 2
  RowSize <- MCRowSize
  BUFSIZ = 3
  UINT_MAX = 65535

SYMMETRY MCSymmetry
VIEW MCView
SPECIFICATION Spec
INVARIANTS
  TypeOK
  OnlyRootDangles
  NamesUnique
  ListingExact
  FatalAlwaysWritten

PROPERTIES
  ReasonIsOwn
  FailureChangesNothing
  OnlyAddressed
  

\* what follows a use of released memory is not modelled
CHECK_DEADLOCK FALSE
