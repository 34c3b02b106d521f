CONSTANTS
  Clients = {c1, c2}
  Names <- MCNames
  Passwords <- MCPasswords
  Modes <- MCModes
  Flags <- MCFlags
  Builtin <- MCBuiltin
  MaxRows = 4

SYMMETRY MCSymmetry
VIEW MCView
SPECIFICATION Spec
INVARIANTS
  TypeOK
  EveryAccountOpens

PROPERTIES
  
  StartKeepsAccounts
  AccountsKept
  OneAccountChanged
  
