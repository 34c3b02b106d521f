CONSTANTS
  Clients = {c1, c2}
  Names <- MCNames
  Passwords <- MCPasswords
  Modes <- MCModes
  Flags <- MCFlags
  Builtin <- MCBuiltin
  MaxRows = 4

SPECIFICATION Spec
INVARIANT DocumentedKeysUpdate
