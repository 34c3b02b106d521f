CONSTANTS
  Letters <- MCLetters
  Bodies <- MCBodies
  ReadMax = 3
  MaxCommands = 2

SPECIFICATION Spec
INVARIANTS
  TypeOK
  Intact

\* the client may stop writing
CHECK_DEADLOCK FALSE
