\* Three insertions against two walks: the head, the middle and the tail of the
\* list are met by walks that began before, between and after the insertions.
CONSTANTS
  Clients = {c1, c2}
  Walkers = {w1, w2}
  Cells = {n1, n2, n3}
  Null = Null

SPECIFICATION Spec
INVARIANTS
  TypeOK
  PrevMirrorsNext
  FreesEachOnce

PROPERTY ImplementsList
