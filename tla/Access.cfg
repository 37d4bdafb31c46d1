SPECIFICATION MCSpec
CONSTANTS
  u1 = u1
  u2 = u2
  w1 = w1
  w2 = w2
  User = {u1, u2}
  Workspace = {w1, w2}
  Place = {p1}
  Request = {r1, r2}
  Home <- MCHome
  MaxChanges = 2
SYMMETRY Symmetry
CHECK_DEADLOCK FALSE
INVARIANTS
  TypeOK
  LaterChecksAgree
  StoredIsAnswered
PROPERTIES
  WritesAuthorised
