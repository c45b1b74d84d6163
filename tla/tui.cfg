\* Two boards, a session filter, windows of one row and of two.
SPECIFICATION MCSpec
CONSTANTS
  b1 = b1
  b2 = b2
  me = me
  sub = sub
  other = other
  s1 = s1
  d = d
  None = None
  Boards = {b1, b2}
  Handles = {me, sub, other}
  Humans = {}
  Drafts = {d}
  Questions = {}
  SessionOf <- MCSessionOf
  Parented = {}
  Registered <- MCRegistered
  Start = {None}
  Heights = {4, 5}
  Contents <- MCContents
  MaxWrites = 1
  MaxLoads = 2
INVARIANTS
  TypeOK
  WindowHolds
PROPERTIES
  ListingsHold
  RefreshInPlace
