\* Two posts by a human, who may resolve anything, and one board.
SPECIFICATION FairSpec
CONSTANTS
  h = h
  d = d
  b1 = b1
  None = None
  Boards = {b1}
  Handles = {h}
  Humans = {h}
  Drafts = {d}
  Questions = {}
  MaxPosts = 2
INVARIANTS
  TypeOK
  EachOnce
  GateShutWhenCaughtUp
PROPERTIES
  EventsSurface
