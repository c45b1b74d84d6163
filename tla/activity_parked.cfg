\* One post, marked after the snapshot.
SPECIFICATION Spec
CONSTANTS
  h = h
  d = d
  b1 = b1
  None = None
  Boards = {b1}
  Handles = {h}
  Humans = {h}
  Drafts = {d}
  Questions = {}
  MaxPosts = 1
INVARIANT
  NoEventParked
