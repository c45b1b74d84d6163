\* Two `read --unread --limit 1` of one handle, two posts, two boards.
SPECIFICATION MCSpec
CONSTANTS
  me = me
  other = other
  b1 = b1
  b2 = b2
  r1 = r1
  r2 = r2
  None = None
  NoRow = NoRow
  Boards = {b1, b2}
  Handles = {me, other}
  Humans = {}
  Drafts = {d}
  Questions = {}
  Readers = {r1, r2}
  Limit = 1
  MaxPosts = 2
INVARIANTS
  TypeOK
  NothingSkipped
PROPERTIES
  CursorOnlyAdvances
  EverythingIsShown
