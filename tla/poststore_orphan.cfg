\* One reply against one hard delete of its parent.
SPECIFICATION Spec
CONSTANTS
  h1 = h1
  h2 = h2
  s1 = s1
  None = None
  NoSession = NoSession
  Procs = {p1, p2, p3}
  Boards = {b1}
  Handles = {h1, h2}
  Humans = {h2}
  Sessions = {s1}
  SessionOf <- MCSessionOf
  Drafts <- MCDrafts
  Questions <- MCQuestions
SYMMETRY Symmetry
INVARIANTS
  NoOrphanReplies
CHECK_DEADLOCK FALSE
