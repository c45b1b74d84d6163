\* Three commands over an initially empty database.
SPECIFICATION Spec
CONSTANTS
  h1 = h1
  h2 = h2
  s1 = s1
  None = None
  NoSession = NoSession
  Procs = {p1, p2, p3}
  Boards = {b1, b2}
  Handles = {h1, h2}
  Humans = {h2}
  Sessions = {s1}
  SessionOf <- MCSessionOf
  Drafts <- MCDrafts
  Questions <- MCQuestions
SYMMETRY Symmetry
INVARIANTS
  TypeOK
  RepliesFollowParents
  RowsNameTheirPost
  SweptStaysClean
PROPERTIES
  LivePostsKeepTheirRows
  OnlyAuthorTombstones
  ImplementsLog
\* Every command ends: the system really stops.
CHECK_DEADLOCK FALSE
