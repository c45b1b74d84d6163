\* Two posts on one board: an inbox spans all boards, and the board a post is
\* on tells nothing apart.
SPECIFICATION WaitSpec
CONSTANTS
  me = me
  other = other
  ping = ping
  plain = plain
  None = None
  Boards = {b}
  Handles = {me, other}
  Humans = {}
  Drafts = {ping, plain}
  Questions = {}
  Me = me
  MentionsMe = {ping}
  InboxLimit = 2
  MaxInserts = 2
INVARIANT
  NothingPassed
CHECK_DEADLOCK FALSE
