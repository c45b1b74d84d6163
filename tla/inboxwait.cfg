\* Three posts, on one board: an inbox spans all boards, and the board a post is
\* on tells nothing apart.
SPECIFICATION WaitFairSpec
CONSTANTS
  me = me
  other = other
  ping = ping
  plain = plain
  None = None
  Boards = {b}
  Handles = {me, other}
  Humans = {}
  Drafts = {ping, plain}
  Questions = {}
  Me = me
  MentionsMe = {ping}
  InboxLimit = 3
  MaxInserts = 3
INVARIANTS
  WaitTypeOK
  NoReplyPassed
PROPERTIES
  ReturnsTheNews
  ReplyWakes
CHECK_DEADLOCK FALSE
