\* A session with one lead on two boards, two hooks of it at once.
SPECIFICATION MCSpec
CONSTANTS
  me = me
  man = man
  you = you
  s1 = s1
  p1 = p1
  p2 = p2
  None = None
  Boards = {b, c}
  Handles = {me, you, man}
  Humans = {man}
  Drafts = {d}
  Questions = {}
  Sessions = {s1}
  Home <- MCHome
  Subagents = {}
  Procs = {p1, p2}
  MaxPosts = 2
SYMMETRY Alike
INVARIANTS
  TypeOK
  FiresOnce
  NothingSilenced
  ThrottleIsEarned
  OnlyRacesRepeat
