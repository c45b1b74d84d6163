\* Two boards, an ask, a session filter.
SPECIFICATION MCSpec
CONSTANTS
  b1 = b1
  b2 = b2
  a = a
  web = web
  s1 = s1
  ask = ask
  note = note
  None = None
  Refused = Refused
  Boards = {b1, b2}
  Handles = {a, web}
  Humans = {web}
  Human = web
  Drafts = {ask, note}
  Questions = {}
  Asking = {ask}
  Naming = {}
  defaultLimit = 3
  SessionOf <- MCSessionOf
  Parented = {}
  Registered <- MCRegistered
  Views = {"threads", "thread", "search", "inbox"}
  Routes <- MCRoutes
  Contents <- MCContents
  MaxMoves = 2
  MaxWrites = 1
  MaxFails = 1
  MaxEvents = 2
  MaxLoads = 2
  MaxPolls = 1
INVARIANTS
  TypeOK
  DraftsStayHome
PROPERTIES
  AnswersFit
  NotifiedOnce
  CatchesUp
