\* A directory in another, two boards, four providers, two versions.
SPECIFICATION MCSpec
CHECK_DEADLOCK FALSE
CONSTANTS
  outer = outer
  here = here
  r1 = r1
  r2 = r2
  b1 = b1
  b2 = b2
  None = None
  Dirs = {outer, here}
  Inside <- MCInside
  Project = here
  Boards = {b1, b2}
  Derived <- MCDerived
  Above = "global"
  Elsewhere <- MCElsewhere
  Registrations = {r1, r2}
  Providers = {"claude", "codex", "opencode", "antigravity"}
  Versions = {1, 2}
  Notes = {"n"}
  Inits <- MCInits
  Uninstalls <- MCUninstalls
  MaxCmds = 2
  MaxEdits = 1
PROPERTIES
  UserKeepsTheirs
  CommandsKeepTheirWord
SYMMETRY Alike
