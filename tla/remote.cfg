\* Two commands of any verb, at once or one after the other.
SPECIFICATION FairSpec
CONSTANTS
  MaxRequests = 2
  Verbs = {"project-register", "hook", "inbox"}
  Flaws = {{}, {"shallow cwd"}}
  VerbTimeout = 2
  InboxTimeout = 2
  Slack = 1
  HookTimeout = 1
  ForwardTimeout = 2
  Concurrency = 1
  InboxConcurrency = 1
INVARIANTS
  TypeOK
  ChildrenHaveSlots
PROPERTIES
  GivesUpOnTheWire
  CallSpec
  NoHandlerParked
