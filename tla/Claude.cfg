\* Two command lines take turns on one account, with recovery and crashes.
CONSTANTS
  Accounts = {a1}
  Workers = {w1, w2}
  RunIds = {r1}
  NoRun = NoRun
  MaxGeneration = 2
  MaxCalls = 1
  MaxPending = 1
CHECK_DEADLOCK FALSE
SPECIFICATION ClaudeFairSpec
INVARIANTS
  ScratchOutlivesProvider
PROPERTIES
  CallsReturn
