\* The process group of one turn outlives every signal.
CONSTANTS
  Accounts = {a1}
  Workers = {w1}
  RunIds = {r1}
  NoRun = NoRun
  MaxGeneration = 1
  MaxCalls = 1
  MaxPending = 1
CHECK_DEADLOCK FALSE
SPECIFICATION ClaudeSpec
INVARIANTS
  ProviderHoldsLease
