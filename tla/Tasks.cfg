\* Two hosts contend for one account, with reused run ids and recovery, under
\* either adapter.
CONSTANTS
  Accounts = {a1}
  Workers = {w1, w2}
  RunIds = {r1, r2}
  NoRun = NoRun
  MaxGeneration = 3
  MaxCalls = 2
  MaxPending = 1
CHECK_DEADLOCK FALSE
SPECIFICATION HostsSpec
SYMMETRY Symmetry
INVARIANTS
  HandlersHoldLease
PROPERTIES
  CancelledNotCompleted
  TaskCustodyKept
