\* Every task ends, and a run whose provider is gone can be recovered.
CONSTANTS
  Accounts = {a1}
  Sessions = {s1}
  Runs = {r1, r2}
  Calls = {c1}
  Terminals = {t1}
  Operators = {o1}
  Outcomes = {"Completed"}
  MaxRevision = 1
  MaxPane = 0
  NoAccount = NoAccount
  NoSession = NoSession
  NoRun = NoRun
  NoCall = NoCall
CHECK_DEADLOCK FALSE
SPECIFICATION FairSpec
PROPERTIES
  TurnsEnd
  RunningIsRecoverable
