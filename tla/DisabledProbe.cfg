\* An account is disabled between the probe's look at it and its lease.
CONSTANTS
  Accounts = {a1}
  Sessions = {s1}
  Runs = {r1}
  Calls = {c1}
  Terminals = {t1}
  Operators = {o1}
  Outcomes = {"Completed"}
  MaxRevision = 2
  MaxPane = 1
  NoAccount = NoAccount
  NoSession = NoSession
  NoRun = NoRun
  NoCall = NoCall
CHECK_DEADLOCK FALSE
SPECIFICATION Spec
INVARIANT DisabledIsFree
