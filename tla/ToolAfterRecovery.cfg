\* A recover command comes between the lease check and the receipt of a tool call.
CONSTANTS
  Accounts = {a1}
  Sessions = {s1}
  Runs = {r1}
  Calls = {c1}
  Terminals = {t1}
  Operators = {o1}
  Outcomes = {"Completed"}
  MaxRevision = 2
  MaxPane = 1
  NoAccount = NoAccount
  NoSession = NoSession
  NoRun = NoRun
  NoCall = NoCall
CHECK_DEADLOCK FALSE
SPECIFICATION Spec
PROPERTY ToolsUnderCustody
