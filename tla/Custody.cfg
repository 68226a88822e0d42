\* Two terminals contend for one account, with tools and a recover command.
CONSTANTS
  Accounts = {a1}
  Sessions = {s1}
  Runs = {r1, r2}
  Calls = {c1}
  Terminals = {t1, t2}
  Operators = {o1}
  Outcomes = {"Completed"}
  MaxRevision = 2
  MaxPane = 1
  NoAccount = NoAccount
  NoSession = NoSession
  NoRun = NoRun
  NoCall = NoCall
CHECK_DEADLOCK FALSE
SPECIFICATION Spec
SYMMETRY Symmetry
INVARIANTS
  FilesOutliveProvider
PROPERTIES
  CustodyKept
