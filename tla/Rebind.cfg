\* One terminal moves its session between two accounts; two tool calls a run.
CONSTANTS
  Accounts = {a1, a2}
  Sessions = {s1}
  Runs = {r1, r2}
  Calls = {c1, c2}
  Terminals = {t1}
  Operators = {o1}
  Outcomes = {"Completed"}
  MaxRevision = 3
  MaxPane = 1
  NoAccount = NoAccount
  NoSession = NoSession
  NoRun = NoRun
  NoCall = NoCall
CHECK_DEADLOCK FALSE
SPECIFICATION Spec
SYMMETRY Symmetry
INVARIANTS
  EffectsKeepCustody
  AnswersStored
  WorkingMeansBusy
