----------------------------- MODULE XcbProofs ------------------------------
(***************************************************************************)
(* The native program, for any sets of accounts, sessions, runs, calls,    *)
(* terminals and recover commands.  The runner and its store: types, the   *)
(* custody of the provider accounts, and the records of settled runs.  The *)
(* kernel: whatever is queued, dropped, sent and read between it and its   *)
(* display, the display does not run two tasks of a session together and   *)
(* ends up with the truth.                                                 *)
(***************************************************************************)
EXTENDS XcbRunner, XcbKernel, SequenceFacts, FiniteSetTheorems, WellFoundedInduction, TLAPS

\* The steps of a terminal, for the case splits below.
LEMMA NextCases ==
  ASSUME Next
  PROVE  \/ \E t \in Terminals : Step(t)
         \/ \E t \in Terminals : Request(t)
         \/ \E o \in Operators : Recover(o)
         \/ \E r \in Runs : ProviderExits(r)
         \/ Administer
  BY DEF Next

-----------------------------------------------------------------------------
(***************************************************************************)
(* Types.                                                                  *)
(***************************************************************************)
LEMMA BlankIsMemory == Blank \in Memory
  BY RunnerAssumption, StoreAssumption DEF Blank, Memory, EffectState, Terminal

LEMMA InitTypeOK == Init => TypeOK
  BY BlankIsMemory DEF Init, StoreInit, TypeOK, StoreTypeOK, Pcs, NoRunPcs,
     SessionStates, Phases, Receipts

\* What a terminal remembers keeps its shape.
LEMMA StepMemory ==
  ASSUME TypeOK, NEW t \in Terminals, Step(t)
  PROVE  mem' \in [Terminals -> Memory]
<1> DEFINE MemOK == mem \in [Terminals -> Memory]
<1>0. /\ MemOK
      /\ mem[t] \in Memory
      /\ revision \in [Sessions -> Nat]
      /\ runSession \in [Runs -> Sessions \cup {NoSession}]
      /\ Blank \in Memory
      /\ NoCall \notin Calls
  BY BlankIsMemory, RunnerAssumption DEF TypeOK, StoreTypeOK
<1>1. ASSUME Return(t) PROVE MemOK'
  BY <1>0, <1>1 DEF Return
<1>2. ASSUME UNCHANGED mem PROVE MemOK'
  BY <1>0, <1>2
<1>3. ASSUME NEW n \in Nat, mem' = [mem EXCEPT ![t].revision = n] PROVE MemOK'
  <2>1. [mem[t] EXCEPT !.revision = n] \in Memory
    BY <1>0 DEF Memory
  <2>2. mem' = [mem EXCEPT ![t] = [mem[t] EXCEPT !.revision = n]]
    BY <1>3
  <2>3. QED
    BY <1>0, <2>1, <2>2
<1>4. ASSUME NEW c \in Calls \cup {NoCall}, mem' = [mem EXCEPT ![t].call = c]
      PROVE  MemOK'
  <2>1. [mem[t] EXCEPT !.call = c] \in Memory
    BY <1>0 DEF Memory
  <2>2. QED
    BY <1>0, <1>4, <2>1
<1>5. ASSUME NEW e \in EffectState, mem' = [mem EXCEPT ![t].effects = e]
      PROVE  MemOK'
  <2>1. [mem[t] EXCEPT !.effects = e] \in Memory
    BY <1>0 DEF Memory
  <2>2. QED
    BY <1>0, <1>5, <2>1
<1>6. ASSUME NEW e \in EffectState, NEW x \in Terminal,
             mem' = [mem EXCEPT ![t].effects = e, ![t].outcome = x,
                                ![t].call = NoCall]
      PROVE  MemOK'
  <2>1. [mem[t] EXCEPT !.effects = e, !.outcome = x, !.call = NoCall] \in Memory
    BY <1>0 DEF Memory
  <2>2. QED
    BY <1>0, <1>6, <2>1
<1>7. ASSUME NEW x \in Terminal,
             mem' = [mem EXCEPT ![t].outcome = x, ![t].call = NoCall]
      PROVE  MemOK'
  <2>1. [mem[t] EXCEPT !.outcome = x, !.call = NoCall] \in Memory
    BY <1>0 DEF Memory
  <2>2. QED
    BY <1>0, <1>7, <2>1
<1>8. ASSUME NEW x \in Terminal, mem' = [mem EXCEPT ![t].outcome = x]
      PROVE  MemOK'
  <2>1. [mem[t] EXCEPT !.outcome = x] \in Memory
    BY <1>0 DEF Memory
  <2>2. QED
    BY <1>0, <1>8, <2>1
<1>9. ASSUME NEW texts \in SUBSET Roles, mem' = [mem EXCEPT ![t].pending = texts]
      PROVE  MemOK'
  <2>1. [mem[t] EXCEPT !.pending = texts] \in Memory
    BY <1>0 DEF Memory
  <2>2. QED
    BY <1>0, <1>9, <2>1
<1> HIDE DEF MemOK
<1>10. ASSUME AppendUser(t) PROVE MemOK'
  <2>1. mem[t].revision + 1 \in Nat
    BY <1>0 DEF Memory
  <2>2. QED
    BY <1>10, <1>3, <2>1 DEF AppendUser
<1>11. ASSUME NEW c \in Calls, BeginTool(t, c) PROVE MemOK'
  BY <1>11, <1>4 DEF BeginTool
<1>12. ASSUME CallTool(t) PROVE MemOK'
  <2>1. PICK observed \in EffectState :
          mem' = [mem EXCEPT ![t].effects =
                    IF observed = "Uncertain" THEN "Uncertain"
                    ELSE Merge(mem[t].effects, observed)]
    BY <1>12 DEF CallTool
  <2>2. "Uncertain" \in EffectState /\ Merge(mem[t].effects, observed) \in EffectState
    BY <1>0 DEF EffectState, Merge, Memory
  <2>3. QED
    BY <2>1, <2>2, <1>5
<1>13. ASSUME SettleToolFails(t) PROVE MemOK'
  BY <1>13, <1>6 DEF SettleToolFails, EffectState, Terminal
<1>14. ASSUME ReadForTool(t) \/ ReadForAnswer(t) PROVE MemOK'
  <2>1. /\ runSession[cur[t]] \in Sessions
        /\ mem' = [mem EXCEPT ![t].revision = revision[runSession[cur[t]]]]
    BY <1>14 DEF ReadForTool, ReadForAnswer, ReadRevision, Exists
  <2>2. revision[runSession[cur[t]]] \in Nat
    BY <1>0, <2>1
  <2>3. QED
    BY <2>1, <2>2, <1>3
<1>15. ASSUME AppendTool(t) PROVE MemOK'
  BY <1>15, <1>4 DEF AppendTool
<1>16. ASSUME ExecutionError(t) PROVE MemOK'
  BY <1>16, <1>7 DEF ExecutionError, FailTurn, Terminal
<1>17. ASSUME NEW outcome \in Outcomes, Finish(t, outcome) PROVE MemOK'
  BY <1>17, <1>8, RunnerAssumption DEF Finish, Terminal
<1>18. ASSUME Join(t) PROVE MemOK'
  BY <1>18, <1>9 DEF Join
<1>19. ASSUME AppendAnswer(t) PROVE MemOK'
  <2>1. mem[t].pending \ {NextRole(mem[t].pending)} \in SUBSET Roles
    BY <1>0 DEF Memory
  <2>2. QED
    BY <1>19, <1>9, <2>1 DEF AppendAnswer
<1>20. ASSUME \/ \E s \in Sessions : CreateSession(t, s)
              \/ Rebind(t) \/ Refused(t) \/ LaunchNotStarted(t)
              \/ LaunchAbandoned(t) \/ JoinUnproven(t)
              \/ ReturnUncertain(t) \/ Settle(t) \/ JoinedError(t)
       PROVE  MemOK'
  <2>1. Return(t)
    BY <1>20 DEF CreateSession, Rebind, Refused, LaunchNotStarted,
       LaunchAbandoned, JoinUnproven, ReturnUncertain, Settle, JoinedError
  <2>2. QED
    BY <2>1, <1>1
<1>21. ASSUME \/ \E r \in Runs : PrepareRun(t, r) \/ PrepareProbe(t, r)
              \/ SpawnProcess(t) \/ MarkSpawned(t) \/ RecordTool(t)
              \/ SettleTool(t) \/ FinishAnswers(t)
       PROVE  MemOK'
  BY <1>21, <1>2 DEF PrepareRun, PrepareProbe, Prepared, SpawnProcess,
     MarkSpawned, RecordTool, SettleTool, FinishAnswers
<1>22. MemOK'
  BY <1>10, <1>11, <1>12, <1>13, <1>14, <1>15, <1>16, <1>17, <1>18, <1>19,
     <1>20, <1>21 DEF Step
<1>23. QED
  BY <1>22 DEF MemOK


-----------------------------------------------------------------------------
\* The transactions of the store keep the types of its tables, whatever their
\* arguments are.
LEMMA TouchTypeOK ==
  ASSUME StoreTypeOK, NEW s, NEW expected \in Nat, TouchSession(s, expected),
         transcript' \in [Runs -> SUBSET Roles]
  PROVE  StoreTypeOK'
  BY DEF StoreTypeOK, TouchSession, Exists

LEMMA AppendFinalTypeOK ==
  ASSUME StoreTypeOK, NEW s, NEW expected \in Nat, NEW r, NEW role \in Roles,
         AppendFinalTx(s, expected, r, role)
  PROVE  StoreTypeOK'
<1>1. TouchSession(s, expected)
  BY DEF AppendFinalTx
<1>2. transcript' = [transcript EXCEPT ![r] = @ \cup {role}]
  BY DEF AppendFinalTx
<1>3. transcript' \in [Runs -> SUBSET Roles]
  BY <1>2 DEF StoreTypeOK
<1>4. QED
  BY <1>1, <1>3, TouchTypeOK

LEMMA RebindTypeOK ==
  ASSUME StoreTypeOK, NEW s, NEW expected \in Nat,
         NEW a \in Accounts \cup {NoAccount}, RebindTx(s, expected, a)
  PROVE  StoreTypeOK'
<1>1. /\ bound'    = [bound EXCEPT ![s] = a]
      /\ state'    = [state EXCEPT ![s] = "Idle"]
      /\ revision' = [revision EXCEPT ![s] = expected + 1]
      /\ UNCHANGED << standing, phase, runAccount, runSession, lease, receipt,
                      transcript >>
  BY DEF RebindTx
<1>2. state' \in [Sessions -> SessionStates]
  BY <1>1 DEF StoreTypeOK, SessionStates
<1>3. revision' \in [Sessions -> Nat]
  <2>1. expected + 1 \in Nat
    OBVIOUS
  <2>2. revision \in [Sessions -> Nat]
    BY DEF StoreTypeOK
  <2>3. QED
    BY <1>1, <2>1, <2>2, Zenon
<1>4. bound' \in [Sessions -> Accounts \cup {NoAccount}]
  BY <1>1 DEF StoreTypeOK
<1>5. QED
  BY <1>1, <1>2, <1>3, <1>4 DEF StoreTypeOK

LEMMA RemoveSessionTypeOK ==
  ASSUME StoreTypeOK, NEW s, RemoveSessionTx(s)
  PROVE  StoreTypeOK'
<1>1. /\ state' = [state EXCEPT ![s] = "removed"]
      /\ "removed" \in SessionStates
      /\ UNCHANGED << standing, revision, bound, runAccount, runSession, lease >>
  BY DEF RemoveSessionTx, SessionStates
<1>2. phase' \in [Runs -> Phases]
  BY DEF RemoveSessionTx, StoreTypeOK, Phases
<1>3. receipt' \in [Runs -> [Calls -> Receipts]]
  BY DEF RemoveSessionTx, StoreTypeOK, Receipts
<1>4. transcript' \in [Runs -> SUBSET Roles]
  BY DEF RemoveSessionTx, StoreTypeOK
<1>5. QED
  BY <1>1, <1>2, <1>3, <1>4 DEF StoreTypeOK

LEMMA InsertRunTypeOK ==
  ASSUME StoreTypeOK, NEW r \in Runs, NEW a \in Accounts \cup {NoAccount},
         NEW s \in Sessions \cup {NoSession}, InsertRun(r, a, s)
  PROVE  /\ phase'      \in [Runs -> Phases]
         /\ runAccount' \in [Runs -> Accounts \cup {NoAccount}]
         /\ runSession' \in [Runs -> Sessions \cup {NoSession}]
         /\ lease'      \in [Accounts -> Runs \cup {NoRun}]
  BY DEF StoreTypeOK, InsertRun, Phases

LEMMA PrepareRunTypeOK ==
  ASSUME StoreTypeOK, NEW r \in Runs, NEW s, NEW expected \in Nat,
         PrepareRunTx(r, s, expected)
  PROVE  StoreTypeOK'
<1>1. s \in Sessions /\ bound[s] \in Accounts \cup {NoAccount}
  BY DEF PrepareRunTx, Exists, StoreTypeOK
<1>2. /\ InsertRun(r, bound[s], s)
      /\ state'    = [state EXCEPT ![s] = "Working"]
      /\ revision' = [revision EXCEPT ![s] = expected + 1]
      /\ UNCHANGED << standing, bound, receipt, transcript >>
  BY DEF PrepareRunTx
<1>3. state' \in [Sessions -> SessionStates]
  BY <1>2 DEF StoreTypeOK, SessionStates
<1>4. revision' \in [Sessions -> Nat]
  <2>1. expected + 1 \in Nat
    OBVIOUS
  <2>2. revision \in [Sessions -> Nat]
    BY DEF StoreTypeOK
  <2>3. QED
    BY <1>2, <2>1, <2>2, Zenon
<1>5. /\ phase'      \in [Runs -> Phases]
      /\ runAccount' \in [Runs -> Accounts \cup {NoAccount}]
      /\ runSession' \in [Runs -> Sessions \cup {NoSession}]
      /\ lease'      \in [Accounts -> Runs \cup {NoRun}]
  BY <1>1, <1>2, InsertRunTypeOK
<1>6. QED
  BY <1>2, <1>3, <1>4, <1>5 DEF StoreTypeOK

LEMMA PrepareProbeTypeOK ==
  ASSUME StoreTypeOK, NEW r \in Runs, NEW a \in Accounts \cup {NoAccount},
         PrepareProbeTx(r, a)
  PROVE  StoreTypeOK'
  BY InsertRunTypeOK DEF PrepareProbeTx, StoreTypeOK

LEMMA MarkSpawnedTypeOK ==
  ASSUME StoreTypeOK, NEW r, MarkSpawnedTx(r)
  PROVE  StoreTypeOK'
  BY DEF StoreTypeOK, MarkSpawnedTx, Phases

LEMMA CloseRunTypeOK ==
  ASSUME StoreTypeOK, NEW r, NEW to \in SessionStates, CloseRun(r, to)
  PROVE  StoreTypeOK'
<1>1. state' \in [Sessions -> SessionStates] /\ revision' \in [Sessions -> Nat]
  BY DEF StoreTypeOK, CloseRun, Exists
<1>2. phase' \in [Runs -> Phases] /\ lease' \in [Accounts -> Runs \cup {NoRun}]
  BY DEF StoreTypeOK, CloseRun, Phases
<1>3. UNCHANGED << standing, bound, runAccount, runSession, receipt, transcript >>
  BY DEF CloseRun
<1>4. QED
  BY <1>1, <1>2, <1>3 DEF StoreTypeOK

LEMMA ReceiptTypeOK ==
  ASSUME StoreTypeOK, NEW r, NEW c, InsertReceipt(r, c) \/ SettleToolTx(r, c)
  PROVE  StoreTypeOK'
<1>1. PICK x \in Receipts : receipt' = [receipt EXCEPT ![r][c] = x]
  BY DEF InsertReceipt, SettleToolTx, Receipts
<1>2. receipt' \in [Runs -> [Calls -> Receipts]]
  BY <1>1 DEF StoreTypeOK
<1>3. UNCHANGED << standing, state, revision, bound, phase, runAccount,
                  runSession, lease, transcript >>
  BY DEF InsertReceipt, SettleToolTx
<1>4. QED
  BY <1>2, <1>3 DEF StoreTypeOK

\* The variables of the store keep their types in every step of a terminal.
LEMMA StepStoreTypeOK ==
  ASSUME TypeOK, NEW t \in Terminals, Step(t)
  PROVE  StoreTypeOK'
<1>0. /\ StoreTypeOK
      /\ mem[t].revision \in Nat
      /\ mem[t].account \in Accounts \cup {NoAccount}
  <2>1. mem[t] \in Memory
    BY DEF TypeOK
  <2>2. QED
    BY <2>1 DEF TypeOK, Memory
<1>1. CASE UNCHANGED store
  BY <1>0, <1>1 DEF StoreTypeOK, store
<1>2. ASSUME NEW s \in Sessions, CreateSession(t, s) PROVE StoreTypeOK'
  BY <1>0, <1>2 DEF CreateSession, CreateSessionTx, StoreTypeOK, SessionStates
<1>3. CASE Rebind(t)
  BY <1>0, <1>3, RebindTypeOK DEF Rebind
<1>4. CASE AppendUser(t) \/ AppendTool(t)
  <2>1. PICK s : AppendMessageTx(s, mem[t].revision)
    BY <1>4 DEF AppendUser, AppendTool
  <2>2. TouchSession(s, mem[t].revision) /\ transcript' \in [Runs -> SUBSET Roles]
    BY <1>0, <2>1 DEF AppendMessageTx, StoreTypeOK
  <2>3. QED
    BY <1>0, <2>2, TouchTypeOK
<1>5. ASSUME NEW r \in Runs, PrepareRun(t, r) PROVE StoreTypeOK'
  BY <1>0, <1>5, PrepareRunTypeOK DEF PrepareRun
<1>6. ASSUME NEW r \in Runs, PrepareProbe(t, r) PROVE StoreTypeOK'
  BY <1>0, <1>6, PrepareProbeTypeOK DEF PrepareProbe
<1>7. CASE LaunchNotStarted(t)
  BY <1>0, <1>7, CloseRunTypeOK DEF LaunchNotStarted, SettleTx, SessionStates
<1>8. CASE MarkSpawned(t)
  BY <1>0, <1>8, MarkSpawnedTypeOK DEF MarkSpawned
<1>9. CASE RecordTool(t) \/ SettleTool(t)
  BY <1>0, <1>9, ReceiptTypeOK DEF RecordTool, SettleTool
<1>10. CASE AppendAnswer(t)
  <2>1. NextRole(mem[t].pending) \in Roles
    BY DEF NextRole, Roles
  <2>2. QED
    BY <1>0, <1>10, <2>1, AppendFinalTypeOK DEF AppendAnswer
<1>11. CASE Settle(t)
  <2>1. Classify(mem[t].outcome) \in SessionStates
    BY DEF Classify, SessionStates
  <2>2. QED
    BY <1>0, <1>11, <2>1, CloseRunTypeOK DEF Settle, SettleTx
<1>12. QED
  BY <1>1, <1>2, <1>3, <1>4, <1>5, <1>6, <1>7, <1>8, <1>9, <1>10, <1>11
  DEF Step, Refused, SpawnProcess, LaunchAbandoned, BeginTool, CallTool,
      SettleToolFails, ReadForTool, ReadRevision, ExecutionError, Finish, Join,
      JoinUnproven, ReadForAnswer, FinishAnswers, ReturnUncertain, JoinedError

\* Every step of a terminal keeps the types.
LEMMA StepTypeOK ==
  ASSUME TypeOK, NEW t \in Terminals, Step(t)
  PROVE  TypeOK'
<1> USE DEF TypeOK, world, operator, history, Goto, Pcs, NoRunPcs, LaunchedPcs,
            JoinedPcs
<1>0. StoreTypeOK' /\ mem' \in [Terminals -> Memory]
  BY StepStoreTypeOK, StepMemory
<1>1. ASSUME NEW s \in Sessions, CreateSession(t, s) PROVE TypeOK'
  BY <1>0, <1>1 DEF CreateSession, Return
<1>2. ASSUME Rebind(t) PROVE TypeOK'
  BY <1>0, <1>2 DEF Rebind, Return
<1>3. ASSUME AppendUser(t) PROVE TypeOK'
  BY <1>0, <1>3 DEF AppendUser
<1>4. ASSUME Refused(t) PROVE TypeOK'
  BY <1>0, <1>4 DEF Refused, Return
<1>5. ASSUME NEW r \in Runs, PrepareRun(t, r) PROVE TypeOK'
  BY <1>0, <1>5 DEF PrepareRun, Prepared
<1>6. ASSUME NEW r \in Runs, PrepareProbe(t, r) PROVE TypeOK'
  BY <1>0, <1>6 DEF PrepareProbe, Prepared
<1>7. ASSUME SpawnProcess(t) PROVE TypeOK'
  BY <1>0, <1>7 DEF SpawnProcess
<1>8. ASSUME LaunchNotStarted(t) PROVE TypeOK'
  BY <1>0, <1>8 DEF LaunchNotStarted, Return
<1>9. ASSUME LaunchAbandoned(t) PROVE TypeOK'
  BY ZenonT(60), <1>0, <1>9 DEF LaunchAbandoned, Return
<1>10. ASSUME MarkSpawned(t) PROVE TypeOK'
  BY <1>0, <1>10 DEF MarkSpawned
<1>11. ASSUME NEW c \in Calls, BeginTool(t, c) PROVE TypeOK'
  BY <1>0, <1>11 DEF BeginTool
<1>12. ASSUME RecordTool(t) PROVE TypeOK'
  BY <1>0, <1>12 DEF RecordTool
<1>13. ASSUME CallTool(t) PROVE TypeOK'
  BY <1>0, <1>13 DEF CallTool
<1>14. ASSUME SettleTool(t) PROVE TypeOK'
  BY <1>0, <1>14 DEF SettleTool
<1>15. ASSUME SettleToolFails(t) PROVE TypeOK'
  BY <1>0, <1>15 DEF SettleToolFails
<1>16. ASSUME ReadForTool(t) PROVE TypeOK'
  BY <1>0, <1>16 DEF ReadForTool, ReadRevision
<1>17. ASSUME AppendTool(t) PROVE TypeOK'
  BY <1>0, <1>17 DEF AppendTool
<1>18. ASSUME ExecutionError(t) PROVE TypeOK'
  BY <1>0, <1>18 DEF ExecutionError, FailTurn
<1>19. ASSUME NEW outcome \in Outcomes, Finish(t, outcome) PROVE TypeOK'
  BY <1>0, <1>19 DEF Finish
<1>20. ASSUME Join(t) PROVE TypeOK'
  BY <1>0, <1>20 DEF Join
<1>21. ASSUME JoinUnproven(t) PROVE TypeOK'
  BY <1>0, <1>21 DEF JoinUnproven, Return
<1>22. ASSUME ReadForAnswer(t) PROVE TypeOK'
  BY <1>0, <1>22 DEF ReadForAnswer, ReadRevision
<1>23. ASSUME AppendAnswer(t) PROVE TypeOK'
  BY <1>0, <1>23 DEF AppendAnswer
<1>24. ASSUME FinishAnswers(t) PROVE TypeOK'
  BY <1>0, <1>24 DEF FinishAnswers
<1>25. ASSUME ReturnUncertain(t) PROVE TypeOK'
  BY <1>0, <1>25 DEF ReturnUncertain, Return
<1>26. ASSUME Settle(t) PROVE TypeOK'
  BY <1>0, <1>26 DEF Settle, Return
<1>27. ASSUME JoinedError(t) PROVE TypeOK'
  BY <1>0, <1>27 DEF JoinedError, Return
<1>28. QED
  BY <1>1, <1>2, <1>3, <1>4, <1>5, <1>6, <1>7, <1>8, <1>9, <1>10, <1>11, <1>12, <1>13, <1>14, <1>15, <1>16, <1>17, <1>18, <1>19, <1>20, <1>21, <1>22, <1>23, <1>24, <1>25, <1>26, <1>27 DEF Step

\* So do the requests, the commands, recovery, crashes and exits.
LEMMA OtherTypeOK ==
  ASSUME TypeOK,
         \/ \E t \in Terminals : Request(t)
         \/ \E o \in Operators : Recover(o)
         \/ \E r \in Runs : ProviderExits(r)
         \/ Administer
  PROVE  TypeOK'
<1>1. ASSUME NEW t \in Terminals, NEW s \in Sessions \cup {NoSession},
             NEW a \in Accounts \cup {NoAccount}, NEW n \in Nat,
             Remember(t, s, a, n)
      PROVE  mem' \in [Terminals -> Memory]
  <2>1. mem[t] \in Memory /\ mem \in [Terminals -> Memory]
    BY DEF TypeOK
  <2>2. [mem[t] EXCEPT !.session = s, !.account = a, !.revision = n] \in Memory
    BY <2>1 DEF Memory
  <2>3. QED
    BY <1>1, <2>1, <2>2 DEF Remember
<1>2. ASSUME NEW t \in Terminals, Request(t) PROVE TypeOK'
  <2> USE DEF TypeOK, Goto, Pcs, NoRunPcs, world, operator, history
  <2>1. ASSUME NEW s \in Sessions, LoadSession(t, s) PROVE TypeOK'
    <3>1. revision[s] \in Nat
      BY DEF StoreTypeOK
    <3>2. UNCHANGED store /\ mem' \in [Terminals -> Memory]
      BY <1>1, <2>1, <3>1 DEF LoadSession
    <3>3. QED
      BY <2>1, <3>2 DEF LoadSession, store, StoreTypeOK
  <2>2. ASSUME NEW a \in Accounts, NEW s \in Sessions \cup {NoSession},
               NEW n \in Nat, NEW to \in {"creating", "probing", "rebinding"},
               ReadAccount(t, to, s, n, a)
        PROVE  TypeOK'
    <3>1. UNCHANGED store /\ mem' \in [Terminals -> Memory]
      BY <1>1, <2>2 DEF ReadAccount
    <3>2. QED
      BY <2>2, <3>1 DEF ReadAccount, store, StoreTypeOK
  <2>3. ASSUME NEW a \in Accounts, BeginCreate(t, a) \/ BeginProbe(t, a)
        PROVE  TypeOK'
    BY <2>2, <2>3 DEF BeginCreate, BeginProbe
  <2>4. ASSUME NEW s \in Sessions, NEW a \in Accounts, BeginRebind(t, s, a)
        PROVE  TypeOK'
    <3>1. revision[s] \in Nat
      BY DEF StoreTypeOK
    <3>2. QED
      BY <2>2, <2>4, <3>1 DEF BeginRebind
  <2>5. CASE Crash(t)
    BY <2>5, BlankIsMemory DEF Crash, store, StoreTypeOK
  <2>6. QED
    BY <1>2, <2>1, <2>3, <2>4, <2>5 DEF Request
<1>3. ASSUME NEW o \in Operators, Recover(o) PROVE TypeOK'
  <2> USE DEF TypeOK, OperatorDone, world, history
  <2>1. ASSUME NEW r \in Runs, RecoveryCandidate(o, r) PROVE TypeOK'
    BY <2>1 DEF RecoveryCandidate, store, StoreTypeOK
  <2>2. CASE ProveGroupAbsent(o)
    BY <2>2 DEF ProveGroupAbsent, store, StoreTypeOK
  <2>3. CASE RecoverRun(o)
    <3>1. StoreTypeOK'
      BY <2>3, CloseRunTypeOK DEF RecoverRun, RecoverRunTx, SessionStates
    <3>2. opRun[o] \in Runs
      BY <2>3 DEF RecoverRun
    <3>3. QED
      BY <2>3, <3>1, <3>2 DEF RecoverRun
  <2>4. CASE RecoverRefused(o)
    BY <2>4 DEF RecoverRefused, store, StoreTypeOK
  <2>5. QED
    BY <1>3, <2>1, <2>2, <2>3, <2>4 DEF Recover
<1>4. ASSUME NEW r \in Runs, ProviderExits(r) PROVE TypeOK'
  BY <1>4 DEF ProviderExits, TypeOK, store, StoreTypeOK, operator, history
<1>5. ASSUME Administer PROVE TypeOK'
  <2>1. ASSUME NEW a \in Accounts, AddAccount(a) PROVE StoreTypeOK' /\ UNCHANGED runner
    BY <2>1 DEF AddAccount, AddAccountTx, TypeOK, StoreTypeOK
  <2>2. ASSUME NEW a \in Accounts, NEW to \in {"enabled", "disabled"},
               SetAccountEnabled(a, to)
        PROVE  StoreTypeOK' /\ UNCHANGED runner
    BY <2>2 DEF SetAccountEnabled, SetAccountEnabledTx, TypeOK, StoreTypeOK
  <2>3. ASSUME NEW s \in Sessions, SelectPane(s) PROVE StoreTypeOK' /\ UNCHANGED runner
    <3>1. revision[s] \in Nat /\ StoreTypeOK /\ UNCHANGED transcript
          /\ TouchSession(s, revision[s]) /\ UNCHANGED runner
      BY <2>3 DEF SelectPane, SelectPaneTx, TypeOK, StoreTypeOK
    <3>2. QED
      BY <3>1, TouchTypeOK DEF StoreTypeOK
  <2>4. ASSUME NEW s \in Sessions, RemoveSession(s) PROVE StoreTypeOK' /\ UNCHANGED runner
    BY <2>4, RemoveSessionTypeOK DEF RemoveSession, TypeOK
  <2>5. StoreTypeOK' /\ UNCHANGED runner
    BY <1>5, <2>1, <2>2, <2>3, <2>4 DEF Administer
  <2>6. QED
    BY <2>5 DEF TypeOK, runner
<1>6. QED
  BY <1>2, <1>3, <1>4, <1>5

LEMMA NextTypeOK == TypeOK /\ [Next]_vars => TypeOK'
<1> SUFFICES ASSUME TypeOK, [Next]_vars PROVE TypeOK'
  OBVIOUS
<1>1. CASE Next
  BY <1>1, NextCases, StepTypeOK, OtherTypeOK
<1>2. CASE UNCHANGED vars
  BY <1>2 DEF vars, store, runner, TypeOK, StoreTypeOK
<1>3. QED
  BY <1>1, <1>2

\* Every table, every process and every program counter keeps the type it is
\* given in XcbStore and XcbRunner: no row of the store ever names an account,
\* a session or a run that does not exist.
THEOREM TypeCorrect == Spec => []TypeOK
  BY InitTypeOK, NextTypeOK, PTL DEF Spec

-----------------------------------------------------------------------------
(* Custody.  An account belongs to the run whose provider may be alive, and *)
(* to that run only: CustodyInv is inductive, and with it every step of the *)
(* detailed system is a step of AccountCustody.                            *)

\* The rows custody is about, and what else a step of a terminal shares.
Tables == << state, bound, phase, runAccount, runSession, lease >>
Shared == << Tables, provider, operator >>

\* CustodyInv without the terminals.
TablesInv ==
  /\ LeaseMatchesRuns
  /\ \A r \in Runs : RunSound(r)
  /\ \A s \in Sessions : Exists(s) => bound[s] \in Accounts
  /\ \A o \in Operators : OperatorSound(o)

LEMMA InitCustody == Init => CustodyInv
  BY RunnerAssumption, StoreAssumption
  DEF Init, StoreInit, CustodyInv, LeaseMatchesRuns, RunSound, Unsettled, Exists,
      TerminalSound, OwnRuns, OperatorSound, NoRunPcs, JoinedPcs

-----------------------------------------------------------------------------
(***************************************************************************)
(* Steps that leave the tables, the processes and the recover commands     *)
(* alone can only disturb what the terminal itself stands for.             *)
(***************************************************************************)
LEMMA SharedKept ==
  ASSUME CustodyInv, UNCHANGED Shared
  PROVE  TablesInv'
  BY DEF CustodyInv, TablesInv, Shared, Tables, operator, LeaseMatchesRuns,
         RunSound, Unsettled, Exists, OperatorSound

\* Terminal t moves on and no other terminal does.
LEMMA OnlyMoves ==
  ASSUME TypeOK, CustodyInv, UNCHANGED Shared, NEW t \in Terminals, NEW x,
         pc' = [pc EXCEPT ![t] = x],
         \A u \in Terminals \ {t} : cur'[u] = cur[u] /\ mem'[u] = mem[u],
         cur'[t] \in {cur[t], NoRun},
         TerminalSound(t)'
  PROVE  CustodyInv'
<1>1. ASSUME NEW u \in Terminals PROVE TerminalSound(u)'
  <2>1. CASE u = t
    BY <2>1
  <2>2. CASE u # t
    BY <2>2 DEF TypeOK, CustodyInv, TerminalSound, Shared, Tables
  <2>3. QED
    BY <2>1, <2>2
<1>2. OwnRuns'
  BY DEF CustodyInv, OwnRuns
<1>3. QED
  BY <1>1, <1>2, SharedKept DEF CustodyInv, TablesInv

LEMMA ReturnStep ==
  ASSUME TypeOK, CustodyInv, UNCHANGED Shared, NEW t \in Terminals,
         NEW x \in {"idle", "dead"},
         pc'  = [pc EXCEPT ![t] = x],
         cur' = [cur EXCEPT ![t] = NoRun],
         mem' = [mem EXCEPT ![t] = Blank]
  PROVE  CustodyInv'
<1>1. /\ pc'[t] = x /\ cur'[t] = NoRun
      /\ \A u \in Terminals \ {t} : cur'[u] = cur[u] /\ mem'[u] = mem[u]
  BY DEF TypeOK
<1>2. TerminalSound(t)'
  BY <1>1 DEF TerminalSound, NoRunPcs, JoinedPcs
<1>3. QED
  BY <1>1, <1>2, OnlyMoves

\* From one state of a launched, of a joined or of a waiting terminal to
\* another of the same kind.
LEMMA MovesWithin ==
  ASSUME TypeOK, CustodyInv, UNCHANGED << Shared, cur >>, NEW t \in Terminals,
         NEW x, pc' = [pc EXCEPT ![t] = x],
         \A u \in Terminals \ {t} : mem'[u] = mem[u],
         \/ pc[t] \in LaunchedPcs /\ x \in LaunchedPcs
         \/ pc[t] \in JoinedPcs /\ x \in JoinedPcs
         \/ pc[t] \in NoRunPcs /\ x \in {"submitting", "launching"}
         \/ /\ pc[t] \in NoRunPcs /\ x \in {"creating", "probing", "rebinding"}
            /\ mem'[t].account \in Accounts
  PROVE  CustodyInv'
<1>1. pc'[t] = x /\ cur'[t] = cur[t] /\ TerminalSound(t)
  BY DEF TypeOK, CustodyInv
<1>2. TerminalSound(t)'
  BY <1>1 DEF TerminalSound, LaunchedPcs, JoinedPcs, NoRunPcs, Shared, Tables
<1>3. QED
  BY <1>1, <1>2, OnlyMoves

-----------------------------------------------------------------------------
(***************************************************************************)
(* Steps that change the tables or the processes.                          *)
(***************************************************************************)
\* A run is inserted, its account leased, and terminal t drives it.
LEMMA PreparedKeeps ==
  ASSUME TypeOK, CustodyInv, NEW t \in Terminals, NEW r \in Runs,
         NEW a \in Accounts, NEW s \in Sessions \cup {NoSession},
         pc[t] \in NoRunPcs, lease[a] = NoRun, InsertRun(r, a, s), Prepared(t, r),
         UNCHANGED bound,
         \A q \in Sessions : Exists(q)' => Exists(q)
  PROVE  CustodyInv'
<1> USE DEF TypeOK, StoreTypeOK, InsertRun, Prepared, operator
<1>0. NoRun \notin Runs
  BY StoreAssumption
<1>1. LeaseMatchesRuns'
  <2>1. ASSUME NEW q \in Runs, NEW b \in Accounts
        PROVE  lease'[b] = q <=> Unsettled(q)' /\ runAccount'[q] = b
    <3>1. lease[b] = q <=> Unsettled(q) /\ runAccount[q] = b
      BY DEF CustodyInv, LeaseMatchesRuns
    <3>2. CASE q = r
      BY <3>1, <3>2, <1>0 DEF Unsettled
    <3>3. CASE q # r
      <4>1. Unsettled(q)' = Unsettled(q) /\ runAccount'[q] = runAccount[q]
        BY <3>3 DEF Unsettled
      <4>2. lease'[b] = IF b = a THEN r ELSE lease[b]
        OBVIOUS
      <4>3. QED
        BY <3>1, <3>3, <4>1, <4>2, <1>0
    <3>4. QED
      BY <3>2, <3>3
  <2>2. QED
    BY <2>1 DEF LeaseMatchesRuns
<1>2. ASSUME NEW q \in Runs PROVE RunSound(q)'
  BY DEF CustodyInv, RunSound, Unsettled
<1>3. ASSUME NEW q \in Sessions, Exists(q)' PROVE bound'[q] \in Accounts
  BY <1>3 DEF CustodyInv
<1>4. ASSUME NEW u \in Terminals PROVE TerminalSound(u)' /\ (u # t => cur'[u] # r)
  <2>1. cur[u] # r
    BY <1>0 DEF CustodyInv, TerminalSound
  <2>2. CASE u = t
    BY <2>2, <1>0 DEF CustodyInv, TerminalSound, RunSound, NoRunPcs, JoinedPcs
  <2>3. CASE u # t
    BY <2>1, <2>3, <1>0 DEF CustodyInv, TerminalSound, Pcs, NoRunPcs, JoinedPcs
  <2>4. QED
    BY <2>2, <2>3, <2>1
<1>5. OwnRuns'
  BY <1>4 DEF CustodyInv, OwnRuns
<1>6. ASSUME NEW o \in Operators PROVE OperatorSound(o)'
  BY DEF CustodyInv, OperatorSound
<1>7. QED
  BY <1>1, <1>2, <1>3, <1>4, <1>5, <1>6 DEF CustodyInv

\* A run that holds its account is settled while its provider is not alive.
LEMMA ClosesTables ==
  ASSUME TypeOK, CustodyInv, NEW r \in Runs, NEW to,
         HeldBy(runAccount[r], r), phase[r] # "absent", provider[r] # "alive",
         to \notin {"absent", "removed"}, CloseRun(r, to), UNCHANGED provider
  PROVE  /\ LeaseMatchesRuns'
         /\ \A q \in Runs : RunSound(q)'
         /\ \A s \in Sessions : Exists(s)' => bound'[s] \in Accounts
         /\ phase' = [phase EXCEPT ![r] = "settled"]
         /\ Unsettled(r)
<1>0. /\ phase' = [phase EXCEPT ![r] = "settled"]
      /\ lease' = [lease EXCEPT ![runAccount[r]] = NoRun]
      /\ UNCHANGED << bound, runAccount, runSession >>
      /\ runAccount[r] \in Accounts
      /\ lease[runAccount[r]] = r
      /\ NoRun \notin Runs
      /\ phase \in [Runs -> Phases]
      /\ lease \in [Accounts -> Runs \cup {NoRun}]
  BY StoreAssumption DEF CloseRun, CustodyInv, RunSound, HeldBy, TypeOK, StoreTypeOK
<1>1. LeaseMatchesRuns'
  <2>1. ASSUME NEW q \in Runs, NEW b \in Accounts
        PROVE  lease'[b] = q <=> Unsettled(q)' /\ runAccount'[q] = b
    <3>1. /\ lease[b] = q <=> Unsettled(q) /\ runAccount[q] = b
      BY DEF CustodyInv, LeaseMatchesRuns
    <3>2. lease'[b] = IF b = runAccount[r] THEN NoRun ELSE lease[b]
      BY <1>0
    <3>3. CASE q = r
      BY <3>1, <3>2, <3>3, <1>0 DEF Unsettled
    <3>4. CASE q # r
      <4>1. Unsettled(q)' = Unsettled(q) /\ runAccount'[q] = runAccount[q]
        BY <3>4, <1>0 DEF Unsettled
      <4>2. QED
        BY <3>1, <3>2, <3>4, <4>1, <1>0
    <3>5. QED
      BY <3>3, <3>4
  <2>2. QED
    BY <2>1 DEF LeaseMatchesRuns
<1>2. ASSUME NEW q \in Runs PROVE RunSound(q)'
  BY <1>0 DEF CustodyInv, RunSound, Unsettled
<1>3. ASSUME NEW s \in Sessions, Exists(s)' PROVE bound'[s] \in Accounts
  <2>1. Exists(s)
    BY <1>3 DEF CloseRun, Exists, TypeOK, StoreTypeOK
  <2>2. QED
    BY <2>1, <1>0 DEF CustodyInv
<1>4. Unsettled(r)
  BY <1>0 DEF CustodyInv, LeaseMatchesRuns
<1>5. QED
  BY <1>0, <1>1, <1>2, <1>3, <1>4

\* The terminal that drives the run settles it and returns.
LEMMA SettlesKeeps ==
  ASSUME TypeOK, CustodyInv, NEW t \in Terminals, NEW to,
         pc[t] \in {"prepared", "settling"}, SettleTx(cur[t], to),
         to \notin {"absent", "removed"}, Return(t), UNCHANGED << provider, operator >>
  PROVE  CustodyInv'
<1>1. /\ cur[t] \in Runs
      /\ phase[cur[t]] # "absent"
      /\ provider[cur[t]] # "alive"
  BY DEF CustodyInv, TerminalSound, TypeOK, NoRunPcs, JoinedPcs
<1>2. /\ LeaseMatchesRuns'
      /\ \A q \in Runs : RunSound(q)'
      /\ \A s \in Sessions : Exists(s)' => bound'[s] \in Accounts
      /\ phase' = [phase EXCEPT ![cur[t]] = "settled"]
  BY <1>1, ClosesTables DEF SettleTx
<1>3. ASSUME NEW u \in Terminals PROVE TerminalSound(u)'
  <2>1. CASE u = t
    BY <2>1 DEF Return, TypeOK, TerminalSound, NoRunPcs, JoinedPcs
  <2>2. CASE u # t
    <3>1. cur[u] # cur[t] /\ TerminalSound(u)
      BY <1>1, <2>2, StoreAssumption DEF CustodyInv, OwnRuns
    <3>2. pc'[u] = pc[u] /\ cur'[u] = cur[u] /\ mem'[u] = mem[u]
      BY <2>2 DEF Return, TypeOK
    <3>3. phase'[cur[u]] = phase[cur[u]]
      BY <1>2, <3>1 DEF TypeOK, StoreTypeOK
    <3>4. QED
      BY <3>1, <3>2, <3>3 DEF TerminalSound
  <2>3. QED
    BY <2>1, <2>2
<1>4. OwnRuns'
  BY DEF Return, TypeOK, CustodyInv, OwnRuns
<1>5. ASSUME NEW o \in Operators PROVE OperatorSound(o)'
  BY <1>2 DEF CustodyInv, OperatorSound, operator, TypeOK, StoreTypeOK
<1>6. QED
  BY <1>2, <1>3, <1>4, <1>5 DEF CustodyInv

\* The process of the terminal's own prepared run comes into being, or fails
\* to, or the process of a run goes.
LEMMA ProviderStarts ==
  ASSUME TypeOK, CustodyInv, NEW t \in Terminals, NEW x \in {"none", "alive"},
         pc[t] = "prepared", provider' = [provider EXCEPT ![cur[t]] = x],
         UNCHANGED << Tables, operator >>,
         \/ pc' = [pc EXCEPT ![t] = "spawned"] /\ UNCHANGED << cur, mem >>
         \/ Return(t)
  PROVE  CustodyInv'
<1>1. cur[t] \in Runs /\ phase[cur[t]] = "prepared"
  BY DEF CustodyInv, TerminalSound, TypeOK, NoRunPcs
<1>2. LeaseMatchesRuns' /\ \A s \in Sessions : Exists(s)' => bound'[s] \in Accounts
  BY DEF CustodyInv, LeaseMatchesRuns, Unsettled, Exists, Tables
<1>3. ASSUME NEW q \in Runs PROVE RunSound(q)'
  BY <1>1 DEF CustodyInv, RunSound, Unsettled, Tables, TypeOK
<1>4. ASSUME NEW u \in Terminals PROVE TerminalSound(u)'
  <2>1. TerminalSound(u)
    BY DEF CustodyInv
  <2>2. CASE u = t
    BY <1>1, <2>1, <2>2
    DEF Return, TypeOK, TerminalSound, NoRunPcs, JoinedPcs, Tables
  <2>3. CASE u # t
    <3>1. cur[u] # cur[t]
      BY <1>1, <2>3, StoreAssumption DEF CustodyInv, OwnRuns
    <3>2. pc'[u] = pc[u] /\ cur'[u] = cur[u] /\ mem'[u] = mem[u]
      BY <2>3 DEF Return, TypeOK
    <3>3. provider'[cur[u]] = provider[cur[u]] /\ phase'[cur[u]] = phase[cur[u]]
      BY <3>1 DEF TypeOK, Tables
    <3>4. QED
      BY <2>1, <3>2, <3>3 DEF TerminalSound
  <2>4. QED
    BY <2>2, <2>3
<1>5. OwnRuns'
  BY DEF Return, TypeOK, CustodyInv, OwnRuns
<1>6. ASSUME NEW o \in Operators PROVE OperatorSound(o)'
  <2>1. OperatorSound(o) /\ (opPc[o] # "idle" => opRun[o] \in Runs)
    BY DEF CustodyInv, TypeOK
  <2>2. opPc[o] # "idle" => opRun[o] # cur[t]
    BY <1>1, <2>1 DEF OperatorSound
  <2>3. QED
    BY <2>1, <2>2 DEF OperatorSound, operator, Tables, TypeOK
<1>7. QED
  BY <1>2, <1>3, <1>4, <1>5, <1>6 DEF CustodyInv

LEMMA ProviderGoes ==
  ASSUME TypeOK, CustodyInv, NEW r \in Runs, phase[r] # "absent",
         provider' = [provider EXCEPT ![r] = "gone"],
         UNCHANGED << Tables, operator, cur >>,
         \/ UNCHANGED << pc, mem >> /\ provider[r] = "alive"
         \/ \E t \in Terminals : /\ cur[t] = r
                                 /\ Goto(t, "stopping", "joined")
                                 /\ \A u \in Terminals \ {t} : mem'[u] = mem[u]
  PROVE  CustodyInv'
<1>1. LeaseMatchesRuns' /\ \A s \in Sessions : Exists(s)' => bound'[s] \in Accounts
  BY DEF CustodyInv, LeaseMatchesRuns, Unsettled, Exists, Tables
<1>2. ASSUME NEW q \in Runs PROVE RunSound(q)'
  BY DEF CustodyInv, RunSound, Unsettled, Tables, TypeOK
<1>3. ASSUME NEW u \in Terminals PROVE TerminalSound(u)'
  <2>1. TerminalSound(u)
    BY DEF CustodyInv
  <2>2. provider'[cur[u]] = IF cur[u] = r THEN "gone" ELSE provider[cur[u]]
    BY StoreAssumption, <2>1 DEF TypeOK
  <2>3. CASE UNCHANGED << pc, mem >> /\ provider[r] = "alive"
    BY <2>1, <2>2, <2>3 DEF TerminalSound, Tables
  <2>4. ASSUME NEW t \in Terminals, cur[t] = r, Goto(t, "stopping", "joined"),
               \A v \in Terminals \ {t} : mem'[v] = mem[v]
        PROVE  TerminalSound(u)'
    <3>1. CASE u = t
      BY <2>1, <2>2, <2>4, <3>1 DEF Goto, TypeOK, TerminalSound, NoRunPcs, JoinedPcs, Tables
    <3>2. CASE u # t
      <4>1. cur[u] # r
        BY <2>4, <3>2, StoreAssumption DEF CustodyInv, OwnRuns
      <4>2. QED
        BY <2>1, <2>2, <2>4, <3>2, <4>1 DEF Goto, TypeOK, TerminalSound, Tables
    <3>3. QED
      BY <3>1, <3>2
  <2>5. QED
    BY <2>3, <2>4
<1>4. OwnRuns'
  BY DEF CustodyInv, OwnRuns
<1>5. ASSUME NEW o \in Operators PROVE OperatorSound(o)'
  BY DEF CustodyInv, OperatorSound, operator, Tables, TypeOK
<1>6. QED
  BY <1>1, <1>2, <1>3, <1>4, <1>5 DEF CustodyInv

LEMMA MarkSpawnedKeeps ==
  ASSUME TypeOK, CustodyInv, NEW t \in Terminals, MarkSpawned(t)
  PROVE  CustodyInv'
<1>1. /\ cur[t] \in Runs
      /\ phase[cur[t]] = "prepared"
      /\ phase' = [phase EXCEPT ![cur[t]] = "running"]
      /\ UNCHANGED << state, bound, runAccount, runSession, lease, provider,
                      operator, cur, mem >>
      /\ pc[t] = "spawned"
      /\ pc' = [pc EXCEPT ![t] = "executing"]
  BY DEF MarkSpawned, MarkSpawnedTx, Goto, world, operator, CustodyInv,
     TerminalSound, TypeOK, NoRunPcs
<1>2. ASSUME NEW q \in Runs
      PROVE  /\ Unsettled(q)' = Unsettled(q)
             /\ (phase'[q] = "absent") = (phase[q] = "absent")
  BY <1>1 DEF Unsettled, TypeOK, StoreTypeOK
<1>3. LeaseMatchesRuns'
  BY <1>1, <1>2 DEF CustodyInv, LeaseMatchesRuns
<1>4. ASSUME NEW q \in Runs PROVE RunSound(q)'
  BY <1>1, <1>2 DEF CustodyInv, RunSound
<1>5. ASSUME NEW s \in Sessions, Exists(s)' PROVE bound'[s] \in Accounts
  BY <1>1, <1>5 DEF CustodyInv, Exists
<1>6. ASSUME NEW u \in Terminals PROVE TerminalSound(u)'
  <2>1. TerminalSound(u)
    BY DEF CustodyInv
  <2>2. CASE u = t
    BY <1>1, <2>1, <2>2 DEF TypeOK, StoreTypeOK, TerminalSound, NoRunPcs, JoinedPcs
  <2>3. CASE u # t
    <3>1. cur[u] # cur[t]
      BY <1>1, <2>3, StoreAssumption DEF CustodyInv, OwnRuns
    <3>2. QED
      BY <1>1, <2>1, <2>3, <3>1 DEF TypeOK, StoreTypeOK, TerminalSound
  <2>4. QED
    BY <2>2, <2>3
<1>7. OwnRuns'
  BY <1>1 DEF CustodyInv, OwnRuns
<1>8. ASSUME NEW o \in Operators PROVE OperatorSound(o)'
  BY <1>1 DEF CustodyInv, OperatorSound, operator, TypeOK, StoreTypeOK
<1>9. QED
  BY <1>3, <1>4, <1>5, <1>6, <1>7, <1>8 DEF CustodyInv

-----------------------------------------------------------------------------
\* The command-line recovery settles the run it has proved to be stopped.
LEMMA RecoverKeeps ==
  ASSUME TypeOK, CustodyInv, NEW o \in Operators, Recover(o)
  PROVE  CustodyInv'
<1>1. CASE RecoverRun(o)
  <2>1. /\ opRun[o] \in Runs
        /\ phase[opRun[o]] # "absent"
        /\ provider[opRun[o]] # "alive"
        /\ HeldBy(runAccount[opRun[o]], opRun[o])
        /\ CloseRun(opRun[o], "Uncertain")
        /\ phase[opRun[o]] = "running"
        /\ UNCHANGED << provider, pc, cur, mem >>
        /\ OperatorDone(o)
    BY <1>1 DEF RecoverRun, RecoverRunTx, CustodyInv, OperatorSound, TypeOK, world
  <2>2. /\ LeaseMatchesRuns'
        /\ \A q \in Runs : RunSound(q)'
        /\ \A s \in Sessions : Exists(s)' => bound'[s] \in Accounts
        /\ phase' = [phase EXCEPT ![opRun[o]] = "settled"]
    BY <2>1, ClosesTables
  <2>3. ASSUME NEW u \in Terminals PROVE TerminalSound(u)'
    <3>1. TerminalSound(u) /\ phase'[cur[u]] =
            IF cur[u] = opRun[o] THEN "settled" ELSE phase[cur[u]]
      BY <2>1, <2>2, StoreAssumption DEF CustodyInv, TypeOK, StoreTypeOK
    <3>2. QED
      BY <2>1, <3>1 DEF TerminalSound
  <2>4. OwnRuns'
    BY <2>1 DEF CustodyInv, OwnRuns
  <2>5. ASSUME NEW p \in Operators PROVE OperatorSound(p)'
    BY <2>1, <2>2 DEF CustodyInv, OperatorSound, OperatorDone, TypeOK, StoreTypeOK
  <2>6. QED
    BY <2>2, <2>3, <2>4, <2>5 DEF CustodyInv
<1>2. CASE \/ \E r \in Runs : RecoveryCandidate(o, r)
           \/ ProveGroupAbsent(o) \/ RecoverRefused(o)
  <2>1. UNCHANGED << Tables, provider, pc, cur, mem >>
    BY <1>2 DEF RecoveryCandidate, ProveGroupAbsent, RecoverRefused, store,
       world, Tables
  <2>2. ASSUME NEW p \in Operators PROVE OperatorSound(p)'
    <3>1. OperatorSound(p) /\ UNCHANGED << phase, provider >>
      BY <2>1 DEF CustodyInv, Tables
    <3>2. CASE p # o
      BY <1>2, <3>1, <3>2 DEF RecoveryCandidate, ProveGroupAbsent,
         RecoverRefused, OperatorDone, OperatorSound, TypeOK
    <3>3. CASE p = o
      BY <1>2, <3>1, <3>3 DEF RecoveryCandidate, ProveGroupAbsent,
         RecoverRefused, OperatorDone, OperatorSound, TypeOK
    <3>4. QED
      BY <3>2, <3>3
  <2>3. QED
    BY <2>1, <2>2 DEF CustodyInv, Tables, LeaseMatchesRuns, RunSound, Unsettled,
       Exists, TerminalSound, OwnRuns
<1>3. QED
  BY <1>1, <1>2 DEF Recover

\* The commands that prepare no run.
LEMMA AdministerKeeps ==
  ASSUME TypeOK, CustodyInv, Administer
  PROVE  CustodyInv'
<1>1. ASSUME UNCHANGED << runner, Tables >> PROVE CustodyInv'
  BY <1>1 DEF runner, Tables, CustodyInv, LeaseMatchesRuns, RunSound, Unsettled,
     Exists, TerminalSound, OwnRuns, OperatorSound
<1>2. ASSUME NEW s \in Sessions, RemoveSession(s) PROVE CustodyInv'
  <2>1. /\ ~ SessionBusy(s)
        /\ state' = [state EXCEPT ![s] = "removed"]
        /\ phase' = [r \in Runs |-> IF runSession[r] = s THEN "removed" ELSE phase[r]]
        /\ UNCHANGED << bound, runAccount, runSession, lease, runner >>
    BY <1>2 DEF RemoveSession, RemoveSessionTx
  <2>2. ASSUME NEW q \in Runs
        PROVE  /\ Unsettled(q)' = Unsettled(q)
               /\ (phase'[q] = "absent") = (phase[q] = "absent")
               /\ phase'[q] \in {phase[q], "removed"}
               /\ Unsettled(q) => phase'[q] = phase[q]
    BY <2>1, StoreAssumption DEF SessionBusy, Unsettled, CustodyInv, RunSound
  <2>3. LeaseMatchesRuns'
    BY <2>1, <2>2 DEF CustodyInv, LeaseMatchesRuns
  <2>4. ASSUME NEW q \in Runs PROVE RunSound(q)'
    BY <2>1, <2>2 DEF CustodyInv, RunSound, runner
  <2>5. ASSUME NEW q \in Sessions, Exists(q)' PROVE bound'[q] \in Accounts
    BY <2>1, <2>5 DEF CustodyInv, Exists, TypeOK, StoreTypeOK
  <2>6. ASSUME NEW u \in Terminals PROVE TerminalSound(u)'
    <3>1. TerminalSound(u) /\ UNCHANGED << pc, cur, mem, provider >>
      BY <2>1 DEF CustodyInv, runner
    <3>2. cur[u] # NoRun => cur[u] \in Runs
      BY DEF TypeOK
    <3>3. QED
      BY <2>2, <3>1, <3>2 DEF TerminalSound, Unsettled, NoRunPcs, JoinedPcs
  <2>7. OwnRuns'
    BY <2>1 DEF CustodyInv, OwnRuns, runner
  <2>8. ASSUME NEW o \in Operators PROVE OperatorSound(o)'
    BY <2>1, <2>2 DEF CustodyInv, OperatorSound, runner, TypeOK
  <2>9. QED
    BY <2>3, <2>4, <2>5, <2>6, <2>7, <2>8 DEF CustodyInv
<1>3. CASE UNCHANGED << runner, Tables >>
  BY <1>1, <1>3
<1>4. QED
  BY <1>1, <1>2 DEF Administer, AddAccount, AddAccountTx, SetAccountEnabled,
     SetAccountEnabledTx, SelectPane, SelectPaneTx, TouchSession, Tables

LEMMA RequestKeeps ==
  ASSUME TypeOK, CustodyInv, NEW t \in Terminals, Request(t)
  PROVE  CustodyInv'
<1>1. ASSUME NEW s \in Sessions, LoadSession(t, s) PROVE CustodyInv'
  <2>1. /\ UNCHANGED << Shared, cur >> /\ pc[t] \in NoRunPcs
        /\ pc' = [pc EXCEPT ![t] = "submitting"]
        /\ \A u \in Terminals \ {t} : mem'[u] = mem[u]
    BY <1>1 DEF LoadSession, Goto, Remember, Shared, Tables, store, world,
       operator, NoRunPcs, TypeOK
  <2>2. QED
    BY <2>1, MovesWithin
<1>2. ASSUME NEW s, NEW a \in Accounts, NEW n,
             NEW to \in {"creating", "probing", "rebinding"},
             ReadAccount(t, to, s, n, a)
      PROVE  CustodyInv'
  <2>1. /\ UNCHANGED << Shared, cur >> /\ pc[t] \in NoRunPcs
        /\ pc' = [pc EXCEPT ![t] = to]
        /\ \A u \in Terminals \ {t} : mem'[u] = mem[u]
    BY <1>2 DEF ReadAccount, Goto, Remember, Shared, Tables, store, world,
       operator, NoRunPcs, TypeOK
  <2>2. mem'[t].account = a
    <3>1. mem[t] \in Memory
      BY DEF TypeOK
    <3>2. mem'[t] = [mem[t] EXCEPT !.session = s, !.account = a, !.revision = n]
      BY <1>2 DEF ReadAccount, Remember, TypeOK
    <3>3. QED
      BY <3>1, <3>2 DEF Memory
  <2>3. QED
    BY <2>1, <2>2, MovesWithin
<1>3. CASE Crash(t)
  <2>1. /\ UNCHANGED Shared
        /\ pc'  = [pc EXCEPT ![t] = "dead"]
        /\ cur' = [cur EXCEPT ![t] = NoRun]
        /\ mem' = [mem EXCEPT ![t] = Blank]
    BY <1>3 DEF Crash, Shared, Tables, store, world, operator
  <2>2. QED
    BY <2>1, ReturnStep
<1>4. QED
  BY <1>1, <1>2, <1>3 DEF Request, BeginCreate, BeginProbe, BeginRebind

\* The steps of a terminal that neither prepare, launch, join nor settle.
LEMMA QuietSteps ==
  ASSUME TypeOK, CustodyInv, NEW t \in Terminals
  PROVE  /\ \/ Refused(t) \/ JoinUnproven(t) \/ ReturnUncertain(t) \/ JoinedError(t)
            => CustodyInv'
         /\ \/ AppendUser(t) \/ RecordTool(t) \/ CallTool(t) \/ SettleTool(t)
            \/ SettleToolFails(t) \/ ReadForTool(t) \/ AppendTool(t)
            \/ ExecutionError(t) \/ ReadForAnswer(t) \/ AppendAnswer(t)
            \/ FinishAnswers(t) \/ (\E c \in Calls : BeginTool(t, c))
            \/ (\E outcome \in Outcomes : Finish(t, outcome))
            => CustodyInv' /\ UNCHANGED Shared
<1>1. ASSUME Refused(t) \/ JoinUnproven(t) \/ ReturnUncertain(t) \/ JoinedError(t)
      PROVE  CustodyInv'
  <2>1. UNCHANGED Shared /\ Return(t)
    BY <1>1 DEF Refused, JoinUnproven, ReturnUncertain, JoinedError, Shared,
       Tables, store, world
  <2>2. QED
    BY <2>1, ReturnStep DEF Return
<1>2. ASSUME \/ AppendUser(t) \/ RecordTool(t) \/ CallTool(t) \/ SettleTool(t)
             \/ SettleToolFails(t) \/ ReadForTool(t) \/ AppendTool(t)
             \/ ExecutionError(t) \/ ReadForAnswer(t) \/ AppendAnswer(t)
             \/ FinishAnswers(t) \/ (\E c \in Calls : BeginTool(t, c))
             \/ (\E outcome \in Outcomes : Finish(t, outcome))
      PROVE  CustodyInv' /\ UNCHANGED Shared
  <2>1. UNCHANGED Shared
    BY <1>2 DEF AppendUser, RecordTool, CallTool, SettleTool, SettleToolFails,
       ReadForTool, ReadForAnswer, ReadRevision, AppendTool, ExecutionError,
       AppendAnswer, FinishAnswers, BeginTool, Finish, AppendMessageTx,
       AppendFinalTx, TouchSession, InsertReceipt, SettleToolTx, Shared, Tables,
       store, world
  <2>2. UNCHANGED cur /\ \A u \in Terminals \ {t} : mem'[u] = mem[u]
    BY <1>2 DEF AppendUser, RecordTool, CallTool, SettleTool, SettleToolFails,
       ReadForTool, ReadForAnswer, ReadRevision, AppendTool, ExecutionError,
       FailTurn, AppendAnswer, FinishAnswers, BeginTool, Finish, TypeOK
  <2>3. \E x : /\ pc' = [pc EXCEPT ![t] = x]
               /\ \/ pc[t] \in LaunchedPcs /\ x \in LaunchedPcs
                  \/ pc[t] \in JoinedPcs /\ x \in JoinedPcs
                  \/ pc[t] \in NoRunPcs /\ x \in {"submitting", "launching"}
    BY <1>2 DEF AppendUser, RecordTool, CallTool, SettleTool, SettleToolFails,
       ReadForTool, ReadForAnswer, ReadRevision, AppendTool, ExecutionError,
       FailTurn, AppendAnswer, FinishAnswers, BeginTool, Finish, Goto,
       LaunchedPcs, JoinedPcs, NoRunPcs
  <2>4. QED
    BY <2>1, <2>2, <2>3, MovesWithin
<1>3. QED
  BY <1>1, <1>2

LEMMA StepKeeps ==
  ASSUME TypeOK, CustodyInv, NEW t \in Terminals, Step(t)
  PROVE  CustodyInv'
<1>1. ASSUME NEW s \in Sessions, CreateSession(t, s) PROVE CustodyInv'
  <2>1. /\ state[s] = "absent"
        /\ state' = [state EXCEPT ![s] = "Idle"]
        /\ bound' = [bound EXCEPT ![s] = mem[t].account]
        /\ UNCHANGED << phase, runAccount, runSession, lease, provider, operator >>
        /\ mem[t].account \in Accounts
        /\ Return(t)
    BY <1>1 DEF CreateSession, CreateSessionTx, world, CustodyInv, TerminalSound
  <2>2. \A q \in Sessions : Exists(q)' => bound'[q] \in Accounts
    BY <2>1 DEF Exists, CustodyInv, TypeOK, StoreTypeOK
  <2>3. QED
    BY <2>1, <2>2 DEF CustodyInv, LeaseMatchesRuns, RunSound, Unsettled, Return,
       TerminalSound, OwnRuns, OperatorSound, operator, TypeOK, NoRunPcs, JoinedPcs
<1>2. CASE Rebind(t)
  <2>1. PICK s \in Sessions :
          /\ Exists(s)
          /\ state' = [state EXCEPT ![s] = "Idle"]
          /\ bound' = [bound EXCEPT ![s] = mem[t].account]
          /\ UNCHANGED << phase, runAccount, runSession, lease, provider, operator >>
          /\ mem[t].account \in Accounts
          /\ Return(t)
    BY <1>2 DEF Rebind, RebindTx, Exists, world, CustodyInv, TerminalSound
  <2>2. \A q \in Sessions : Exists(q)' => bound'[q] \in Accounts
    BY <2>1 DEF Exists, CustodyInv, TypeOK, StoreTypeOK
  <2>3. QED
    BY <2>1, <2>2 DEF CustodyInv, LeaseMatchesRuns, RunSound, Unsettled, Return,
       TerminalSound, OwnRuns, OperatorSound, operator, TypeOK, NoRunPcs, JoinedPcs
<1>3. ASSUME NEW r \in Runs, PrepareRun(t, r) PROVE CustodyInv'
  <2>1. PICK s \in Sessions :
          /\ Exists(s) /\ lease[bound[s]] = NoRun
          /\ InsertRun(r, bound[s], s)
          /\ state' = [state EXCEPT ![s] = "Working"]
          /\ UNCHANGED bound
          /\ Prepared(t, r) /\ pc[t] \in NoRunPcs
    BY <1>3 DEF PrepareRun, PrepareRunTx, Exists, NoRunPcs
  <2>2. bound[s] \in Accounts
    BY <2>1 DEF CustodyInv
  <2>3. \A q \in Sessions : Exists(q)' => Exists(q)
    BY <2>1 DEF Exists, TypeOK, StoreTypeOK
  <2>4. QED
    BY <2>1, <2>2, <2>3, PreparedKeeps
<1>4. ASSUME NEW r \in Runs, PrepareProbe(t, r) PROVE CustodyInv'
  <2>1. /\ mem[t].account \in Accounts /\ lease[mem[t].account] = NoRun
        /\ InsertRun(r, mem[t].account, NoSession)
        /\ UNCHANGED << state, bound >>
        /\ Prepared(t, r) /\ pc[t] \in NoRunPcs
    BY <1>4 DEF PrepareProbe, PrepareProbeTx, NoRunPcs, CustodyInv, TerminalSound
  <2>2. \A q \in Sessions : Exists(q)' => Exists(q)
    BY <2>1 DEF Exists
  <2>3. QED
    BY <2>1, <2>2, PreparedKeeps
<1>5. CASE SpawnProcess(t)
  <2>1. /\ pc[t] = "prepared" /\ provider' = [provider EXCEPT ![cur[t]] = "alive"]
        /\ UNCHANGED << Tables, operator, cur, mem >>
        /\ pc' = [pc EXCEPT ![t] = "spawned"]
    BY <1>5 DEF SpawnProcess, Goto, store, Tables
  <2>2. QED
    BY <2>1, ProviderStarts
<1>6. CASE LaunchAbandoned(t)
  <2>1. PICK x \in {"none", "alive"} :
          /\ pc[t] = "prepared" /\ provider' = [provider EXCEPT ![cur[t]] = x]
          /\ UNCHANGED << Tables, operator >> /\ Return(t)
    BY <1>6 DEF LaunchAbandoned, store, Tables
  <2>2. QED
    BY <2>1, ProviderStarts
<1>7. CASE LaunchNotStarted(t)
  BY <1>7, SettlesKeeps DEF LaunchNotStarted
<1>8. CASE Settle(t)
  <2>1. Classify(mem[t].outcome) \notin {"absent", "removed"}
    BY DEF Classify
  <2>2. QED
    BY <1>8, <2>1, SettlesKeeps DEF Settle
<1>9. CASE Join(t)
  <2>1. /\ cur[t] \in Runs /\ phase[cur[t]] # "absent"
        /\ Goto(t, "stopping", "joined")
        /\ provider' = [provider EXCEPT ![cur[t]] = "gone"]
        /\ UNCHANGED << Tables, operator, cur >>
        /\ \A u \in Terminals \ {t} : mem'[u] = mem[u]
    BY <1>9 DEF Join, Goto, store, Tables, CustodyInv, TerminalSound, TypeOK, NoRunPcs
  <2>2. QED
    BY <2>1, ProviderGoes
<1>10. CASE MarkSpawned(t)
  BY <1>10, MarkSpawnedKeeps
<1>11. QED
  BY <1>1, <1>2, <1>3, <1>4, <1>5, <1>6, <1>7, <1>8, <1>9, <1>10, QuietSteps
  DEF Step

LEMMA NextKeeps == TypeOK /\ CustodyInv /\ [Next]_vars => CustodyInv'
<1> SUFFICES ASSUME TypeOK, CustodyInv, [Next]_vars PROVE CustodyInv'
  OBVIOUS
<1>1. ASSUME NEW r \in Runs, ProviderExits(r) PROVE CustodyInv'
  <2>1. /\ phase[r] # "absent" /\ provider[r] = "alive"
        /\ provider' = [provider EXCEPT ![r] = "gone"]
        /\ UNCHANGED << Tables, operator, pc, cur, mem >>
    BY <1>1 DEF ProviderExits, CustodyInv, RunSound, store, Tables
  <2>2. QED
    BY <2>1, ProviderGoes
<1>2. CASE Next
  BY <1>1, <1>2, NextCases, StepKeeps, RequestKeeps, RecoverKeeps, AdministerKeeps
<1>3. CASE UNCHANGED vars
  BY <1>3 DEF vars, store, runner, CustodyInv, LeaseMatchesRuns, RunSound,
     Unsettled, Exists, TerminalSound, OwnRuns, OperatorSound
<1>4. QED
  BY <1>2, <1>3

-----------------------------------------------------------------------------
\* The inductive invariant, for every reachable state.
THEOREM CustodyInvariant == Spec => []CustodyInv
<1>1. Init => TypeOK /\ CustodyInv
  BY InitTypeOK, InitCustody
<1>2. TypeOK /\ CustodyInv /\ [Next]_vars => TypeOK' /\ CustodyInv'
  BY NextTypeOK, NextKeeps
<1>3. QED
  BY <1>1, <1>2, PTL DEF Spec

\* The leases table and the phases of the runs table always agree, so an
\* account has at most one unsettled run, whoever writes the tables.
THEOREM LeasesMatch == Spec => []LeaseMatchesRuns
<1>1. CustodyInv => LeaseMatchesRuns
  BY DEF CustodyInv
<1>2. QED
  BY <1>1, CustodyInvariant, PTL

\* A provider process lives only while its run holds its account, so two
\* providers never use one account at a time.
THEOREM ProvidersHold == Spec => []ProviderHoldsAccount
<1>1. CustodyInv => ProviderHoldsAccount
  BY DEF CustodyInv, RunSound, Unsettled, LeaseMatchesRuns, ProviderHoldsAccount
<1>2. QED
  BY <1>1, CustodyInvariant, PTL

-----------------------------------------------------------------------------
(***************************************************************************)
(* The detailed system implements AccountCustody: what each step does to   *)
(* the holders of accounts, the living providers and the used run ids.     *)
(***************************************************************************)
LEMMA AcquireStep ==
  ASSUME TypeOK, NEW t, NEW r \in Runs, NEW a \in Accounts, NEW s,
         lease[a] = NoRun, InsertRun(r, a, s), Prepared(t, r)
  PROVE  Custody!CustodyNext
<1>1. Custody!Acquire(a, r)
  BY DEF Custody!Acquire, InsertRun, Prepared, TypeOK, StoreTypeOK
<1>2. QED
  BY <1>1 DEF Custody!CustodyNext

LEMMA StartStep ==
  ASSUME TypeOK, CustodyInv, NEW r \in Runs, phase[r] = "prepared",
         provider[r] = "none", provider' \in { provider,
           [provider EXCEPT ![r] = "none"], [provider EXCEPT ![r] = "alive"] },
         UNCHANGED << phase, lease >>
  PROVE  [Custody!CustodyNext]_(Custody!custodyVars)
<1>1. CASE provider' = [provider EXCEPT ![r] = "alive"]
  <2>1. PICK a \in Accounts : lease[a] = r
    BY DEF CustodyInv, LeaseMatchesRuns, RunSound, Unsettled
  <2>2. Custody!Start(a)
    BY <1>1, <2>1, StoreAssumption DEF Custody!Start, TypeOK
  <2>3. QED
    BY <2>2 DEF Custody!CustodyNext
<1>2. CASE UNCHANGED provider \/ provider' = [provider EXCEPT ![r] = "none"]
  <2>1. UNCHANGED provider
    BY <1>2 DEF TypeOK
  <2>2. QED
    BY <2>1 DEF Custody!custodyVars
<1>3. QED
  BY <1>1, <1>2

LEMMA StopStep ==
  ASSUME TypeOK, NEW r \in Runs, provider' = [provider EXCEPT ![r] = "gone"],
         UNCHANGED << phase, lease >>
  PROVE  Custody!CustodyNext
<1>1. Custody!Stop(r)
  BY DEF Custody!Stop, TypeOK
<1>2. QED
  BY <1>1 DEF Custody!CustodyNext

LEMMA GiveBackStep ==
  ASSUME TypeOK, CustodyInv, NEW r \in Runs, NEW to,
         HeldBy(runAccount[r], r), phase[r] # "absent", provider[r] # "alive",
         CloseRun(r, to), UNCHANGED provider
  PROVE  Custody!CustodyNext
<1>1. /\ runAccount[r] \in Accounts /\ lease[runAccount[r]] = r
      /\ lease' = [lease EXCEPT ![runAccount[r]] = NoRun]
      /\ phase' = [phase EXCEPT ![r] = "settled"]
  BY DEF CustodyInv, RunSound, HeldBy, CloseRun
<1>2. Custody!GiveBack(runAccount[r])
  BY <1>1, StoreAssumption DEF Custody!GiveBack, TypeOK, StoreTypeOK
<1>3. QED
  BY <1>1, <1>2 DEF Custody!CustodyNext

LEMMA StepImplements ==
  ASSUME TypeOK, CustodyInv, NEW t \in Terminals, Step(t)
  PROVE  [Custody!CustodyNext]_(Custody!custodyVars)
<1>1. ASSUME UNCHANGED << phase, lease, provider >>
      PROVE  [Custody!CustodyNext]_(Custody!custodyVars)
  BY <1>1 DEF Custody!custodyVars
<1>2. ASSUME NEW r \in Runs, PrepareRun(t, r) PROVE Custody!CustodyNext
  <2>1. PICK s \in Sessions : /\ Exists(s) /\ lease[bound[s]] = NoRun
                              /\ InsertRun(r, bound[s], s) /\ Prepared(t, r)
    BY <1>2 DEF PrepareRun, PrepareRunTx, Exists
  <2>2. bound[s] \in Accounts
    BY <2>1 DEF CustodyInv
  <2>3. QED
    BY <2>1, <2>2, AcquireStep
<1>3. ASSUME NEW r \in Runs, PrepareProbe(t, r) PROVE Custody!CustodyNext
  <2>1. /\ mem[t].account \in Accounts /\ lease[mem[t].account] = NoRun
        /\ InsertRun(r, mem[t].account, NoSession) /\ Prepared(t, r)
    BY <1>3 DEF PrepareProbe, PrepareProbeTx, CustodyInv, TerminalSound
  <2>2. QED
    BY <2>1, AcquireStep
<1>4. pc[t] \notin NoRunPcs => cur[t] \in Runs /\ phase[cur[t]] # "absent"
  BY DEF CustodyInv, TerminalSound, TypeOK
<1>5. CASE SpawnProcess(t) \/ LaunchAbandoned(t)
  <2>1. /\ cur[t] \in Runs /\ phase[cur[t]] = "prepared"
        /\ provider[cur[t]] = "none"
        /\ UNCHANGED << phase, lease >>
        /\ provider' \in { [provider EXCEPT ![cur[t]] = "none"],
                           [provider EXCEPT ![cur[t]] = "alive"] }
    BY <1>4, <1>5 DEF SpawnProcess, LaunchAbandoned, Goto, store, CustodyInv,
       TerminalSound, NoRunPcs
  <2>2. QED
    BY <2>1, StartStep
<1>6. CASE LaunchNotStarted(t) \/ Settle(t)
  <2>1. /\ cur[t] \in Runs /\ phase[cur[t]] # "absent"
        /\ provider[cur[t]] # "alive" /\ UNCHANGED provider
    BY <1>4, <1>6 DEF LaunchNotStarted, Settle, CustodyInv, TerminalSound,
       NoRunPcs, JoinedPcs
  <2>2. PICK to : SettleTx(cur[t], to)
    BY <1>6 DEF LaunchNotStarted, Settle
  <2>3. QED
    BY <2>1, <2>2, GiveBackStep DEF SettleTx
<1>7. CASE Join(t)
  <2>1. /\ cur[t] \in Runs /\ provider' = [provider EXCEPT ![cur[t]] = "gone"]
        /\ UNCHANGED << phase, lease >>
    BY <1>4, <1>7 DEF Join, Goto, store, NoRunPcs
  <2>2. QED
    BY <2>1, StopStep
<1>8. CASE MarkSpawned(t)
  <2>1. /\ phase[cur[t]] = "prepared"
        /\ phase' = [phase EXCEPT ![cur[t]] = "running"]
        /\ UNCHANGED << lease, provider >>
    BY <1>8 DEF MarkSpawned, MarkSpawnedTx, world
  <2>2. \A r \in Runs : (phase'[r] = "absent") = (phase[r] = "absent")
    BY <2>1 DEF TypeOK, StoreTypeOK
  <2>3. QED
    BY <2>1, <2>2 DEF Custody!custodyVars
<1>9. CASE \/ Refused(t) \/ JoinUnproven(t) \/ ReturnUncertain(t) \/ JoinedError(t)
           \/ (\E s \in Sessions : CreateSession(t, s)) \/ Rebind(t)
  <2>1. UNCHANGED << phase, lease, provider >>
    BY <1>9 DEF Refused, JoinUnproven, ReturnUncertain, JoinedError, CreateSession,
       CreateSessionTx, Rebind, RebindTx, store, world
  <2>2. QED
    BY <2>1, <1>1
<1>10. CASE \/ AppendUser(t) \/ RecordTool(t) \/ CallTool(t) \/ SettleTool(t)
            \/ SettleToolFails(t) \/ ReadForTool(t) \/ AppendTool(t)
            \/ ExecutionError(t) \/ ReadForAnswer(t) \/ AppendAnswer(t)
            \/ FinishAnswers(t) \/ (\E c \in Calls : BeginTool(t, c))
            \/ (\E outcome \in Outcomes : Finish(t, outcome))
  <2>1. UNCHANGED Shared
    BY <1>10, QuietSteps
  <2>2. QED
    BY <2>1, <1>1 DEF Shared, Tables
<1>11. QED
  BY <1>2, <1>3, <1>5, <1>6, <1>7, <1>8, <1>9, <1>10 DEF Step

LEMMA NextImplements ==
  TypeOK /\ CustodyInv /\ [Next]_vars => [Custody!CustodyNext]_(Custody!custodyVars)
<1> SUFFICES ASSUME TypeOK, CustodyInv, [Next]_vars
             PROVE  [Custody!CustodyNext]_(Custody!custodyVars)
  OBVIOUS
<1>1. ASSUME UNCHANGED << phase, lease, provider >>
      PROVE  [Custody!CustodyNext]_(Custody!custodyVars)
  BY <1>1 DEF Custody!custodyVars
<1>2. ASSUME NEW t \in Terminals, Request(t)
      PROVE  [Custody!CustodyNext]_(Custody!custodyVars)
  <2>1. UNCHANGED << phase, lease, provider >>
    BY <1>2 DEF Request, LoadSession, BeginCreate, BeginProbe, BeginRebind,
       ReadAccount, Crash, store, world
  <2>2. QED
    BY <2>1, <1>1
<1>3. ASSUME NEW o \in Operators, Recover(o)
      PROVE  [Custody!CustodyNext]_(Custody!custodyVars)
  <2>1. CASE RecoverRun(o)
    <3>1. /\ opRun[o] \in Runs /\ phase[opRun[o]] # "absent"
          /\ provider[opRun[o]] # "alive" /\ UNCHANGED provider
          /\ HeldBy(runAccount[opRun[o]], opRun[o])
          /\ CloseRun(opRun[o], "Uncertain")
      BY <2>1 DEF RecoverRun, RecoverRunTx, CustodyInv, OperatorSound, TypeOK, world
    <3>2. QED
      BY <3>1, GiveBackStep
  <2>2. CASE \/ \E r \in Runs : RecoveryCandidate(o, r)
             \/ ProveGroupAbsent(o) \/ RecoverRefused(o)
    <3>1. UNCHANGED << phase, lease, provider >>
      BY <2>2 DEF RecoveryCandidate, ProveGroupAbsent, RecoverRefused, store, world
    <3>2. QED
      BY <3>1, <1>1
  <2>3. QED
    BY <1>3, <2>1, <2>2 DEF Recover
<1>4. ASSUME NEW r \in Runs, ProviderExits(r)
      PROVE  [Custody!CustodyNext]_(Custody!custodyVars)
  BY <1>4, StopStep DEF ProviderExits, store
<1>5. ASSUME NEW s \in Sessions, RemoveSession(s)
      PROVE  [Custody!CustodyNext]_(Custody!custodyVars)
  <2>1. /\ UNCHANGED << lease, provider >>
        /\ phase' = [r \in Runs |-> IF runSession[r] = s THEN "removed" ELSE phase[r]]
    BY <1>5 DEF RemoveSession, RemoveSessionTx, runner
  <2>2. \A r \in Runs : (phase'[r] = "absent") = (phase[r] = "absent")
    BY <2>1, StoreAssumption DEF CustodyInv, RunSound
  <2>3. QED
    BY <2>1, <2>2 DEF Custody!custodyVars
<1>6. ASSUME Administer PROVE [Custody!CustodyNext]_(Custody!custodyVars)
  <2>1. CASE UNCHANGED << phase, lease, provider >>
    BY <2>1, <1>1
  <2>2. QED
    BY <1>5, <1>6, <2>1 DEF Administer, AddAccount, AddAccountTx, SelectPane,
       SetAccountEnabled, SetAccountEnabledTx, SelectPaneTx, TouchSession, runner
<1>7. CASE UNCHANGED vars
  BY <1>7, <1>1 DEF vars, store, runner
<1>8. QED
  BY <1>2, <1>3, <1>4, <1>6, <1>7, NextCases, StepImplements

\* Seen through its leases, its living providers and its run ids, xcb behaves
\* as AccountCustody promises: prepare acquires, spawn starts, join or the
\* death of the provider stops, settle and recover_run give back.
THEOREM ImplementsCustody == Spec => CustodyKept
<1>1. Init => Custody!CustodyInit
  BY DEF Init, StoreInit, Custody!CustodyInit
<1>2. Init => TypeOK /\ CustodyInv
  BY InitTypeOK, InitCustody
<1>3. TypeOK /\ CustodyInv /\ [Next]_vars =>
        TypeOK' /\ CustodyInv' /\ [Custody!CustodyNext]_(Custody!custodyVars)
  BY NextTypeOK, NextKeeps, NextImplements
<1>4. QED
  BY <1>1, <1>2, <1>3, PTL DEF Spec, CustodyKept, Custody!CustodySpec

-----------------------------------------------------------------------------
(* What a settled run leaves behind: its receipts are closed, its answers  *)
(* are in the transcript, its launch directory goes last, and its session  *)
(* is free.                                                                *)

ClosedRun(r) == phase[r] \in {"settled", "removed"}
\* The turn of a run that has its process group on record.
TurnPcs == {"executing", "inserting", "calling", "recording", "noting", "appending"}
NoOpenReceipt(r) == \A c \in Calls : receipt[r][c] # "begun"

\* Only a recovery settles a run with an open receipt or a missing answer, and
\* a launch directory goes only with a run that its owner settled.
RecordSound(r) ==
  /\ r \in recovered => ClosedRun(r)
  /\ phase[r] # "running" /\ r \notin recovered => NoOpenReceipt(r)
  /\ phase[r] = "removed" => NoOpenReceipt(r)
  /\ files[r] = "removed" => ClosedRun(r) /\ r \notin recovered
  /\ phase[r] = "absent" => said[r] = {}
  /\ phase[r] = "settled" /\ r \notin recovered => said[r] \subseteq transcript[r]

\* A run that was settled under its owner was recovered.  The owner knows of every
\* receipt that is open whether it counts as uncertain or is that of the call it is
\* at, and of every answer that is not stored yet; it settles with neither.
OwnerSound(t) ==
  cur[t] # NoRun =>
    /\ pc[t] \in TurnPcs => phase[cur[t]] # "prepared"
    /\ phase[cur[t]] = "settled" => cur[t] \in recovered
    /\ \A c \in Calls : receipt[cur[t]][c] = "begun" =>
         \/ mem[t].effects = "Uncertain"
         \/ pc[t] \in {"calling", "recording"} /\ mem[t].call = c
    /\ pc[t] \notin JoinedPcs => said[cur[t]] = {}
    /\ pc[t] \in JoinedPcs /\ Unsettled(cur[t]) =>
         said[cur[t]] \subseteq transcript[cur[t]] \cup mem[t].pending
    /\ pc[t] = "settling" => mem[t].effects # "Uncertain" /\ mem[t].pending = {}

RecordInv ==
  /\ \A r \in Runs : RecordSound(r)
  /\ \A t \in Terminals : OwnerSound(t)

LEMMA InitRecord == Init => RecordInv
BY DEF Init, StoreInit, RecordInv, RecordSound, NoOpenReceipt, ClosedRun, OwnerSound

\* The part of the state the invariant is about.
Rows == << phase, receipt, transcript, files, said, recovered >>

\* A run has one owner, so a step of terminal t on its own run, or on one that
\* nobody had, disturbs no other terminal and no other run.
LEMMA OwnerMoves ==
  ASSUME TypeOK, TypeOK', CustodyInv, RecordInv, NEW t \in Terminals, NEW r \in Runs,
         cur[t] = r \/ (cur[t] = NoRun /\ phase[r] = "absent"),
         \A u \in Terminals \ {t} : cur'[u] = cur[u] /\ mem'[u] = mem[u] /\ pc'[u] = pc[u],
         \A q \in Runs \ {r} :
           /\ phase'[q] = phase[q] /\ receipt'[q] = receipt[q] /\ transcript'[q] = transcript[q]
           /\ files'[q] = files[q] /\ said'[q] = said[q],
         UNCHANGED recovered,
         RecordSound(r)', OwnerSound(t)'
  PROVE  RecordInv'
<1>1. ASSUME NEW q \in Runs PROVE RecordSound(q)'
  BY DEF RecordInv, RecordSound, NoOpenReceipt, ClosedRun
<1>2. ASSUME NEW u \in Terminals, u # t PROVE OwnerSound(u)'
  <2>1. cur[u] # NoRun => cur[u] \in Runs /\ cur[u] # r
    BY <1>2 DEF TypeOK, CustodyInv, OwnRuns, TerminalSound
  <2>. QED  BY <2>1, <1>2 DEF RecordInv, OwnerSound, Unsettled
<1>. QED  BY <1>1, <1>2 DEF RecordInv

\* Terminal t moves on and the rows stay.
LEMMA RowsKept ==
  ASSUME TypeOK, CustodyInv, RecordInv, NEW t \in Terminals, UNCHANGED Rows,
         \A u \in Terminals \ {t} : cur'[u] = cur[u] /\ mem'[u] = mem[u] /\ pc'[u] = pc[u],
         OwnerSound(t)'
  PROVE  RecordInv'
BY DEF Rows, RecordInv, RecordSound, NoOpenReceipt, ClosedRun, OwnerSound, Unsettled

\* A task that returns forgets its run.
LEMMA ReturnKeeps ==
  ASSUME TypeOK, CustodyInv, RecordInv, NEW t \in Terminals, UNCHANGED Rows, NEW x,
         pc' = [pc EXCEPT ![t] = x], cur' = [cur EXCEPT ![t] = NoRun],
         mem' = [mem EXCEPT ![t] = Blank]
  PROVE  RecordInv'
BY RowsKept DEF TypeOK, OwnerSound

-----------------------------------------------------------------------------
(* The steps of a terminal.                                                  *)

\* Before there is a run, and after it was given up.
LEMMA NoRunSteps ==
  ASSUME TypeOK, CustodyInv, RecordInv, NEW t \in Terminals,
         \/ \E s \in Sessions : CreateSession(t, s) \/ LoadSession(t, s)
         \/ Rebind(t) \/ AppendUser(t) \/ Refused(t) \/ LaunchAbandoned(t)
         \/ JoinUnproven(t) \/ ReturnUncertain(t) \/ JoinedError(t) \/ Crash(t)
         \/ \E a \in Accounts : BeginCreate(t, a) \/ BeginProbe(t, a)
         \/ \E s \in Sessions, a \in Accounts : BeginRebind(t, s, a)
  PROVE  RecordInv'
<1> USE DEF Rows, Return, store, world, history
<1>1. ASSUME NEW s \in Sessions, CreateSession(t, s) PROVE RecordInv'
  BY <1>1, ReturnKeeps DEF CreateSession, CreateSessionTx
<1>2. CASE Rebind(t)
  BY <1>2, ReturnKeeps DEF Rebind, RebindTx
<1>3. CASE Refused(t)
  BY <1>3, ReturnKeeps DEF Refused
<1>4. CASE LaunchAbandoned(t)
  BY <1>4, ReturnKeeps DEF LaunchAbandoned
<1>5. CASE JoinUnproven(t)
  BY <1>5, ReturnKeeps DEF JoinUnproven
<1>6. CASE ReturnUncertain(t)
  BY <1>6, ReturnKeeps DEF ReturnUncertain
<1>7. CASE JoinedError(t)
  BY <1>7, ReturnKeeps DEF JoinedError
<1>8. CASE Crash(t)
  BY <1>8, ReturnKeeps DEF Crash
<1>9. ASSUME cur[t] = NoRun, UNCHANGED << Rows, cur >>,
             \A u \in Terminals \ {t} : mem'[u] = mem[u] /\ pc'[u] = pc[u]
      PROVE  RecordInv'
  BY <1>9, RowsKept DEF OwnerSound
<1>10. ASSUME NEW s \in Sessions, LoadSession(t, s) PROVE RecordInv'
  <2>1. cur[t] = NoRun
    BY <1>10 DEF LoadSession, Goto, CustodyInv, TerminalSound, NoRunPcs
  <2>2. UNCHANGED << Rows, cur >>
    BY <1>10 DEF LoadSession, Goto, Remember
  <2>3. \A u \in Terminals \ {t} : mem'[u] = mem[u] /\ pc'[u] = pc[u]
    BY <1>10 DEF LoadSession, Goto, Remember, TypeOK
  <2>. QED  BY <1>9, <2>1, <2>2, <2>3
<1>11. ASSUME NEW s \in Sessions \cup {NoSession}, NEW a, NEW x, NEW rev, ReadAccount(t, x, s, rev, a)
       PROVE  RecordInv'
  <2>1. cur[t] = NoRun
    BY <1>11 DEF ReadAccount, Goto, CustodyInv, TerminalSound, NoRunPcs
  <2>2. UNCHANGED << Rows, cur >>
    BY <1>11 DEF ReadAccount, Goto, Remember
  <2>3. \A u \in Terminals \ {t} : mem'[u] = mem[u] /\ pc'[u] = pc[u]
    BY <1>11 DEF ReadAccount, Goto, Remember, TypeOK
  <2>. QED  BY <1>9, <2>1, <2>2, <2>3
<1>12. CASE AppendUser(t)
  BY <1>9, <1>12 DEF AppendUser, AppendMessageTx, TouchSession, Goto, CustodyInv, TerminalSound,
     NoRunPcs, TypeOK
<1>. QED
  BY <1>1, <1>2, <1>3, <1>4, <1>5, <1>6, <1>7, <1>8, <1>10, <1>11, <1>12
  DEF BeginCreate, BeginProbe, BeginRebind

\* The run is prepared: nobody had it.
LEMMA PreparedSteps ==
  ASSUME TypeOK, TypeOK', CustodyInv, RecordInv, NEW t \in Terminals, NEW r \in Runs,
         PrepareRun(t, r) \/ PrepareProbe(t, r)
  PROVE  RecordInv'
<1>1. /\ phase[r] = "absent" /\ phase' = [phase EXCEPT ![r] = "prepared"]
      /\ pc[t] \in NoRunPcs
      /\ pc' = [pc EXCEPT ![t] = "prepared"] /\ cur' = [cur EXCEPT ![t] = r]
      /\ files' = [files EXCEPT ![r] = "kept"]
      /\ UNCHANGED << mem, receipt, transcript, said, recovered >>
  BY DEF PrepareRun, PrepareRunTx, PrepareProbe, PrepareProbeTx, InsertRun, Prepared, NoRunPcs, history
<1>2. cur[t] = NoRun
  BY <1>1 DEF CustodyInv, TerminalSound
<1>3. NoOpenReceipt(r) /\ said[r] = {} /\ r \notin recovered
  BY <1>1 DEF RecordInv, RecordSound, ClosedRun
<1>4. RecordSound(r)'
  BY <1>1, <1>3 DEF RecordSound, NoOpenReceipt, ClosedRun, TypeOK, StoreTypeOK
<1>5. OwnerSound(t)'
  BY <1>1, <1>3 DEF OwnerSound, NoOpenReceipt, TypeOK, StoreTypeOK, JoinedPcs, TurnPcs
<1>. QED  BY <1>1, <1>2, <1>4, <1>5, OwnerMoves DEF TypeOK, StoreTypeOK

\* While it has a run and before the join: the receipts.
LEMMA TurnSteps ==
  ASSUME TypeOK, TypeOK', CustodyInv, RecordInv, NEW t \in Terminals,
         \/ SpawnProcess(t) \/ MarkSpawned(t)
         \/ \E c \in Calls : BeginTool(t, c)
         \/ RecordTool(t) \/ CallTool(t) \/ SettleTool(t) \/ SettleToolFails(t)
         \/ ReadForTool(t) \/ AppendTool(t) \/ ExecutionError(t)
         \/ \E outcome \in Outcomes : Finish(t, outcome)
  PROVE  RecordInv'
<1>1. cur[t] \in Runs /\ pc[t] \notin JoinedPcs /\ OwnerSound(t) /\ RecordSound(cur[t])
  BY DEF SpawnProcess, MarkSpawned, BeginTool, RecordTool, CallTool, SettleTool, SettleToolFails,
     ReadForTool, ReadRevision, AppendTool, ExecutionError, Finish, Goto, JoinedPcs, NoRunPcs,
     CustodyInv, TerminalSound, RecordInv, TypeOK
<1>2. CASE SpawnProcess(t)
  BY <1>1, <1>2, RowsKept DEF SpawnProcess, Rows, OwnerSound, Goto, TypeOK, store, history, JoinedPcs, TurnPcs
<1>3. CASE MarkSpawned(t)
  <2>1. /\ phase[cur[t]] = "prepared" /\ phase' = [phase EXCEPT ![cur[t]] = "running"]
        /\ UNCHANGED << receipt, transcript, files, said, recovered, cur, mem >>
        /\ pc[t] = "spawned" /\ pc' = [pc EXCEPT ![t] = "executing"]
    BY <1>3 DEF MarkSpawned, MarkSpawnedTx, Goto, world, history
  <2>2. RecordSound(cur[t])'
    BY <1>1, <2>1 DEF RecordSound, NoOpenReceipt, ClosedRun, TypeOK, StoreTypeOK
  <2>3. OwnerSound(t)'
    BY <1>1, <2>1 DEF TypeOK, StoreTypeOK, OwnerSound, JoinedPcs, TurnPcs
  <2>. QED  BY <1>1, <2>1, <2>2, <2>3, OwnerMoves DEF TypeOK, StoreTypeOK
<1>4. ASSUME NEW c \in Calls, BeginTool(t, c) PROVE RecordInv'
  <2>1. OwnerSound(t)'
    BY <1>1, <1>4 DEF BeginTool, OwnerSound, Goto, TypeOK, store, history, JoinedPcs, TurnPcs
  <2>. QED  BY <2>1, <1>4, RowsKept DEF BeginTool, Rows, store, world, history, Goto, TypeOK
<1>5. CASE RecordTool(t)
  <2> DEFINE r == cur[t]  call == mem[t].call
  <2>1. /\ phase[r] \notin {"absent", "removed"}
        /\ receipt' = [receipt EXCEPT ![r][call] = "begun"]
        /\ UNCHANGED << phase, transcript, files, said, recovered, cur, mem >>
        /\ pc[t] = "inserting" /\ pc' = [pc EXCEPT ![t] = "calling"]
    BY <1>5 DEF RecordTool, InsertReceipt, Goto, world, history
  <2>2. r \in recovered \/ phase[r] = "running"
    BY <1>1, <2>1, StoreAssumption DEF TypeOK, StoreTypeOK, Phases, OwnerSound, TurnPcs
  <2>3. RecordSound(r)'
    BY <1>1, <2>1, <2>2 DEF RecordSound, ClosedRun
  <2>4. OwnerSound(t)'
    BY <1>1, <2>1 DEF TypeOK, StoreTypeOK, OwnerSound, JoinedPcs, TurnPcs
  <2>. QED  BY <1>1, <2>1, <2>3, <2>4, OwnerMoves DEF TypeOK, StoreTypeOK
<1>6. CASE CallTool(t)
  <2>1. OwnerSound(t)'
    BY <1>1, <1>6 DEF CallTool, OwnerSound, Goto, TypeOK, store, history, JoinedPcs, TurnPcs, Merge, Memory, EffectState
  <2>. QED  BY <2>1, <1>6, RowsKept DEF CallTool, Rows, store, world, history, TypeOK
<1>7. CASE SettleTool(t)
  <2> DEFINE r == cur[t]  call == mem[t].call
  <2>1. /\ receipt[r][call] = "begun"
        /\ receipt' = [receipt EXCEPT ![r][call] = "settled"]
        /\ UNCHANGED << phase, transcript, files, said, recovered, cur, mem >>
        /\ pc[t] = "recording" /\ pc' = [pc EXCEPT ![t] = "noting"]
    BY <1>7 DEF SettleTool, SettleToolTx, Goto, world, history
  <2>2. RecordSound(r)'
    BY <1>1, <2>1 DEF RecordSound, NoOpenReceipt, ClosedRun, TypeOK, StoreTypeOK
  <2>3. OwnerSound(t)'
    BY <1>1, <2>1 DEF TypeOK, StoreTypeOK, OwnerSound, JoinedPcs, TurnPcs
  <2>. QED  BY <1>1, <2>1, <2>2, <2>3, OwnerMoves DEF TypeOK, StoreTypeOK
<1>8. CASE SettleToolFails(t)
  <2>1. OwnerSound(t)'
    BY <1>1, <1>8 DEF SettleToolFails, OwnerSound, TypeOK, store, history, JoinedPcs, TurnPcs
  <2>. QED  BY <2>1, <1>8, RowsKept DEF SettleToolFails, Rows, store, world, history, TypeOK
<1>9. CASE ReadForTool(t)
  <2>1. OwnerSound(t)'
    BY <1>1, <1>9 DEF ReadForTool, ReadRevision, Goto, OwnerSound, TypeOK, store, history, JoinedPcs, TurnPcs
  <2>. QED  BY <2>1, <1>9, RowsKept DEF ReadForTool, ReadRevision, Goto, Rows, store, world, history, TypeOK
<1>10. CASE AppendTool(t)
  <2>1. OwnerSound(t)'
    BY <1>1, <1>10 DEF AppendTool, AppendMessageTx, TouchSession, Goto, OwnerSound, TypeOK, history, JoinedPcs, TurnPcs
  <2>. QED  BY <2>1, <1>10, RowsKept DEF AppendTool, AppendMessageTx, TouchSession, Goto, Rows, world, history, TypeOK
<1>11. CASE ExecutionError(t)
  <2>1. OwnerSound(t)'
    BY <1>1, <1>11 DEF ExecutionError, FailTurn, OwnerSound, TypeOK, store, history, JoinedPcs, TurnPcs
  <2>. QED  BY <2>1, <1>11, RowsKept DEF ExecutionError, FailTurn, Rows, store, world, history, TypeOK
<1>12. ASSUME NEW outcome \in Outcomes, Finish(t, outcome) PROVE RecordInv'
  <2>1. OwnerSound(t)'
    BY <1>1, <1>12 DEF Finish, Goto, OwnerSound, TypeOK, store, history, JoinedPcs, TurnPcs
  <2>. QED  BY <2>1, <1>12, RowsKept DEF Finish, Goto, Rows, store, world, history, TypeOK
<1>. QED
  BY <1>2, <1>3, <1>4, <1>5, <1>6, <1>7, <1>8, <1>9, <1>10, <1>11, <1>12

\* From the join to the settlement: the answers.
LEMMA JoinedSteps ==
  ASSUME TypeOK, TypeOK', CustodyInv, RecordInv, NEW t \in Terminals,
         Join(t) \/ ReadForAnswer(t) \/ AppendAnswer(t) \/ FinishAnswers(t)
  PROVE  RecordInv'
<1>1. cur[t] \in Runs /\ cur[t] # NoRun /\ OwnerSound(t) /\ RecordSound(cur[t])
  BY StoreAssumption DEF Join, ReadForAnswer, ReadRevision, AppendAnswer, FinishAnswers, Goto, NoRunPcs,
     CustodyInv, TerminalSound, RecordInv, TypeOK
<1>2. CASE Join(t)
  <2> DEFINE r == cur[t]
  <2>1. PICK texts \in SUBSET Roles :
          /\ mem' = [mem EXCEPT ![t].pending = texts] /\ said' = [said EXCEPT ![r] = texts]
          /\ pc[t] = "stopping" /\ pc' = [pc EXCEPT ![t] = "joined"]
          /\ UNCHANGED << phase, receipt, transcript, files, recovered, cur >>
    BY <1>2 DEF Join, Goto, store
  <2>2. phase[r] # "absent"
    BY <2>1 DEF CustodyInv, TerminalSound, NoRunPcs
  <2>3. RecordSound(r)'
    BY <1>1, <2>1, <2>2 DEF RecordSound, NoOpenReceipt, ClosedRun, OwnerSound, TypeOK
  <2>4. OwnerSound(t)'
    BY <1>1, <2>1 DEF OwnerSound, TypeOK, JoinedPcs, TurnPcs
  <2>. QED  BY <1>1, <2>1, <2>3, <2>4, OwnerMoves DEF TypeOK
<1>3. CASE ReadForAnswer(t)
  <2>1. OwnerSound(t)'
    BY <1>1, <1>3 DEF ReadForAnswer, ReadRevision, Goto, OwnerSound, Unsettled, TypeOK, store, history, JoinedPcs, TurnPcs
  <2>. QED  BY <2>1, <1>3, RowsKept DEF ReadForAnswer, ReadRevision, Goto, Rows, store, world, history, TypeOK
<1>4. CASE AppendAnswer(t)
  <2> DEFINE r == cur[t]  role == NextRole(mem[t].pending)
  <2>1. /\ transcript' = [transcript EXCEPT ![r] = @ \cup {role}]
        /\ mem' = [mem EXCEPT ![t].pending = @ \ {role}]
        /\ pc[t] = "answering" /\ pc' = [pc EXCEPT ![t] = "joined"]
        /\ UNCHANGED << phase, receipt, files, said, recovered, cur >>
    BY <1>4 DEF AppendAnswer, AppendFinalTx, TouchSession, Goto, world, history
  <2>2. RecordSound(r)'
    BY <1>1, <2>1 DEF RecordSound, NoOpenReceipt, ClosedRun, TypeOK, StoreTypeOK
  <2>3. OwnerSound(t)'
    BY <1>1, <2>1 DEF OwnerSound, Unsettled, TypeOK, StoreTypeOK, JoinedPcs, TurnPcs
  <2>. QED  BY <1>1, <2>1, <2>2, <2>3, OwnerMoves DEF TypeOK, StoreTypeOK
<1>5. CASE FinishAnswers(t)
  <2>1. OwnerSound(t)'
    BY <1>1, <1>5 DEF FinishAnswers, Goto, OwnerSound, Unsettled, TypeOK, store, history, JoinedPcs, TurnPcs
  <2>. QED  BY <2>1, <1>5, RowsKept DEF FinishAnswers, Goto, Rows, store, world, history, TypeOK
<1>. QED  BY <1>2, <1>3, <1>4, <1>5

\* A settlement: the owner has the account, so its run is not recovered, no receipt
\* of it is open and its answers are stored.
LEMMA SettleSteps ==
  ASSUME TypeOK, TypeOK', CustodyInv, RecordInv, NEW t \in Terminals,
         LaunchNotStarted(t) \/ Settle(t)
  PROVE  RecordInv'
<1>1. PICK r \in Runs : r = cur[t]
  BY DEF LaunchNotStarted, Settle, NoRunPcs, CustodyInv, TerminalSound, TypeOK
<1>2. /\ pc[t] \in {"prepared", "settling"}
      /\ HeldBy(runAccount[r], r) /\ phase' = [phase EXCEPT ![r] = "settled"]
      /\ files' = [files EXCEPT ![r] = "removed"] /\ Return(t)
      /\ UNCHANGED << receipt, transcript, said, recovered >>
  BY <1>1 DEF LaunchNotStarted, Settle, SettleTx, CloseRun, history
<1>3. r # NoRun /\ OwnerSound(t) /\ RecordSound(r) /\ phase[r] # "absent"
  BY <1>1, <1>2, StoreAssumption DEF CustodyInv, TerminalSound, RecordInv, NoRunPcs
<1>4. Unsettled(r) /\ (pc[t] = "prepared" => phase[r] = "prepared")
  BY <1>1, <1>2, <1>3 DEF CustodyInv, LeaseMatchesRuns, RunSound, TerminalSound, HeldBy, Unsettled, TypeOK, StoreTypeOK
<1>5. r \notin recovered
  BY <1>3, <1>4 DEF RecordSound, ClosedRun, Unsettled
<1>6. NoOpenReceipt(r)
  BY <1>1, <1>2, <1>3, <1>4, <1>5 DEF RecordSound, OwnerSound, NoOpenReceipt
<1>7. said[r] \subseteq transcript[r]
  BY <1>1, <1>2, <1>3, <1>4 DEF OwnerSound, JoinedPcs
<1>8. RecordSound(r)'
  BY <1>2, <1>3, <1>5, <1>6, <1>7 DEF RecordSound, NoOpenReceipt, ClosedRun, TypeOK, StoreTypeOK
<1>9. OwnerSound(t)'
  BY <1>2 DEF OwnerSound, Return, TypeOK
<1>. QED  BY <1>1, <1>2, <1>8, <1>9, OwnerMoves DEF Return, TypeOK, StoreTypeOK

-----------------------------------------------------------------------------
(* The steps of others.                                                      *)

\* A recovery settles a running run, whoever still drives it.
LEMMA RecoverRunSteps ==
  ASSUME TypeOK, TypeOK', CustodyInv, RecordInv, NEW o \in Operators, RecoverRun(o)
  PROVE  RecordInv'
<1> DEFINE r == opRun[o]
<1>1. /\ phase[r] = "running" /\ phase' = [phase EXCEPT ![r] = "settled"]
      /\ recovered' = recovered \cup {r}
      /\ UNCHANGED << receipt, transcript, files, said, pc, cur, mem >>
  BY DEF RecoverRun, RecoverRunTx, CloseRun, world
<1>2. ASSUME NEW q \in Runs PROVE RecordSound(q)'
  BY <1>1 DEF RecordInv, RecordSound, NoOpenReceipt, ClosedRun, TypeOK, StoreTypeOK
<1>3. ASSUME NEW t \in Terminals PROVE OwnerSound(t)'
  BY <1>1 DEF RecordInv, OwnerSound, Unsettled, TypeOK, StoreTypeOK
<1>. QED  BY <1>2, <1>3 DEF RecordInv

\* A removed session takes its settled runs with it.
LEMMA RemoveSteps ==
  ASSUME TypeOK, TypeOK', CustodyInv, RecordInv, NEW s \in Sessions, RemoveSession(s)
  PROVE  RecordInv'
<1>1. /\ \A r \in Runs : runSession[r] = s => ~Unsettled(r)
      /\ phase' = [r \in Runs |-> IF runSession[r] = s THEN "removed" ELSE phase[r]]
      /\ receipt' = [r \in Runs |-> IF runSession[r] = s THEN [c \in Calls |-> "none"] ELSE receipt[r]]
      /\ transcript' = [r \in Runs |-> IF runSession[r] = s THEN {} ELSE transcript[r]]
      /\ UNCHANGED << files, said, recovered, pc, cur, mem >>
  BY DEF RemoveSession, RemoveSessionTx, SessionBusy, runner
<1>2. ASSUME NEW q \in Runs PROVE RecordSound(q)'
  BY <1>1 DEF RecordInv, RecordSound, NoOpenReceipt, ClosedRun, TypeOK, StoreTypeOK
<1>3. ASSUME NEW t \in Terminals PROVE OwnerSound(t)'
  BY <1>1 DEF RecordInv, OwnerSound, Unsettled, TypeOK, StoreTypeOK
<1>. QED  BY <1>2, <1>3 DEF RecordInv

LEMMA OtherSteps ==
  ASSUME TypeOK, TypeOK', CustodyInv, RecordInv,
         \/ Administer \/ \E o \in Operators : Recover(o)
         \/ \E r \in Runs : ProviderExits(r)
  PROVE  RecordInv'
<1>1. ASSUME UNCHANGED << Rows, pc, cur, mem >> PROVE RecordInv'
  BY <1>1 DEF Rows, RecordInv, RecordSound, NoOpenReceipt, ClosedRun, OwnerSound, Unsettled
<1> USE DEF Rows, store, runner, world, history
<1>2. ASSUME NEW a \in Accounts, AddAccount(a) PROVE RecordInv'
  BY <1>1, <1>2 DEF AddAccount, AddAccountTx
<1>3. ASSUME NEW a \in Accounts, NEW to, SetAccountEnabled(a, to) PROVE RecordInv'
  BY <1>1, <1>3 DEF SetAccountEnabled, SetAccountEnabledTx
<1>4. ASSUME NEW s \in Sessions, SelectPane(s) PROVE RecordInv'
  BY <1>1, <1>4 DEF SelectPane, SelectPaneTx, TouchSession
<1>5. ASSUME NEW o \in Operators, NEW r \in Runs, RecoveryCandidate(o, r) PROVE RecordInv'
  BY <1>1, <1>5 DEF RecoveryCandidate
<1>6. ASSUME NEW o \in Operators, ProveGroupAbsent(o) \/ RecoverRefused(o) PROVE RecordInv'
  BY <1>1, <1>6 DEF ProveGroupAbsent, RecoverRefused
<1>7. ASSUME NEW r \in Runs, ProviderExits(r) PROVE RecordInv'
  BY <1>1, <1>7 DEF ProviderExits
<1>. QED
  BY <1>2, <1>3, <1>4, <1>5, <1>6, <1>7, RecoverRunSteps, RemoveSteps DEF Administer, Recover

LEMMA RecordStep ==
  TypeOK /\ TypeOK' /\ CustodyInv /\ RecordInv /\ [Next]_vars => RecordInv'
<1> SUFFICES ASSUME TypeOK, TypeOK', CustodyInv, RecordInv, [Next]_vars PROVE RecordInv'
  OBVIOUS
<1>1. ASSUME NEW t \in Terminals, Step(t) PROVE RecordInv'
  BY <1>1, NoRunSteps, PreparedSteps, TurnSteps, JoinedSteps, SettleSteps DEF Step
<1>2. ASSUME NEW t \in Terminals, Request(t) PROVE RecordInv'
  BY <1>2, NoRunSteps DEF Request
<1>3. CASE UNCHANGED vars
  BY <1>3 DEF vars, store, runner, RecordInv, RecordSound, NoOpenReceipt, ClosedRun, OwnerSound, Unsettled
<1>. QED  BY <1>1, <1>2, <1>3, OtherSteps, NextCases

THEOREM RecordInvariant == Spec => []RecordInv
<1>1. TypeOK /\ CustodyInv /\ RecordInv /\ TypeOK' /\ [Next]_vars => RecordInv'
  BY RecordStep
<1>. QED  BY InitRecord, TypeCorrect, CustodyInvariant, <1>1, PTL DEF Spec

\* A terminal settles no run of its own with an open receipt, for any calls
\* (runner.rs: settle_tool_effects; store.rs: settle, recover_run).
THEOREM EffectsKept == Spec => []EffectsKeepCustody
<1>1. RecordInv => EffectsKeepCustody
  BY DEF RecordInv, RecordSound, NoOpenReceipt, EffectsKeepCustody
<1>. QED  BY RecordInvariant, <1>1, PTL

\* What a provider said is in the transcript once its run has been settled by its
\* owner (runner.rs: the final messages of a joined turn).
THEOREM AnswersKept == Spec => []AnswersStored
<1>1. RecordInv => AnswersStored
  BY DEF RecordInv, RecordSound, AnswersStored
<1>. QED  BY RecordInvariant, <1>1, PTL

\* The launch directory outlives the provider and every open receipt (runner.rs:
\* LaunchArtifacts).
THEOREM FilesOutlive == Spec => []FilesOutliveProvider
<1>1. RecordInv /\ CustodyInv => FilesOutliveProvider
  BY DEF RecordInv, RecordSound, NoOpenReceipt, ClosedRun, CustodyInv, RunSound, Unsettled, FilesOutliveProvider
<1>. QED  BY RecordInvariant, CustodyInvariant, <1>1, PTL

-----------------------------------------------------------------------------
(* The session's state.                                                      *)

SessionRows == << state, bound, runAccount, runSession >>

LEMMA InitWorking == Init => WorkingMeansBusy
BY StoreAssumption DEF Init, StoreInit, WorkingMeansBusy, SessionBusy, Unsettled

\* A new run of a session: the session's account was free, so no other run of it
\* is unsettled.
LEMMA PrepareWorking ==
  ASSUME TypeOK, TypeOK', CustodyInv, WorkingMeansBusy, NEW t \in Terminals, NEW r \in Runs,
         PrepareRun(t, r) \/ PrepareProbe(t, r)
  PROVE  WorkingMeansBusy'
<1>1. CASE PrepareRun(t, r)
  <2>1. PICK s \in Sessions :
          /\ phase[r] = "absent" /\ lease[bound[s]] = NoRun
          /\ phase' = [phase EXCEPT ![r] = "prepared"]
          /\ runAccount' = [runAccount EXCEPT ![r] = bound[s]]
          /\ runSession' = [runSession EXCEPT ![r] = s]
          /\ state' = [state EXCEPT ![s] = "Working"]
          /\ bound' = bound
    BY <1>1 DEF PrepareRun, PrepareRunTx, Exists, InsertRun
  <2>2. ASSUME NEW q \in Sessions PROVE state'[q] = "Working" <=> SessionBusy(q)'
    BY <2>1 DEF WorkingMeansBusy, SessionBusy, Unsettled, TypeOK, StoreTypeOK
  <2>3. ASSUME NEW q \in Sessions, NEW p \in Runs, runSession'[p] = q, Unsettled(p)'
        PROVE  bound'[q] = runAccount'[p]
    BY <2>1, <2>3 DEF WorkingMeansBusy, Unsettled, TypeOK, StoreTypeOK
  <2>. QED  BY <2>2, <2>3 DEF WorkingMeansBusy
<1>2. CASE PrepareProbe(t, r)
  <2>1. /\ phase[r] = "absent"
        /\ phase' = [phase EXCEPT ![r] = "prepared"]
        /\ runAccount' = [runAccount EXCEPT ![r] = mem[t].account]
        /\ runSession' = [runSession EXCEPT ![r] = NoSession]
        /\ UNCHANGED << state, bound >>
    BY <1>2 DEF PrepareProbe, PrepareProbeTx, InsertRun
  <2>2. ASSUME NEW q \in Sessions PROVE SessionBusy(q)' <=> SessionBusy(q)
    BY <2>1, StoreAssumption DEF SessionBusy, Unsettled, TypeOK, StoreTypeOK, CustodyInv, RunSound
  <2>3. ASSUME NEW q \in Sessions, NEW p \in Runs, runSession'[p] = q, Unsettled(p)'
        PROVE  bound'[q] = runAccount'[p]
    BY <2>1, <2>3, StoreAssumption DEF WorkingMeansBusy, Unsettled, TypeOK, StoreTypeOK
  <2>. QED  BY <2>1, <2>2, <2>3 DEF WorkingMeansBusy
<1>. QED  BY <1>1, <1>2

\* The end of a run that has its account is the end of its session's work: another
\* unsettled run of the session would have the same account.
LEMMA CloseWorking ==
  ASSUME TypeOK, TypeOK', CustodyInv, WorkingMeansBusy, NEW r \in Runs, NEW to,
         to # "Working", phase[r] # "absent", HeldBy(runAccount[r], r), CloseRun(r, to)
  PROVE  WorkingMeansBusy'
<1>1. /\ phase' = [phase EXCEPT ![r] = "settled"] /\ UNCHANGED << bound, runAccount, runSession >>
      /\ runSession[r] \in Sessions => state' = [state EXCEPT ![runSession[r]] = to]
      /\ runSession[r] = NoSession => state' = state
  BY StoreAssumption DEF CloseRun
<1>2. Unsettled(r) /\ runAccount[r] \in Accounts
  BY DEF CustodyInv, LeaseMatchesRuns, RunSound, HeldBy, Unsettled, TypeOK, StoreTypeOK
<1>3. ASSUME NEW p \in Runs, Unsettled(p), runSession[p] = runSession[r], runSession[r] \in Sessions
      PROVE  p = r
  <2>1. runAccount[p] = runAccount[r]
    BY <1>2, <1>3 DEF WorkingMeansBusy
  <2>2. HeldBy(runAccount[p], p)
    BY <1>3, <2>1, <1>2 DEF CustodyInv, LeaseMatchesRuns, HeldBy
  <2>. QED  BY <2>1, <2>2 DEF HeldBy
<1>4. ASSUME NEW q \in Sessions PROVE state'[q] = "Working" <=> SessionBusy(q)'
  BY <1>1, <1>2, <1>3 DEF WorkingMeansBusy, SessionBusy, Unsettled, TypeOK, StoreTypeOK
<1>5. ASSUME NEW q \in Sessions, NEW p \in Runs, runSession'[p] = q, Unsettled(p)'
      PROVE  bound'[q] = runAccount'[p]
  BY <1>1, <1>5 DEF WorkingMeansBusy, Unsettled, TypeOK, StoreTypeOK
<1>. QED  BY <1>4, <1>5 DEF WorkingMeansBusy

LEMMA SessionWorking ==
  ASSUME TypeOK, TypeOK', CustodyInv, WorkingMeansBusy,
         \/ \E t \in Terminals, s \in Sessions : CreateSession(t, s)
         \/ \E t \in Terminals : Rebind(t) \/ MarkSpawned(t)
         \/ \E s \in Sessions : RemoveSession(s)
  PROVE  WorkingMeansBusy'
<1>1. ASSUME NEW t \in Terminals, NEW s \in Sessions, CreateSession(t, s) PROVE WorkingMeansBusy'
  <2>1. /\ state[s] = "absent" /\ state' = [state EXCEPT ![s] = "Idle"]
        /\ bound' = [bound EXCEPT ![s] = mem[t].account]
        /\ UNCHANGED << phase, runAccount, runSession >>
    BY <1>1 DEF CreateSession, CreateSessionTx
  <2>. QED  BY <2>1 DEF WorkingMeansBusy, SessionBusy, Unsettled, TypeOK, StoreTypeOK
<1>2. ASSUME NEW t \in Terminals, Rebind(t) PROVE WorkingMeansBusy'
  <2>1. PICK s \in Sessions :
          /\ ~SessionBusy(s) /\ state' = [state EXCEPT ![s] = "Idle"]
          /\ bound' = [bound EXCEPT ![s] = mem[t].account]
          /\ UNCHANGED << phase, runAccount, runSession >>
    BY <1>2 DEF Rebind, RebindTx, Exists
  <2>. QED  BY <2>1 DEF WorkingMeansBusy, SessionBusy, Unsettled, TypeOK, StoreTypeOK
<1>3. ASSUME NEW t \in Terminals, MarkSpawned(t) PROVE WorkingMeansBusy'
  BY <1>3 DEF MarkSpawned, MarkSpawnedTx, WorkingMeansBusy, SessionBusy, Unsettled, TypeOK, StoreTypeOK
<1>4. ASSUME NEW s \in Sessions, RemoveSession(s) PROVE WorkingMeansBusy'
  <2>1. /\ ~SessionBusy(s) /\ state' = [state EXCEPT ![s] = "removed"]
        /\ phase' = [r \in Runs |-> IF runSession[r] = s THEN "removed" ELSE phase[r]]
        /\ UNCHANGED << bound, runAccount, runSession >>
    BY <1>4 DEF RemoveSession, RemoveSessionTx
  <2>. QED  BY <2>1 DEF WorkingMeansBusy, SessionBusy, Unsettled, TypeOK, StoreTypeOK
<1>. QED  BY <1>1, <1>2, <1>3, <1>4

LEMMA WorkingStep ==
  TypeOK /\ TypeOK' /\ CustodyInv /\ WorkingMeansBusy /\ [Next]_vars => WorkingMeansBusy'
<1> SUFFICES ASSUME TypeOK, TypeOK', CustodyInv, WorkingMeansBusy, [Next]_vars PROVE WorkingMeansBusy'
  OBVIOUS
<1>1. ASSUME UNCHANGED << SessionRows, phase >> PROVE WorkingMeansBusy'
  BY <1>1 DEF SessionRows, WorkingMeansBusy, SessionBusy, Unsettled
<1>2. ASSUME NEW t \in Terminals, LaunchNotStarted(t) \/ Settle(t) PROVE WorkingMeansBusy'
  <2>1. cur[t] \in Runs /\ phase[cur[t]] # "absent"
    BY <1>2 DEF LaunchNotStarted, Settle, NoRunPcs, CustodyInv, TerminalSound, TypeOK
  <2>2. Classify(mem[t].outcome) # "Working"
    BY DEF Classify
  <2>. QED  BY <1>2, <2>1, <2>2, CloseWorking DEF LaunchNotStarted, Settle, SettleTx
<1>3. ASSUME NEW o \in Operators, RecoverRun(o) PROVE WorkingMeansBusy'
  <2>1. opRun[o] \in Runs
    BY <1>3 DEF RecoverRun, TypeOK
  <2>. QED  BY <1>3, <2>1, CloseWorking DEF RecoverRun, RecoverRunTx
<1>4. ASSUME NEW t \in Terminals, Step(t) PROVE WorkingMeansBusy'
  <2> USE DEF SessionRows, store
  <2>1. ASSUME \/ AppendUser(t) \/ Refused(t) \/ SpawnProcess(t) \/ LaunchAbandoned(t)
               \/ \E c \in Calls : BeginTool(t, c)
               \/ RecordTool(t) \/ CallTool(t) \/ SettleTool(t) \/ SettleToolFails(t)
        PROVE  WorkingMeansBusy'
    BY <1>1, <2>1 DEF AppendUser, AppendMessageTx, TouchSession, Refused, SpawnProcess, LaunchAbandoned,
       BeginTool, RecordTool, InsertReceipt, CallTool, SettleTool, SettleToolTx, SettleToolFails
  <2>2. ASSUME \/ ReadForTool(t) \/ AppendTool(t) \/ ExecutionError(t)
               \/ \E outcome \in Outcomes : Finish(t, outcome)
               \/ Join(t) \/ JoinUnproven(t) \/ ReadForAnswer(t) \/ AppendAnswer(t)
               \/ FinishAnswers(t) \/ ReturnUncertain(t) \/ JoinedError(t)
        PROVE  WorkingMeansBusy'
    BY <1>1, <2>2 DEF ReadForTool, ReadRevision, AppendTool, AppendMessageTx, TouchSession, ExecutionError,
       Finish, Join, JoinUnproven, ReadForAnswer, AppendAnswer, AppendFinalTx, FinishAnswers,
       ReturnUncertain, JoinedError
  <2>. QED  BY <1>2, <1>4, <2>1, <2>2, PrepareWorking, SessionWorking DEF Step
<1>5. ASSUME NEW t \in Terminals, Request(t) PROVE WorkingMeansBusy'
  BY <1>1, <1>5 DEF Request, LoadSession, BeginCreate, BeginProbe, BeginRebind, ReadAccount, Crash,
     SessionRows, store
<1>6. ASSUME \/ Administer \/ \E o \in Operators : Recover(o)
             \/ \E r \in Runs : ProviderExits(r)
      PROVE  WorkingMeansBusy'
  BY <1>1, <1>3, <1>6, SessionWorking DEF Administer, AddAccount, AddAccountTx, SetAccountEnabled, SetAccountEnabledTx,
     SelectPane, SelectPaneTx, TouchSession, Recover, RecoveryCandidate, ProveGroupAbsent,
     RecoverRefused, ProviderExits, SessionRows, store
<1>7. CASE UNCHANGED vars
  BY <1>1, <1>7 DEF vars, store, SessionRows
<1>. QED  BY <1>4, <1>5, <1>6, <1>7, NextCases

\* A session is Working exactly while a run of it is unsettled, and stays on the
\* account which that run holds (store.rs: prepare_run, rebind, remove_session,
\* settle, recover_run).
THEOREM WorkingIsBusy == Spec => []WorkingMeansBusy
<1>1. TypeOK /\ CustodyInv /\ WorkingMeansBusy /\ TypeOK' /\ [Next]_vars => WorkingMeansBusy'
  BY WorkingStep
<1>. QED  BY InitWorking, TypeCorrect, CustodyInvariant, <1>1, PTL DEF Spec

-----------------------------------------------------------------------------
(***************************************************************************)
(* The kernel and its display.                                             *)
(***************************************************************************)

\* The types.
RouteValues == Routes \cup {NoRoute, Default}
TaskState ==
  [at : {"top", "appended", "running", "ended", "judging", "routing", "finished"}, pane : BOOLEAN,
   n : Nat, cancelled : BOOLEAN, consecutive : Nat, tried : SUBSET RouteValues,
   source : RouteValues, candidates : SUBSET Routes, facts : TurnFacts \cup {NoFacts}]
StoreState ==
  [made : SUBSET Threads, run : [Selectable -> Threads \cup {NoThread}], route : [Threads -> RouteValues]]
Results == [of : Threads, result : {"completed", "stopped", "error"}]
ServiceState ==
  [at : {"select", "stopped", "failed"}, current : Threads \cup {NoThread}, pending : Threads \cup {NoThread},
   quit : BOOLEAN, done : Seq(Results), intents : Nat, started : Nat]
Updates ==
  [type : {"view"}, of : Threads \cup {NoThread}, working : BOOLEAN] \cup {Notice}
  \cup [type : {"clear"}, of : Threads] \cup [type : {"stopped"}]
Texts == [type : {"delta"}, of : Threads, n : Nat]
BoxState == [updates : Seq(Updates), deltas : SUBSET Texts, lost : BOOLEAN]
DisplayState == [open : BOOLEAN, of : Threads \cup {NoThread}, working : BOOLEAN, stream : SUBSET Nat]
KernelTypeOK ==
  /\ loop \in [Threads -> {NoActive} \cup TaskState]
  /\ stored \in StoreState /\ service \in ServiceState
  /\ outbox \in BoxState /\ IsFiniteSet(outbox.deltas)
  /\ channel \in Seq(Updates \cup Texts) /\ Len(channel) <= ChannelLimit
  /\ display \in DisplayState

\* A task belongs to a session of the store, and so does the selection.
MadeInv ==
  /\ Running \subseteq stored.made
  /\ service.current \in stored.made \cup {NoThread}

\* Text n of session s at place i of what is on its way to the screen: 0 is the
\* screen itself, and i > 0 a place of the channel.
Text(s, n) == [type |-> "delta", of |-> s, n |-> n]
Shows(c, d, i, s, n) ==
  IF i = 0 THEN d.of = s /\ n \in d.stream ELSE i \in 1..Len(c) /\ c[i] = Text(s, n)
\* The reset of a session's stream, behind place i of the channel, or queued.
ResetBefore(c, i, j, s) == \E k \in 1..Len(c) : i < k /\ k < j /\ c[k] = ClearStream(s)
ResetQueued(u, s) == \E k \in 1..Len(u) : u[k] = ClearStream(s)
Reset(c, u, i, s) == ResetBefore(c, i, Len(c) + 1, s) \/ ResetQueued(u, s)

\* Between the text of two tasks of a session there is a reset.
StreamInv(c, d) ==
  \A s \in Threads, i, j \in 0..Len(c), m, n \in Nat :
    Shows(c, d, i, s, m) /\ Shows(c, d, j, s, n) /\ i <= j /\ m # n => ResetBefore(c, i, j, s)

\* Text that no reset follows is that of the session's task, and so is the text in
\* the outbox; the task may have ended, if its end was not received yet.
OfTask(e, n) == e.at # "none" /\ (e.at # "finished" => e.n = n)
TextInv(l, box, c, d) ==
  /\ \A t \in box.deltas : OfTask(l[t.of], t.n)
  /\ \A t, u \in box.deltas : t.of = u.of => t.n = u.n
  /\ \A s \in Threads, i \in 0..Len(c), n \in Nat :
       Shows(c, d, i, s, n) /\ ~Reset(c, box.updates, i, s) =>
         OfTask(l[s], n) /\ \A t \in box.deltas : t.of = s => t.n = n

\* The last view on its way, or the one on the screen, is v.
LastView(q, d, v) ==
  \/ \E k \in 1..Len(q) : q[k] = v /\ \A j \in 1..Len(q) : k < j => q[j].type # "view"
  \/ (\A k \in 1..Len(q) : q[k].type # "view") /\ d.of = v.of /\ d.working = v.working

ScreenInv ==
  /\ ~display.open => display.stream = {}
  /\ display.stream # {} => display.of \in Threads
  /\ display.open /\ ~outbox.lost => StreamInv(channel, display)
  /\ display.open /\ ~outbox.lost /\ service.at = "select" => TextInv(loop, outbox, channel, display)
  /\ display.open /\ service.at = "select" /\ Running = {} =>
       LastView(channel \o outbox.updates, display, View(service.current, FALSE))

KernelInv == KernelTypeOK /\ MadeInv /\ ScreenInv

-----------------------------------------------------------------------------
(* Natural numbers and sequences.                                          *)

LEMMA MinIsIn ==
  ASSUME NEW S \in SUBSET Nat, S # {}
  PROVE  Min(S) \in S
<1>. DEFINE R == {p \in Nat \X Nat : p[1] < p[2]}
<1>1. IsWellFoundedOn(R, Nat)
  BY NatLessThanWellFounded DEF OpToRel
<1>. HIDE DEF R
<1>2. PICK x \in S : \A y \in S : <<y, x>> \notin R
  BY <1>1, WFMin
<1>3. x \in Nat /\ \A y \in S : y \in Nat
  BY <1>2
<1>4. ASSUME NEW y \in S PROVE x <= y
  <2>1. <<y, x>> \notin R /\ x \in Nat /\ y \in Nat
    BY <1>2, <1>3
  <2>2. ~(y < x)
    BY <2>1 DEF R
  <2>. QED  BY <2>1, <2>2
<1>. QED  BY <1>2, <1>4 DEF Min

LEMMA TheOne == \A x : The({x}) = x
  BY DEF The

JoinOf(T, a, b, r) ==
  /\ r \in Seq(T) /\ Len(r) = Len(a) + Len(b)
  /\ \A k \in 1..Len(a) : r[k] = a[k]
  /\ \A k \in 1..Len(b) : r[Len(a) + k] = b[k]

LEMMA Joined ==
  ASSUME NEW T, NEW a \in Seq(T), NEW b \in Seq(T)
  PROVE  JoinOf(T, a, b, a \o b)
<1>. SUFFICES ASSUME NEW r, r = a \o b PROVE JoinOf(T, a, b, r)
  OBVIOUS
<1>1. \A k \in 1..Len(b) : Len(a) + k \in 1..(Len(a) + Len(b)) /\ (Len(a) + k) - Len(a) = k /\ ~(Len(a) + k <= Len(a))
  OBVIOUS
<1>2. r \in Seq(T) /\ Len(r) = Len(a) + Len(b) /\ \A k \in 1..Len(a) : r[k] = a[k]
  OBVIOUS
<1>3. \A k \in 1..(Len(a) + Len(b)) : r[k] = IF k <= Len(a) THEN a[k] ELSE b[k - Len(a)]
  OBVIOUS
<1>4. ASSUME NEW k \in 1..Len(b) PROVE r[Len(a) + k] = b[k]
  BY <1>1, <1>3
<1>. QED  BY <1>2, <1>4 DEF JoinOf

\* A sequence without one of its places, and one with a tail put behind it.
LEMMA Removed ==
  ASSUME NEW T, NEW q \in Seq(T), NEW d \in 1..Len(q), NEW r, r = RemoveAt(q, d)
  PROVE  /\ r \in Seq(T) /\ Len(r) = Len(q) - 1
         /\ \A k \in 1..Len(q) : k # d => \E j \in 1..Len(r) : r[j] = q[k]
<1>1. r = SubSeq(q, 1, d - 1) \o SubSeq(q, d + 1, Len(q))
  BY DEF RemoveAt
<1>2. d - 1 \in Nat /\ d + 1 \in Nat /\ Len(q) \in Nat
  OBVIOUS
<1>. DEFINE a == SubSeq(q, 1, d - 1)
            b == SubSeq(q, d + 1, Len(q))
<1>3. a \in Seq(T) /\ Len(a) = d - 1 /\ \A k \in 1..(d - 1) : a[k] = q[k]
  BY <1>2
<1>4. b \in Seq(T) /\ Len(b) = Len(q) - d /\ \A k \in 1..(Len(q) - d) : b[k] = q[d + k]
  BY <1>2
<1>. HIDE DEF a, b
<1>5. r = a \o b
  BY <1>1 DEF a, b
<1>6. /\ r \in Seq(T) /\ Len(r) = Len(a) + Len(b)
      /\ \A k \in 1..Len(a) : r[k] = a[k]
      /\ \A k \in 1..Len(b) : r[Len(a) + k] = b[k]
  <2>1. a \in Seq(T) /\ b \in Seq(T)
    BY <1>3, <1>4
  <2>2. JoinOf(T, a, b, r)
    BY <1>5, <2>1, Joined
  <2>. QED  BY <2>2 DEF JoinOf
<1>7. ASSUME NEW k \in 1..Len(q), k # d PROVE \E j \in 1..Len(r) : r[j] = q[k]
  <2>1. CASE k < d
    <3>1. k \in 1..(d - 1) /\ k \in 1..Len(a) /\ a[k] = q[k]
      BY <1>2, <1>3, <2>1
    <3>2. r[k] = q[k] /\ k \in 1..Len(r)
      BY <1>3, <1>4, <1>6, <3>1
    <3>. QED  BY <3>2
  <2>2. CASE k > d
    <3>1. k - d \in 1..Len(b) /\ b[k - d] = q[d + (k - d)]
      BY <1>4, <2>2
    <3>2. r[Len(a) + (k - d)] = b[k - d]
      BY <1>6, <3>1
    <3>3. d + (k - d) = k
      OBVIOUS
    <3>4. r[Len(a) + (k - d)] = q[k]
      BY <3>1, <3>2, <3>3
    <3>5. Len(a) \in Nat /\ Len(b) \in Nat
      BY <1>3, <1>4
    <3>6. Len(a) + (k - d) \in 1..Len(r)
      BY <1>6, <3>1, <3>5
    <3>. QED  BY <3>4, <3>6
  <2>. QED  BY <1>7, <2>1, <2>2
<1>8. Len(r) = Len(q) - 1
  BY <1>2, <1>3, <1>4, <1>6
<1>. QED  BY <1>6, <1>7, <1>8

\* The places of a sequence behind the n-th.
RestOf(T, s, n, r) ==
  r \in Seq(T) /\ Len(r) = Len(s) - n /\ \A k \in 1..(Len(s) - n) : r[k] = s[n + k]

LEMMA Rest ==
  ASSUME NEW T, NEW s \in Seq(T), NEW n \in 0..Len(s)
  PROVE  RestOf(T, s, n, SubSeq(s, n + 1, Len(s)))
<1>. DEFINE d == n + 1
            r == SubSeq(s, d, Len(s))
<1>1. d \in Nat /\ Len(s) \in Nat /\ d \in 1..(Len(s) + 1) /\ n \in Nat
  OBVIOUS
<1>. HIDE DEF d
<1>2. r \in Seq(T) /\ Len(r) = (Len(s) + 1) - d /\ \A k \in 1..((Len(s) + 1) - d) : r[k] = s[(d - 1) + k]
  BY <1>1
<1>. QED  BY <1>1, <1>2 DEF d, RestOf
-----------------------------------------------------------------------------
(* The outbox.                                                             *)

LEMMA DroppedIsOne ==
  ASSUME NEW q \in Seq(Updates), Len(q) > 0
  PROVE  Dropped(q) \in 1..Len(q)
<1>. DEFINE views == {i \in DOMAIN q : q[i].type = "view"}
<1>1. views \subseteq 1..Len(q) /\ views \in SUBSET Nat /\ 1 \in 1..Len(q)
  OBVIOUS
<1>2. Dropped(q) = IF views = {} THEN 1 ELSE Min(views)
  BY DEF Dropped
<1>. HIDE DEF views
<1>3. views # {} => Min(views) \in views
  BY <1>1, MinIsIn
<1>. QED  BY <1>1, <1>2, <1>3

\* What one more update does to the outbox: it is the last, and a reset that was
\* there is there unless the outbox notes its loss.
OneMore(box, u, b) ==
  /\ b \in BoxState /\ b.deltas = box.deltas /\ (box.lost => b.lost)
  /\ Len(b.updates) > 0 /\ b.updates[Len(b.updates)] = u
  /\ \A k \in 1..Len(box.updates) : box.updates[k].type = "clear" /\ ~b.lost =>
       \E j \in 1..Len(b.updates) : b.updates[j] = box.updates[k]

LEMMA EnqueuedKeeps ==
  ASSUME NEW box \in BoxState, NEW u \in Updates
  PROVE  OneMore(box, u, Enqueued(box, u))
<1>. SUFFICES ASSUME NEW b, b = Enqueued(box, u) PROVE OneMore(box, u, b)
  OBVIOUS
<1>1. /\ box.updates \in Seq(Updates) /\ Len(box.updates) \in Nat
      /\ box.deltas \in SUBSET Texts /\ box.lost \in BOOLEAN
  BY DEF BoxState
<1>2. CASE Len(box.updates) < MaxQueued
  <2>1. b = [box EXCEPT !.updates = Append(box.updates, u)]
    BY <1>2 DEF Enqueued
  <2>2. b.updates = Append(box.updates, u) /\ b.deltas = box.deltas /\ b.lost = box.lost
    BY <2>1 DEF BoxState
  <2>3. Append(box.updates, u) \in Seq(Updates)
    BY <1>1
  <2>4. b \in BoxState
    BY <1>1, <2>1, <2>3 DEF BoxState
  <2>. QED  BY <1>1, <2>2, <2>3, <2>4 DEF OneMore
<1>3. CASE ~(Len(box.updates) < MaxQueued)
  <2>. DEFINE d == Dropped(box.updates)
              r == RemoveAt(box.updates, d)
              lost == box.lost \/ box.updates[d].type = "clear"
  <2>1. MaxQueued \in Nat \ {0}
    BY KernelAssumption
  <2>2. Len(box.updates) > 0
    BY <1>1, <1>3, <2>1
  <2>3. d \in 1..Len(box.updates)
    BY <1>1, <2>2, DroppedIsOne
  <2>4. b = [box EXCEPT !.updates = Append(r, u), !.lost = lost]
    BY <1>3 DEF Enqueued
  <2>. HIDE DEF d
  <2>5. /\ r \in Seq(Updates) /\ Len(r) \in Nat
        /\ \A k \in 1..Len(box.updates) : k # d => \E j \in 1..Len(r) : r[j] = box.updates[k]
    BY <1>1, <2>3, Removed
  <2>. HIDE DEF r
  <2>6. lost \in BOOLEAN /\ (box.lost => lost) /\ (box.updates[d].type = "clear" => lost)
    BY <1>1
  <2>. HIDE DEF lost
  <2>7. Append(r, u) \in Seq(Updates) /\ Len(Append(r, u)) = Len(r) + 1 /\ Append(r, u)[Len(r) + 1] = u
        /\ \A j \in 1..Len(r) : Append(r, u)[j] = r[j]
    BY <2>5
  <2>8. b.updates = Append(r, u) /\ b.deltas = box.deltas /\ b.lost = lost
    BY <2>4 DEF BoxState
  <2>9. b \in BoxState
    BY <1>1, <2>4, <2>6, <2>7 DEF BoxState
  <2>10. ASSUME NEW k \in 1..Len(box.updates), box.updates[k].type = "clear", ~b.lost
         PROVE  \E j \in 1..Len(b.updates) : b.updates[j] = box.updates[k]
    <3>1. k # d
      BY <2>6, <2>8, <2>10
    <3>2. PICK j \in 1..Len(r) : r[j] = box.updates[k]
      BY <2>5, <3>1
    <3>3. j \in 1..Len(b.updates) /\ b.updates[j] = r[j]
      BY <2>5, <2>7, <2>8
    <3>. QED  BY <3>2, <3>3
  <2>11. Len(b.updates) > 0 /\ b.updates[Len(b.updates)] = u
    BY <2>5, <2>7, <2>8
  <2>. QED  BY <2>6, <2>8, <2>9, <2>10, <2>11 DEF OneMore
<1>. QED  BY <1>2, <1>3

\* The outbox while the updates in `updates` are queued one by one.
Filling(updates, deltas, n) ==
  LET box[i \in 0..n] ==
        IF i = 0 THEN [outbox EXCEPT !.deltas = deltas]
        ELSE The({Enqueued(b, updates[i]) : b \in {box[i - 1]}})
  IN box

Fills(updates, deltas, n, f) ==
  f = [i \in 0..n |->
        IF i = 0 THEN [outbox EXCEPT !.deltas = deltas]
        ELSE The({Enqueued(b, updates[i]) : b \in {f[i - 1]}})]

LEMMA FillingExists ==
  ASSUME NEW updates, NEW deltas, NEW n \in Nat
  PROVE  \E f : Fills(updates, deltas, n, f)
<1>. DEFINE T == {m \in Nat : \E f : Fills(updates, deltas, m, f)}
<1>1. 0 \in T
  <2>. DEFINE f == [i \in 0..0 |-> [outbox EXCEPT !.deltas = deltas]]
  <2>1. Fills(updates, deltas, 0, f)
    <3>1. f = [i \in 0..0 |->
                IF i = 0 THEN [outbox EXCEPT !.deltas = deltas]
                ELSE The({Enqueued(b, updates[i]) : b \in {f[i - 1]}})]
      BY \A i \in 0..0 : i = 0
    <3>. QED  BY <3>1 DEF Fills
  <2>. QED  BY <2>1
<1>2. ASSUME NEW m \in Nat, m \in T PROVE m + 1 \in T
  <2>1. PICK f : Fills(updates, deltas, m, f)
    BY <1>2
  <2>. DEFINE last == The({Enqueued(b, updates[m + 1]) : b \in {f[m]}})
              g == [i \in 0..(m + 1) |-> IF i = m + 1 THEN last ELSE f[i]]
  <2>2. \A i \in 0..m : f[i] = IF i = 0 THEN [outbox EXCEPT !.deltas = deltas]
                               ELSE The({Enqueued(b, updates[i]) : b \in {f[i - 1]}})
    BY <2>1 DEF Fills
  <2>3. \A i \in 0..(m + 1) : g[i] = IF i = m + 1 THEN last ELSE f[i]
    OBVIOUS
  <2>4. g[m] = f[m]
    BY <2>3
  <2>5. ASSUME NEW i \in 0..(m + 1)
        PROVE  g[i] = IF i = 0 THEN [outbox EXCEPT !.deltas = deltas]
                      ELSE The({Enqueued(b, updates[i]) : b \in {g[i - 1]}})
    <3>1. CASE i = m + 1
      <4>1. i # 0 /\ i - 1 = m
        BY <3>1
      <4>2. g[i] = last
        BY <2>3, <3>1
      <4>. HIDE DEF g
      <4>3. last = The({Enqueued(b, updates[i]) : b \in {g[i - 1]}})
        BY <2>4, <3>1, <4>1
      <4>. QED  BY <4>1, <4>2, <4>3
    <3>2. CASE i # m + 1
      <4>1. i \in 0..m /\ g[i] = f[i]
        BY <2>3, <3>2
      <4>2. CASE i = 0
        BY <2>2, <4>1, <4>2
      <4>3. CASE i # 0
        <5>1. i - 1 \in 0..(m + 1) /\ i - 1 # m + 1
          BY <4>1, <4>3
        <5>2. g[i - 1] = f[i - 1]
          BY <2>3, <5>1
        <5>. HIDE DEF g
        <5>. QED  BY <2>2, <4>1, <4>3, <5>2
      <4>. QED  BY <4>2, <4>3
    <3>. QED  BY <3>1, <3>2
  <2>6. Fills(updates, deltas, m + 1, g)
    <3>1. g = [i \in 0..(m + 1) |->
                IF i = 0 THEN [outbox EXCEPT !.deltas = deltas]
                ELSE The({Enqueued(b, updates[i]) : b \in {g[i - 1]}})]
      BY <2>5
    <3>. QED  BY <3>1 DEF Fills
  <2>. QED  BY <2>6
<1>3. Nat \subseteq T
  <2>. HIDE DEF T
  <2>. QED  BY <1>1, <1>2, SetInduction
<1>. QED  BY <1>3

\* The outbox after one of the updates, and the next.
OneByOne(updates, deltas, n, f) ==
  /\ f[0] = [outbox EXCEPT !.deltas = deltas]
  /\ \A i \in 1..n : f[i] = Enqueued(f[i - 1], updates[i])

LEMMA FillingSteps ==
  ASSUME NEW updates, NEW deltas, NEW n \in Nat
  PROVE  OneByOne(updates, deltas, n, Filling(updates, deltas, n))
<1>1. Filling(updates, deltas, n) = CHOOSE g : Fills(updates, deltas, n, g)
  BY DEF Filling, Fills
<1>2. PICK f : f = Filling(updates, deltas, n) /\ Fills(updates, deltas, n, f)
  BY <1>1, FillingExists
<1>3. \A i \in 0..n : f[i] = IF i = 0 THEN [outbox EXCEPT !.deltas = deltas]
                             ELSE The({Enqueued(b, updates[i]) : b \in {f[i - 1]}})
  BY <1>2 DEF Fills
<1>4. ASSUME NEW i \in 1..n PROVE f[i] = Enqueued(f[i - 1], updates[i])
  <2>1. f[i] = The({Enqueued(b, updates[i]) : b \in {f[i - 1]}})
    BY <1>3
  <2>2. {Enqueued(b, updates[i]) : b \in {f[i - 1]}} = {Enqueued(f[i - 1], updates[i])}
    OBVIOUS
  <2>. QED  BY <2>1, <2>2, TheOne
<1>5. f[0] = [outbox EXCEPT !.deltas = deltas]
  BY <1>3, 0 \in 0..n
<1>. QED  BY <1>2, <1>4, <1>5 DEF OneByOne

LEMMA QueuedKeeps ==
  ASSUME outbox \in BoxState, NEW updates \in Seq(Updates), NEW deltas \in SUBSET Texts,
         NEW b, b = Queued(updates, deltas)
  PROVE  /\ b \in BoxState /\ b.deltas = deltas /\ (outbox.lost => b.lost)
         /\ Len(updates) = 0 => b.updates = outbox.updates
         /\ Len(updates) > 0 => Len(b.updates) > 0 /\ b.updates[Len(b.updates)] = updates[Len(updates)]
         /\ \A s \in Threads : ~b.lost /\ (ResetQueued(outbox.updates, s) \/ ResetQueued(updates, s)) =>
              ResetQueued(b.updates, s)
<1>. DEFINE n == Len(updates)
<1>2. PICK f : OneByOne(updates, deltas, n, f) /\ b = f[n]
  <2>1. b = Filling(updates, deltas, n)[n] /\ n \in Nat
    BY DEF Queued, Filling
  <2>. QED  BY <2>1, FillingSteps
<1>. DEFINE Was(s, m) == ResetQueued(outbox.updates, s) \/ \E k \in 1..m : updates[k] = ClearStream(s)
            Good(m) == /\ f[m] \in BoxState /\ f[m].deltas = deltas /\ (outbox.lost => f[m].lost)
                       /\ m > 0 => Len(f[m].updates) > 0 /\ f[m].updates[Len(f[m].updates)] = updates[m]
                       /\ \A s \in Threads : ~f[m].lost /\ Was(s, m) => ResetQueued(f[m].updates, s)
            T == {m \in Nat : m <= n => Good(m)}
<1>1. n \in Nat /\ (\A i \in 1..n : updates[i] \in Updates)
  OBVIOUS
<1>3. f[0] = [outbox EXCEPT !.deltas = deltas] /\ \A i \in 1..n : f[i] = Enqueued(f[i - 1], updates[i])
  BY <1>2 DEF OneByOne
<1>. HIDE DEF n
<1>4. f[0] \in BoxState /\ f[0].deltas = deltas /\ f[0].lost = outbox.lost /\ f[0].updates = outbox.updates
  BY <1>3 DEF BoxState
<1>5. 0 \in T
  <2>1. \A s : Was(s, 0) => ResetQueued(outbox.updates, s)
    OBVIOUS
  <2>2. Good(0)
    BY <1>4, <2>1
  <2>. QED  BY <2>2
<1>6. ASSUME NEW m \in Nat, m \in T PROVE m + 1 \in T
  <2>1. SUFFICES ASSUME m + 1 <= n PROVE Good(m + 1)
    OBVIOUS
  <2>2. Good(m) /\ m + 1 \in 1..n /\ (m + 1) - 1 = m
    BY <1>1, <1>6, <2>1
  <2>3. f[m + 1] = Enqueued(f[m], updates[m + 1]) /\ updates[m + 1] \in Updates
    <3>1. \A i \in 1..n : f[i] = Enqueued(f[i - 1], updates[i])
      BY <1>3
    <3>2. f[m + 1] = Enqueued(f[(m + 1) - 1], updates[m + 1])
      BY <2>2, <3>1
    <3>. QED  BY <1>1, <2>2, <3>2
  <2>. DEFINE o == f[m]
              e == f[m + 1]
              u == updates[m + 1]
  <2>4. o \in BoxState /\ o.deltas = deltas /\ (outbox.lost => o.lost)
    BY <2>2
  <2>5. \A s \in Threads : ~o.lost /\ Was(s, m) => ResetQueued(o.updates, s)
    BY <2>2
  <2>. HIDE DEF o, e, u, Was
  <2>6. /\ e \in BoxState /\ e.deltas = o.deltas /\ (o.lost => e.lost)
        /\ Len(e.updates) > 0 /\ e.updates[Len(e.updates)] = u
        /\ \A k \in 1..Len(o.updates) : o.updates[k].type = "clear" /\ ~e.lost =>
             \E j \in 1..Len(e.updates) : e.updates[j] = o.updates[k]
    <3>1. e = Enqueued(o, u) /\ u \in Updates
      BY <2>3 DEF o, e, u
    <3>2. o \in BoxState
      BY <2>4
    <3>3. OneMore(o, u, e)
      BY <3>1, <3>2, EnqueuedKeeps
    <3>. QED  BY <3>3 DEF OneMore
  <2>7. ASSUME NEW s \in Threads, ~e.lost, Was(s, m + 1) PROVE ResetQueued(e.updates, s)
    <3>1. Was(s, m) \/ u = ClearStream(s)
      BY <2>7 DEF Was, u
    <3>2. CASE Was(s, m)
      <4>1. PICK k \in 1..Len(o.updates) : o.updates[k] = ClearStream(s)
        BY <2>5, <2>6, <2>7, <3>2 DEF ResetQueued
      <4>2. o.updates[k].type = "clear"
        BY <4>1 DEF ClearStream
      <4>. QED  BY <2>6, <2>7, <4>1, <4>2 DEF ResetQueued
    <3>3. CASE u = ClearStream(s)
      <4>1. Len(e.updates) \in 1..Len(e.updates)
        BY <2>6 DEF BoxState
      <4>. QED  BY <2>6, <3>3, <4>1 DEF ResetQueued
    <3>. QED  BY <3>1, <3>2, <3>3
  <2>. QED  BY <2>4, <2>6, <2>7 DEF e, u
<1>7. Nat \subseteq T
  <2>. HIDE DEF T
  <2>. QED  BY <1>5, <1>6, SetInduction
<1>8. Good(n)
  BY <1>1, <1>7
<1>9. \A s \in Threads : ResetQueued(outbox.updates, s) \/ ResetQueued(updates, s) => Was(s, n)
  BY DEF ResetQueued, n
<1>10. Len(updates) = 0 => b.updates = outbox.updates
  BY <1>2, <1>4 DEF n
<1>11. /\ b \in BoxState /\ b.deltas = deltas /\ (outbox.lost => b.lost)
       /\ n > 0 => Len(b.updates) > 0 /\ b.updates[Len(b.updates)] = updates[n]
       /\ \A s \in Threads : ~b.lost /\ Was(s, n) => ResetQueued(b.updates, s)
  BY <1>2, <1>8
<1>. HIDE DEF Was, Good, T
<1>. QED  BY <1>9, <1>10, <1>11 DEF n

LEMMA SeqOfSet ==
  ASSUME NEW S, IsFiniteSet(S)
  PROVE  SetToSeq(S) \in Seq(S) /\ Len(SetToSeq(S)) = Cardinality(S)
<1>1. Cardinality(S) \in Nat /\ ExistsBijection(1..Cardinality(S), S)
  BY FS_CardinalityType
<1>. DEFINE n == Cardinality(S)
<1>2. \E f \in [1..n -> S] : IsInjective(f)
  BY <1>1 DEF ExistsBijection, Bijection, Injection
<1>3. SetToSeq(S) \in [1..n -> S]
  BY <1>2 DEF SetToSeq
<1>. HIDE DEF n
<1>4. n \in Nat
  BY <1>1 DEF n
<1>. QED  BY <1>3, <1>4 DEF n

\* The channel after a flush of an outbox: a head of its updates, and text only
\* behind all of them.
FlushedTo(c0, box, n, q, c, b) ==
  /\ n \in 0..Len(box.updates) /\ q \in Seq(box.deltas)
  /\ c = (c0 \o SubSeq(box.updates, 1, n)) \o q
  /\ b = [box EXCEPT !.updates = SubSeq(box.updates, n + 1, Len(box.updates)), !.deltas = b.deltas]
  /\ b.deltas \subseteq box.deltas
  /\ Len(q) > 0 => n = Len(box.updates)
  /\ Len(c) <= ChannelLimit
Flushed(box) == \E n, q : FlushedTo(channel, box, n, q, channel', outbox')

LEMMA FlushSends ==
  ASSUME KernelTypeOK, NEW box \in BoxState, IsFiniteSet(box.deltas), display.open, Flush(box)
  PROVE  Flushed(box)
<1>. DEFINE room == Room
            n == Fitting(box.updates)
            left == IF n = Len(box.updates) THEN room - n ELSE 0
<1>1. PICK sent \in SUBSET box.deltas :
        /\ Cardinality(sent) = IF Cardinality(box.deltas) < left THEN Cardinality(box.deltas) ELSE left
        /\ channel' = channel \o SubSeq(box.updates, 1, n) \o SetToSeq(sent)
        /\ outbox' = [box EXCEPT !.updates = SubSeq(box.updates, n + 1, Len(box.updates)), !.deltas = box.deltas \ sent]
  BY DEF Flush
<1>2. /\ channel \in Seq(Updates \cup Texts) /\ Len(channel) \in Nat /\ Len(channel) <= ChannelLimit
      /\ box.updates \in Seq(Updates) /\ Len(box.updates) \in Nat /\ ChannelLimit \in Nat
  BY KernelAssumption DEF KernelTypeOK, BoxState
<1>3. /\ room \in Nat /\ n \in 0..Len(box.updates) /\ n <= room /\ left \in Nat /\ left <= room - n
      /\ left > 0 => n = Len(box.updates)
  <2>1. room \in Nat
    BY <1>2 DEF Room
  <2>0. n = IF Len(box.updates) < room THEN Len(box.updates) ELSE room
    BY DEF Fitting
  <2>. HIDE DEF room, n
  <2>2. n \in 0..Len(box.updates) /\ n <= room
    BY <1>2, <2>0, <2>1
  <2>3. left \in Nat /\ left <= room - n /\ (left > 0 => n = Len(box.updates))
    BY <1>2, <2>1, <2>2
  <2>. QED  BY <2>1, <2>2, <2>3
<1>4. Cardinality(box.deltas) \in Nat /\ IsFiniteSet(sent)
  BY FS_CardinalityType, FS_Subset
<1>5. SetToSeq(sent) \in Seq(sent) /\ Len(SetToSeq(sent)) = Cardinality(sent) /\ Cardinality(sent) \in Nat
  BY <1>4, SeqOfSet, FS_CardinalityType
<1>. DEFINE p == SubSeq(box.updates, 1, n)
            q == SetToSeq(sent)
<1>6. p \in Seq(Updates) /\ Len(p) = n
  BY <1>2, <1>3
<1>7. Cardinality(sent) <= left
  BY <1>1, <1>3, <1>4
<1>8. q \in Seq(box.deltas)
  BY <1>5
<1>. HIDE DEF room, left, n, q
<1>9. Len(q) <= left /\ Len(q) \in Nat /\ q \in Seq(Texts)
  BY <1>5, <1>7, <1>8 DEF q, BoxState
<1>. HIDE DEF p
<1>10. Len(channel') = (Len(channel) + Len(p)) + Len(q) /\ channel' = (channel \o p) \o q
  <2>1. channel' = (channel \o p) \o q
    BY <1>1 DEF p, q
  <2>2. channel \o p \in Seq(Updates \cup Texts) /\ Len(channel \o p) = Len(channel) + Len(p)
    <3>1. p \in Seq(Updates \cup Texts)
      BY <1>6
    <3>2. JoinOf(Updates \cup Texts, channel, p, channel \o p)
      BY <1>2, <3>1, Joined
    <3>. QED  BY <3>2 DEF JoinOf
  <2>3. q \in Seq(Updates \cup Texts)
    BY <1>9
  <2>4. Len((channel \o p) \o q) = Len(channel \o p) + Len(q)
    BY <2>2, <2>3
  <2>. QED  BY <2>1, <2>2, <2>4
<1>11. Len(channel') <= ChannelLimit
  BY <1>2, <1>3, <1>6, <1>9, <1>10 DEF room, Room
<1>12. /\ outbox'.deltas \subseteq box.deltas
       /\ outbox' = [box EXCEPT !.updates = SubSeq(box.updates, n + 1, Len(box.updates)), !.deltas = outbox'.deltas]
  <2>1. outbox'.deltas = box.deltas \ sent
    BY <1>1 DEF BoxState, n
  <2>. QED  BY <1>1, <2>1 DEF n
<1>13. FlushedTo(channel, box, n, q, channel', outbox')
  BY <1>3, <1>6, <1>8, <1>9, <1>10, <1>11, <1>12 DEF FlushedTo, p
<1>. QED  BY <1>13 DEF Flushed
-----------------------------------------------------------------------------
(* Text and resets on their way.                                           *)

OnTheWay == Updates \cup Texts

LEMMA KindsApart ==
  /\ \A u \in Updates : \A s, n : u # Text(s, n)
  /\ \A s, t, n : ClearStream(s) # Text(t, n)
  /\ \A s, t, m, n : Text(s, m) = Text(t, n) <=> s = t /\ m = n
  /\ \A s, b, t : View(s, b) # ClearStream(t)
  BY DEF Updates, Notice, Text, ClearStream, View

\* Where the places of a channel come from after a flush.
PlacesOf(c, box, n, q, c2, b2) ==
  /\ c2 \in Seq(OnTheWay) /\ b2 \in BoxState /\ Len(c2) = Len(c) + n + Len(q) /\ n \in Nat /\ Len(q) \in Nat
  /\ b2.lost = box.lost /\ b2.updates = SubSeq(box.updates, n + 1, Len(box.updates))
  /\ \A k \in 1..Len(c) : c2[k] = c[k]
  /\ \A k \in 1..n : c2[Len(c) + k] = box.updates[k]
  /\ \A k \in 1..Len(q) : c2[Len(c) + n + k] = q[k] /\ q[k] \in box.deltas
  /\ \A k \in 1..(Len(box.updates) - n) : b2.updates[k] = box.updates[n + k]
  /\ Len(b2.updates) = Len(box.updates) - n

LEMMA FlushedPlaces ==
  ASSUME NEW c \in Seq(OnTheWay), NEW box \in BoxState, NEW n, NEW q, NEW c2, NEW b2,
         FlushedTo(c, box, n, q, c2, b2)
  PROVE  PlacesOf(c, box, n, q, c2, b2)
<1>1. /\ n \in 0..Len(box.updates) /\ q \in Seq(box.deltas) /\ b2.deltas \subseteq box.deltas
      /\ c2 = (c \o SubSeq(box.updates, 1, n)) \o q
      /\ b2 = [box EXCEPT !.updates = SubSeq(box.updates, n + 1, Len(box.updates)), !.deltas = b2.deltas]
  BY DEF FlushedTo
<1>2. box.updates \in Seq(Updates) /\ Len(box.updates) \in Nat /\ box.deltas \subseteq Texts /\ box.lost \in BOOLEAN
  BY DEF BoxState
<1>3. PICK p : p = SubSeq(box.updates, 1, n)
  OBVIOUS
<1>4. PICK r : r = SubSeq(box.updates, n + 1, Len(box.updates))
  OBVIOUS
<1>5. p \in Seq(Updates) /\ Len(p) = n /\ (\A k \in 1..n : p[k] = box.updates[k]) /\ n \in Nat
  BY <1>1, <1>2, <1>3
<1>6. r \in Seq(Updates) /\ Len(r) = Len(box.updates) - n /\ \A k \in 1..(Len(box.updates) - n) : r[k] = box.updates[n + k]
  <2>1. RestOf(Updates, box.updates, n, r)
    BY <1>1, <1>2, <1>4, Rest
  <2>. QED  BY <2>1 DEF RestOf
<1>7. p \in Seq(OnTheWay) /\ q \in Seq(OnTheWay) /\ Len(q) \in Nat /\ Len(c) \in Nat /\ \A k \in 1..Len(q) : q[k] \in box.deltas
  BY <1>1, <1>2, <1>5 DEF OnTheWay
<1>8. PICK c1 : c1 = c \o p
  OBVIOUS
<1>9. /\ c1 \in Seq(OnTheWay) /\ Len(c1) = Len(c) + n
      /\ (\A k \in 1..Len(c) : c1[k] = c[k]) /\ (\A k \in 1..n : c1[Len(c) + k] = p[k])
  <2>1. JoinOf(OnTheWay, c, p, c1)
    BY <1>7, <1>8, Joined
  <2>. QED  BY <1>5, <2>1 DEF JoinOf
<1>10. c2 = c1 \o q
  BY <1>1, <1>3, <1>8
<1>11. /\ c2 \in Seq(OnTheWay) /\ Len(c2) = Len(c1) + Len(q)
       /\ (\A k \in 1..Len(c1) : c2[k] = c1[k]) /\ (\A k \in 1..Len(q) : c2[Len(c1) + k] = q[k])
  <2>1. JoinOf(OnTheWay, c1, q, c2)
    BY <1>7, <1>9, <1>10, Joined
  <2>. QED  BY <2>1 DEF JoinOf
<1>12. b2.lost = box.lost /\ b2.updates = r /\ b2 \in BoxState
  <2>1. b2 = [box EXCEPT !.updates = r, !.deltas = b2.deltas] /\ b2.deltas \in SUBSET Texts
    BY <1>1, <1>2, <1>4
  <2>2. b2.lost = box.lost /\ b2.updates = r
    BY <2>1 DEF BoxState
  <2>3. b2 = [updates |-> r, deltas |-> b2.deltas, lost |-> box.lost]
    BY <2>1 DEF BoxState
  <2>. QED  BY <1>2, <1>6, <2>1, <2>2, <2>3 DEF BoxState
<1>13. ASSUME NEW k \in 1..Len(c) PROVE c2[k] = c[k]
  BY <1>5, <1>7, <1>9, <1>11
<1>14. ASSUME NEW k \in 1..n PROVE c2[Len(c) + k] = box.updates[k]
  <2>1. Len(c) + k \in 1..Len(c1)
    BY <1>5, <1>7, <1>9
  <2>. QED  BY <1>5, <1>9, <1>11, <2>1
<1>. QED  BY <1>4, <1>5, <1>6, <1>7, <1>9, <1>11, <1>12, <1>13, <1>14 DEF PlacesOf

\* After a flush a text in the channel was there before, or comes from the outbox,
\* whose updates are all ahead of it.
LEMMA FlushedShows ==
  ASSUME NEW c \in Seq(OnTheWay), NEW box \in BoxState, NEW n, NEW q, NEW c2, NEW b2,
         FlushedTo(c, box, n, q, c2, b2), NEW d, NEW i \in 0..Len(c2), NEW s, NEW m, Shows(c2, d, i, s, m)
  PROVE  \/ i \in 0..Len(c) /\ Shows(c, d, i, s, m)
         \/ i > Len(c) + n /\ Text(s, m) \in box.deltas /\ n = Len(box.updates) /\ Len(b2.updates) = 0
<1>1. /\ Len(c2) = Len(c) + n + Len(q) /\ n \in Nat /\ Len(q) \in Nat /\ Len(c) \in Nat /\ Len(box.updates) \in Nat
      /\ \A k \in 1..Len(c) : c2[k] = c[k]
      /\ \A k \in 1..n : c2[Len(c) + k] = box.updates[k]
      /\ \A k \in 1..Len(q) : c2[Len(c) + n + k] = q[k] /\ q[k] \in box.deltas
      /\ Len(b2.updates) = Len(box.updates) - n
  <2>1. PlacesOf(c, box, n, q, c2, b2)
    BY FlushedPlaces
  <2>2. Len(c) \in Nat /\ Len(box.updates) \in Nat
    BY DEF BoxState
  <2>. QED  BY <2>1, <2>2 DEF PlacesOf
<1>2. Len(q) > 0 => n = Len(box.updates)
  BY DEF FlushedTo
<1>3. CASE i \in 0..Len(c)
  BY <1>1, <1>3 DEF Shows
<1>4. CASE i > Len(c) /\ i <= Len(c) + n
  <2>1. i - Len(c) \in 1..n /\ Len(c) + (i - Len(c)) = i /\ n <= Len(box.updates)
    BY <1>1, <1>4 DEF FlushedTo
  <2>2. c2[i] = box.updates[i - Len(c)] /\ box.updates[i - Len(c)] \in Updates
    <3>1. c2[Len(c) + (i - Len(c))] = box.updates[i - Len(c)]
      BY <1>1, <2>1
    <3>2. i - Len(c) \in 1..Len(box.updates) /\ box.updates \in Seq(Updates)
      BY <1>1, <2>1 DEF BoxState
    <3>. QED  BY <2>1, <3>1, <3>2
  <2>3. c2[i] = Text(s, m)
    BY <1>1, <1>4 DEF Shows
  <2>. QED  BY <2>2, <2>3, KindsApart
<1>5. CASE i > Len(c) + n
  <2>1. i - (Len(c) + n) \in 1..Len(q) /\ Len(c) + n + (i - (Len(c) + n)) = i
    BY <1>1, <1>5
  <2>2. c2[i] \in box.deltas
    BY <1>1, <2>1
  <2>3. c2[i] = Text(s, m)
    BY <1>1, <1>5 DEF Shows
  <2>4. n = Len(box.updates) /\ Len(b2.updates) = 0
    BY <1>1, <1>2, <2>1
  <2>. QED  BY <1>5, <2>2, <2>3, <2>4
<1>. QED  BY <1>1, <1>3, <1>4, <1>5

\* The resets behind a place of the channel are still behind it.
LEMMA FlushedResets ==
  ASSUME NEW c \in Seq(OnTheWay), NEW box \in BoxState, NEW n, NEW q, NEW c2, NEW b2,
         FlushedTo(c, box, n, q, c2, b2), NEW i \in 0..Len(c), NEW s
  PROVE  /\ \A j \in 0..Len(c) : ResetBefore(c, i, j, s) => ResetBefore(c2, i, j, s)
         /\ Reset(c, box.updates, i, s) => Reset(c2, b2.updates, i, s)
         /\ Len(box.updates) = n => \A j : j \in Nat /\ j > Len(c) + n /\ Reset(c, box.updates, i, s) => ResetBefore(c2, i, j, s)
<1>1. /\ Len(c2) = Len(c) + n + Len(q) /\ n \in Nat /\ Len(q) \in Nat /\ Len(c) \in Nat /\ Len(box.updates) \in Nat
      /\ \A k \in 1..Len(c) : c2[k] = c[k]
      /\ \A k \in 1..n : c2[Len(c) + k] = box.updates[k]
      /\ \A k \in 1..(Len(box.updates) - n) : b2.updates[k] = box.updates[n + k]
      /\ Len(b2.updates) = Len(box.updates) - n
  <2>1. PlacesOf(c, box, n, q, c2, b2)
    BY FlushedPlaces
  <2>2. Len(c) \in Nat /\ Len(box.updates) \in Nat
    BY DEF BoxState
  <2>. QED  BY <2>1, <2>2 DEF PlacesOf
<1>2. ASSUME NEW j, ResetBefore(c, i, j, s) PROVE ResetBefore(c2, i, j, s)
  BY <1>1, <1>2 DEF ResetBefore
<1>3. ASSUME NEW k \in 1..Len(box.updates), box.updates[k] = ClearStream(s), k <= n
      PROVE  Len(c) + k \in 1..Len(c2) /\ c2[Len(c) + k] = ClearStream(s) /\ i < Len(c) + k /\ Len(c) + k <= Len(c) + n
  BY <1>1, <1>3
<1>4. ASSUME NEW k \in 1..Len(box.updates), box.updates[k] = ClearStream(s), k > n
      PROVE  ResetQueued(b2.updates, s)
  <2>1. k - n \in 1..(Len(box.updates) - n) /\ n + (k - n) = k
    BY <1>1, <1>4
  <2>2. b2.updates[k - n] = ClearStream(s) /\ k - n \in 1..Len(b2.updates)
    BY <1>1, <1>4, <2>1
  <2>. QED  BY <2>2 DEF ResetQueued
<1>5. Reset(c, box.updates, i, s) => Reset(c2, b2.updates, i, s)
  <2>1. ASSUME ResetBefore(c, i, Len(c) + 1, s) PROVE Reset(c2, b2.updates, i, s)
    <3>1. PICK k \in 1..Len(c) : i < k /\ c[k] = ClearStream(s)
      BY <2>1 DEF ResetBefore
    <3>2. k \in 1..Len(c2) /\ k < Len(c2) + 1 /\ c2[k] = ClearStream(s)
      BY <1>1, <3>1
    <3>. QED  BY <3>1, <3>2 DEF Reset, ResetBefore
  <2>2. ASSUME ResetQueued(box.updates, s) PROVE Reset(c2, b2.updates, i, s)
    <3>1. PICK k \in 1..Len(box.updates) : box.updates[k] = ClearStream(s)
      BY <2>2 DEF ResetQueued
    <3>2. CASE k <= n
      <4>1. Len(c) + k \in 1..Len(c2) /\ c2[Len(c) + k] = ClearStream(s) /\ i < Len(c) + k
        BY <1>3, <3>1, <3>2
      <4>2. Len(c) + k < Len(c2) + 1
        BY <1>1, <4>1
      <4>. QED  BY <4>1, <4>2 DEF Reset, ResetBefore
    <3>3. CASE ~(k <= n)
      BY <1>1, <1>4, <3>1, <3>3 DEF Reset
    <3>. QED  BY <3>2, <3>3
  <2>. QED  BY <2>1, <2>2 DEF Reset
<1>6. ASSUME Len(box.updates) = n, NEW j \in Nat, j > Len(c) + n, Reset(c, box.updates, i, s)
      PROVE  ResetBefore(c2, i, j, s)
  <2>1. ASSUME ResetBefore(c, i, Len(c) + 1, s) PROVE ResetBefore(c2, i, j, s)
    <3>1. PICK k \in 1..Len(c) : i < k /\ c[k] = ClearStream(s)
      BY <2>1 DEF ResetBefore
    <3>2. k \in 1..Len(c2) /\ k < j /\ c2[k] = ClearStream(s)
      BY <1>1, <1>6, <3>1
    <3>. QED  BY <3>1, <3>2 DEF ResetBefore
  <2>2. ASSUME ResetQueued(box.updates, s) PROVE ResetBefore(c2, i, j, s)
    <3>1. PICK k \in 1..Len(box.updates) : box.updates[k] = ClearStream(s)
      BY <2>2 DEF ResetQueued
    <3>2. Len(c) + k \in 1..Len(c2) /\ c2[Len(c) + k] = ClearStream(s) /\ i < Len(c) + k /\ Len(c) + k <= Len(c) + n
      BY <1>3, <1>6, <3>1
    <3>3. Len(c) + k < j
      BY <1>1, <1>6, <3>2
    <3>. QED  BY <3>2, <3>3 DEF ResetBefore
  <2>. QED  BY <1>6, <2>1, <2>2 DEF Reset
<1>. QED  BY <1>2, <1>5, <1>6

LEMMA FlushKeepsText ==
  ASSUME NEW c \in Seq(OnTheWay), NEW box \in BoxState, NEW n, NEW q, NEW c2, NEW b2,
         FlushedTo(c, box, n, q, c2, b2), NEW d, NEW l, StreamInv(c, d), TextInv(l, box, c, d)
  PROVE  StreamInv(c2, d) /\ TextInv(l, b2, c2, d)
<1>1. /\ Len(c2) = Len(c) + n + Len(q) /\ n \in Nat /\ Len(q) \in Nat /\ Len(c) \in Nat
  <2>1. PlacesOf(c, box, n, q, c2, b2)
    BY FlushedPlaces
  <2>. QED  BY <2>1 DEF PlacesOf
<1>2. b2.deltas \subseteq box.deltas
  BY DEF FlushedTo
<1>3. \A i \in 0..Len(c2) : \A s, m : Shows(c2, d, i, s, m) =>
        \/ i \in 0..Len(c) /\ Shows(c, d, i, s, m)
        \/ i > Len(c) + n /\ Text(s, m) \in box.deltas /\ n = Len(box.updates) /\ Len(b2.updates) = 0
  BY FlushedShows
<1>4. \A i \in 0..Len(c) : \A s :
         /\ \A j \in 0..Len(c) : ResetBefore(c, i, j, s) => ResetBefore(c2, i, j, s)
         /\ Reset(c, box.updates, i, s) => Reset(c2, b2.updates, i, s)
         /\ Len(box.updates) = n => \A j : j \in Nat /\ j > Len(c) + n /\ Reset(c, box.updates, i, s) => ResetBefore(c2, i, j, s)
  BY FlushedResets
<1>5. \A s, m : Text(s, m).of = s /\ Text(s, m).n = m
  BY DEF Text
<1>6. StreamInv(c2, d)
  <2>1. SUFFICES ASSUME NEW s \in Threads, NEW i \in 0..Len(c2), NEW j \in 0..Len(c2), NEW m \in Nat, NEW o \in Nat,
                        Shows(c2, d, i, s, m), Shows(c2, d, j, s, o), i <= j, m # o
                 PROVE  ResetBefore(c2, i, j, s)
    BY DEF StreamInv
  <2>2. CASE i \in 0..Len(c) /\ Shows(c, d, i, s, m)
    <3>1. CASE j \in 0..Len(c) /\ Shows(c, d, j, s, o)
      <4>1. ResetBefore(c, i, j, s)
        BY <2>1, <2>2, <3>1 DEF StreamInv
      <4>. QED  BY <1>4, <2>2, <3>1, <4>1
    <3>2. CASE j > Len(c) + n /\ Text(s, o) \in box.deltas /\ n = Len(box.updates)
      <4>1. Reset(c, box.updates, i, s)
        BY <1>5, <2>1, <2>2, <3>2 DEF TextInv
      <4>2. j \in Nat
        BY <1>1, <2>1
      <4>. QED  BY <1>4, <2>2, <3>2, <4>1, <4>2
    <3>. QED  BY <1>3, <2>1, <3>1, <3>2
  <2>3. CASE i > Len(c) + n /\ Text(s, m) \in box.deltas
    <3>1. j > Len(c) + n /\ ~(j \in 0..Len(c))
      BY <1>1, <2>1, <2>3
    <3>2. Text(s, o) \in box.deltas
      BY <1>3, <2>1, <3>1
    <3>3. Text(s, m).n = Text(s, o).n
      BY <1>5, <2>3, <3>2 DEF TextInv
    <3>. QED  BY <1>5, <2>1, <3>3
  <2>. QED  BY <1>3, <2>1, <2>2, <2>3
<1>7. ASSUME NEW s \in Threads, NEW i \in 0..Len(c2), NEW m \in Nat,
             Shows(c2, d, i, s, m), ~Reset(c2, b2.updates, i, s)
      PROVE  OfTask(l[s], m) /\ \A t \in b2.deltas : t.of = s => t.n = m
  <2>1. CASE i \in 0..Len(c) /\ Shows(c, d, i, s, m)
    <3>1. ~Reset(c, box.updates, i, s)
      BY <1>4, <1>7, <2>1
    <3>2. OfTask(l[s], m) /\ \A t \in box.deltas : t.of = s => t.n = m
      BY <1>7, <2>1, <3>1 DEF TextInv
    <3>. QED  BY <1>2, <3>2
  <2>2. CASE Text(s, m) \in box.deltas
    <3>1. OfTask(l[s], m)
      BY <1>5, <2>2 DEF TextInv
    <3>2. \A t \in box.deltas : t.of = s => t.n = m
      BY <1>5, <2>2 DEF TextInv
    <3>. QED  BY <1>2, <3>1, <3>2
  <2>. QED  BY <1>3, <1>7, <2>1, <2>2
<1>8. TextInv(l, b2, c2, d)
  <2>1. \A t \in b2.deltas : OfTask(l[t.of], t.n)
    BY <1>2 DEF TextInv
  <2>2. \A t, u \in b2.deltas : t.of = u.of => t.n = u.n
    BY <1>2 DEF TextInv
  <2>. QED  BY <1>7, <2>1, <2>2 DEF TextInv
<1>. QED  BY <1>6, <1>8

\* Text is still told apart when updates are queued and text is dropped, while
\* each session's task goes on, or its text is dropped behind a queued reset.
GoesOn(e, f) == \A n \in Nat : OfTask(e, n) => OfTask(f, n)

LEMMA QueueKeepsText ==
  ASSUME NEW c, NEW d, NEW l, NEW l2, NEW box, NEW b, b.deltas \subseteq box.deltas, box.deltas \subseteq Texts,
         \A s \in Threads : ResetQueued(box.updates, s) => ResetQueued(b.updates, s),
         \A s \in Threads : \/ GoesOn(l[s], l2[s])
                            \/ ResetQueued(b.updates, s) /\ \A t \in b.deltas : t.of # s,
         TextInv(l, box, c, d)
  PROVE  TextInv(l2, b, c, d)
<1>1. ASSUME NEW t \in b.deltas PROVE OfTask(l2[t.of], t.n)
  <2>1. t.of \in Threads /\ t.n \in Nat /\ t \in box.deltas
    BY DEF Texts
  <2>2. OfTask(l[t.of], t.n)
    BY <2>1 DEF TextInv
  <2>. QED  BY <2>1, <2>2 DEF GoesOn
<1>2. \A t, u \in b.deltas : t.of = u.of => t.n = u.n
  BY DEF TextInv
<1>3. ASSUME NEW s \in Threads, NEW i \in 0..Len(c), NEW n \in Nat, Shows(c, d, i, s, n), ~Reset(c, b.updates, i, s)
      PROVE  OfTask(l2[s], n) /\ \A t \in b.deltas : t.of = s => t.n = n
  <2>1. ~ResetQueued(b.updates, s) /\ ~Reset(c, box.updates, i, s)
    BY <1>3 DEF Reset
  <2>2. OfTask(l[s], n) /\ \A t \in box.deltas : t.of = s => t.n = n
    BY <1>3, <2>1 DEF TextInv
  <2>3. GoesOn(l[s], l2[s])
    BY <2>1
  <2>. QED  BY <2>2, <2>3 DEF GoesOn
<1>. QED  BY <1>1, <1>2, <1>3 DEF TextInv

\* A running task adds its text.
LEMMA StreamKeepsText ==
  ASSUME NEW c, NEW d, NEW l, NEW s \in Threads, NEW box, NEW b, b.updates = box.updates, l[s].n \in Nat,
         b.deltas = box.deltas \cup {Text(s, l[s].n)}, l[s].at = "running", TextInv(l, box, c, d)
  PROVE  TextInv(l, b, c, d)
<1>. DEFINE x == Text(s, l[s].n)
<1>1. x.of = s /\ x.n = l[s].n
  BY DEF Text
<1>2. \A n : OfTask(l[s], n) => l[s].n = n
  BY DEF OfTask
<1>3. OfTask(l[s], l[s].n)
  BY DEF OfTask
<1>. HIDE DEF x
<1>4. b.deltas = box.deltas \cup {x}
  BY DEF x
<1>5. \A t \in b.deltas : OfTask(l[t.of], t.n)
  BY <1>1, <1>3, <1>4 DEF TextInv
<1>6. \A t \in box.deltas : t.of = s => t.n = l[s].n
  BY <1>2 DEF TextInv
<1>7. \A t, u \in b.deltas : t.of = u.of => t.n = u.n
  <2>1. \A t, u \in box.deltas : t.of = u.of => t.n = u.n
    BY DEF TextInv
  <2>. QED  BY <1>1, <1>4, <1>6, <2>1
<1>8. ASSUME NEW r \in Threads, NEW i \in 0..Len(c), NEW n \in Nat, Shows(c, d, i, r, n), ~Reset(c, b.updates, i, r)
      PROVE  OfTask(l[r], n) /\ \A t \in b.deltas : t.of = r => t.n = n
  <2>1. OfTask(l[r], n) /\ \A t \in box.deltas : t.of = r => t.n = n
    BY <1>8 DEF TextInv
  <2>2. x.of = r => x.n = n
    BY <1>1, <1>2, <2>1
  <2>. QED  BY <1>4, <2>1, <2>2
<1>. QED  BY <1>5, <1>7, <1>8 DEF TextInv

\* Updates behind the channel bring no text.
LEMMA UpdatesKeepStream ==
  ASSUME NEW c \in Seq(OnTheWay), NEW p \in Seq(Updates), NEW d, StreamInv(c, d)
  PROVE  StreamInv(c \o p, d)
<1>. SUFFICES ASSUME NEW c2, c2 = c \o p PROVE StreamInv(c2, d)
  OBVIOUS
<1>1. JoinOf(OnTheWay, c, p, c2)
  <2>1. p \in Seq(OnTheWay)
    BY DEF OnTheWay
  <2>. QED  BY <2>1, Joined
<1>2. /\ Len(c2) = Len(c) + Len(p) /\ Len(c) \in Nat /\ Len(p) \in Nat
      /\ (\A k \in 1..Len(c) : c2[k] = c[k]) /\ (\A k \in 1..Len(p) : c2[Len(c) + k] = p[k])
  BY <1>1 DEF JoinOf
<1>3. ASSUME NEW i \in 0..Len(c2), NEW s, NEW n, Shows(c2, d, i, s, n)
      PROVE  i \in 0..Len(c) /\ Shows(c, d, i, s, n)
  <2>1. CASE i \in 0..Len(c)
    BY <1>2, <1>3, <2>1 DEF Shows
  <2>2. CASE i > Len(c)
    <3>1. i - Len(c) \in 1..Len(p) /\ Len(c) + (i - Len(c)) = i
      BY <1>2, <2>2
    <3>2. c2[i] = p[i - Len(c)] /\ p[i - Len(c)] \in Updates
      BY <1>2, <3>1
    <3>3. c2[i] = Text(s, n)
      BY <1>2, <1>3, <2>2 DEF Shows
    <3>. QED  BY <3>2, <3>3, KindsApart
  <2>. QED  BY <1>2, <2>1, <2>2
<1>4. ASSUME NEW s \in Threads, NEW i \in 0..Len(c2), NEW j \in 0..Len(c2), NEW m \in Nat, NEW n \in Nat,
             Shows(c2, d, i, s, m), Shows(c2, d, j, s, n), i <= j, m # n
      PROVE  ResetBefore(c2, i, j, s)
  <2>1. ResetBefore(c, i, j, s)
    BY <1>3, <1>4 DEF StreamInv
  <2>. QED  BY <1>2, <2>1 DEF ResetBefore
<1>. QED  BY <1>4 DEF StreamInv

\* The display after an update.
AfterRead(d, u) ==
  CASE u.type = "view" -> [d EXCEPT !.of = u.of, !.working = u.working,
                             !.stream = IF d.of = u.of THEN @ ELSE {}]
    [] u.type = "delta" /\ u.of = d.of -> [d EXCEPT !.stream = @ \cup {u.n}]
    [] u.type = "clear" /\ u.of = d.of -> [d EXCEPT !.stream = {}]
    [] u.type = "stopped" -> Closed
    [] OTHER -> d

ReadCase(d, u, e) ==
  \/ /\ u.type = "view" /\ e.of = u.of /\ e.working = u.working /\ e.open = d.open
     /\ e.stream = IF d.of = u.of THEN d.stream ELSE {}
  \/ /\ u.type = "delta" /\ u.of = d.of /\ u = Text(u.of, u.n)
     /\ e.of = d.of /\ e.working = d.working /\ e.open = d.open /\ e.stream = d.stream \cup {u.n}
  \/ /\ u.type = "clear" /\ u.of = d.of /\ e.of = d.of /\ e.working = d.working /\ e.open = d.open /\ e.stream = {}
  \/ u.type = "stopped" /\ e = Closed
  \/ e = d /\ u.type # "view" /\ u # ClearStream(d.of)

LEMMA AfterReadCases ==
  ASSUME NEW d \in DisplayState, NEW u \in OnTheWay
  PROVE  ReadCase(d, u, AfterRead(d, u))
<1>. SUFFICES ASSUME NEW e, e = AfterRead(d, u) PROVE ReadCase(d, u, e)
  OBVIOUS
<1>1. u.type = "delta" => u \in Texts
  BY DEF OnTheWay, Updates, Notice
<1>2. u.type = "delta" => u = Text(u.of, u.n)
  BY <1>1 DEF Texts, Text
<1>3. CASE u.type = "view"
  <2>1. e = [d EXCEPT !.of = u.of, !.working = u.working, !.stream = IF d.of = u.of THEN d.stream ELSE {}]
    BY <1>3 DEF AfterRead
  <2>. QED  BY <1>3, <2>1 DEF DisplayState, ReadCase
<1>4. CASE u.type = "delta" /\ u.of = d.of
  <2>1. e = [d EXCEPT !.stream = d.stream \cup {u.n}]
    BY <1>4 DEF AfterRead
  <2>. QED  BY <1>2, <1>4, <2>1 DEF DisplayState, ReadCase
<1>5. CASE u.type = "clear" /\ u.of = d.of
  <2>1. e = [d EXCEPT !.stream = {}]
    BY <1>5 DEF AfterRead
  <2>. QED  BY <1>5, <2>1 DEF DisplayState, ReadCase
<1>6. CASE u.type = "stopped"
  BY <1>6 DEF AfterRead, ReadCase
<1>7. CASE /\ u.type # "view" /\ ~(u.type = "delta" /\ u.of = d.of) /\ ~(u.type = "clear" /\ u.of = d.of)
           /\ u.type # "stopped"
  <2>1. e = d
    BY <1>7 DEF AfterRead
  <2>. QED  BY <1>7, <2>1 DEF ClearStream, ReadCase
<1>. QED  BY <1>3, <1>4, <1>5, <1>6, <1>7

\* A place of the channel after a reading, and where it was.
WasAt(c, d, i, j, s, n) ==
  /\ j \in 0..Len(c) /\ Shows(c, d, j, s, n)
  /\ i > 0 => j = i + 1
  /\ i = 0 => j \in {0, 1}
  /\ j = 0 => c[1] # ClearStream(s)

LEMMA ReadShows ==
  ASSUME NEW c \in Seq(OnTheWay), Len(c) > 0, NEW c2, c2 = Tail(c), NEW d \in DisplayState,
         NEW d2, d2 = AfterRead(d, c[1]), d2.open,
         NEW i \in 0..Len(c2), NEW s \in Threads, NEW n \in Nat, Shows(c2, d2, i, s, n)
  PROVE  \E j \in 0..Len(c) : WasAt(c, d, i, j, s, n)
<1>1. /\ Len(c) \in Nat /\ Len(c2) = Len(c) - 1 /\ c[1] \in OnTheWay
      /\ \A k \in 1..Len(c2) : c2[k] = c[k + 1]
  OBVIOUS
<1>2. CASE i > 0
  <2>1. c2[i] = Text(s, n) /\ i \in 1..Len(c2)
    BY <1>1, <1>2 DEF Shows
  <2>2. c[i + 1] = Text(s, n) /\ i + 1 \in 1..Len(c) /\ i + 1 # 0
    BY <1>1, <2>1
  <2>3. WasAt(c, d, i, i + 1, s, n)
    BY <1>1, <1>2, <2>2 DEF WasAt, Shows
  <2>. QED  BY <1>1, <2>2, <2>3
<1>3. CASE i = 0
  <2>1. d2.of = s /\ n \in d2.stream
    BY <1>3 DEF Shows
  <2>2. d2 # Closed
    BY DEF Closed
  <2>3. PICK u : u = c[1] /\ u \in OnTheWay
    BY <1>1
  <2>4. CASE /\ u.type = "view" /\ d2.of = u.of
             /\ d2.stream = IF d.of = u.of THEN d.stream ELSE {}
    <3>1. d.of = s /\ n \in d.stream
      BY <2>1, <2>4
    <3>2. u # ClearStream(s)
      BY <2>4 DEF ClearStream
    <3>. QED  BY <1>1, <1>3, <2>3, <3>1, <3>2 DEF WasAt, Shows
  <2>5. CASE u.type = "delta" /\ u.of = d.of /\ u = Text(u.of, u.n) /\ d2.of = d.of /\ d2.stream = d.stream \cup {u.n}
    <3>1. u # ClearStream(s)
      BY <2>5 DEF ClearStream
    <3>2. CASE n \in d.stream
      BY <1>1, <1>3, <2>1, <2>3, <2>5, <3>1, <3>2 DEF WasAt, Shows
    <3>3. CASE n = u.n
      <4>1. c[1] = Text(s, n) /\ 1 \in 1..Len(c)
        BY <1>1, <2>1, <2>3, <2>5, <3>3
      <4>2. WasAt(c, d, i, 1, s, n)
        BY <1>1, <1>3, <4>1 DEF WasAt, Shows
      <4>. QED  BY <1>1, <4>2
    <3>. QED  BY <2>1, <2>5, <3>2, <3>3
  <2>6. CASE u.type = "clear" /\ d2.stream = {}
    BY <2>1, <2>6
  <2>7. CASE d2 = d /\ u # ClearStream(d.of)
    <3>1. d.of = s /\ n \in d.stream /\ u # ClearStream(s)
      BY <2>1, <2>7
    <3>. QED  BY <1>1, <1>3, <2>3, <3>1 DEF WasAt, Shows
  <2>8. ReadCase(d, u, d2)
    BY <2>3, AfterReadCases
  <2>. QED  BY <2>2, <2>4, <2>5, <2>6, <2>7, <2>8 DEF ReadCase
<1>. QED  BY <1>2, <1>3

LEMMA ReadResets ==
  ASSUME NEW c \in Seq(OnTheWay), Len(c) > 0, NEW c2, c2 = Tail(c), NEW d,
         NEW i \in 0..Len(c2), NEW j, NEW s, NEW n, WasAt(c, d, i, j, s, n), NEW k \in Nat, ResetBefore(c, j, k + 1, s)
  PROVE  ResetBefore(c2, i, k, s)
<1>1. /\ Len(c) \in Nat /\ Len(c2) = Len(c) - 1
      /\ \A h \in 1..Len(c2) : c2[h] = c[h + 1]
  OBVIOUS
<1>2. PICK h \in 1..Len(c) : j < h /\ h < k + 1 /\ c[h] = ClearStream(s)
  BY DEF ResetBefore
<1>3. j \in 0..Len(c) /\ (i > 0 => j = i + 1) /\ (i = 0 => j \in {0, 1}) /\ (j = 0 => c[1] # ClearStream(s))
  BY DEF WasAt
<1>4. h # 1 /\ h > 1
  BY <1>1, <1>2, <1>3
<1>5. h - 1 \in 1..Len(c2) /\ (h - 1) + 1 = h
  BY <1>1, <1>4
<1>6. c2[h - 1] = ClearStream(s) /\ i < h - 1 /\ h - 1 < k
  BY <1>1, <1>2, <1>3, <1>4, <1>5
<1>. QED  BY <1>5, <1>6 DEF ResetBefore

ReadOn(c, d, c2, d2) ==
  /\ StreamInv(c, d) => StreamInv(c2, d2)
  /\ \A l, box : TextInv(l, box, c, d) => TextInv(l, box, c2, d2)

LEMMA ReadKeepsText ==
  ASSUME NEW c \in Seq(OnTheWay), Len(c) > 0, NEW d \in DisplayState, AfterRead(d, c[1]).open
  PROVE  ReadOn(c, d, Tail(c), AfterRead(d, c[1]))
<1>. SUFFICES ASSUME NEW c2, c2 = Tail(c), NEW d2, d2 = AfterRead(d, c[1]), d2.open PROVE ReadOn(c, d, c2, d2)
  OBVIOUS
<1>. SUFFICES ASSUME NEW l, NEW box
              PROVE  /\ StreamInv(c, d) => StreamInv(c2, d2)
                     /\ TextInv(l, box, c, d) => TextInv(l, box, c2, d2)
  BY DEF ReadOn
<1>1. Len(c) \in Nat /\ Len(c2) = Len(c) - 1 /\ Len(c2) \in Nat
  OBVIOUS
<1>2. \A i \in 0..Len(c2), s \in Threads, n \in Nat : Shows(c2, d2, i, s, n) => \E j \in 0..Len(c) : WasAt(c, d, i, j, s, n)
  BY ReadShows
<1>3. \A i \in 0..Len(c2) : \A j, s, n, k : k \in Nat /\ WasAt(c, d, i, j, s, n) /\ ResetBefore(c, j, k + 1, s) => ResetBefore(c2, i, k, s)
  BY ReadResets
<1>4. ASSUME StreamInv(c, d), NEW s \in Threads, NEW i \in 0..Len(c2), NEW j \in 0..Len(c2), NEW m \in Nat, NEW n \in Nat,
             Shows(c2, d2, i, s, m), Shows(c2, d2, j, s, n), i <= j, m # n
      PROVE  ResetBefore(c2, i, j, s)
  <2>1. PICK i0 \in 0..Len(c) : WasAt(c, d, i, i0, s, m)
    BY <1>2, <1>4
  <2>2. PICK j0 \in 0..Len(c) : WasAt(c, d, j, j0, s, n)
    BY <1>2, <1>4
  <2>3. Shows(c, d, i0, s, m) /\ Shows(c, d, j0, s, n)
    BY <2>1, <2>2 DEF WasAt
  <2>4. \A k : ~ResetBefore(c, k, 0, s) /\ ~ResetBefore(c, k, 1, s)
    BY DEF ResetBefore
  <2>5. /\ (i > 0 => i0 = i + 1) /\ (i = 0 => i0 \in {0, 1})
        /\ (j > 0 => j0 = j + 1) /\ (j = 0 => j0 \in {0, 1})
    BY <2>1, <2>2 DEF WasAt
  <2>6. CASE i0 <= j0
    <3>1. ResetBefore(c, i0, j0, s)
      BY <1>4, <2>3, <2>6 DEF StreamInv
    <3>2. j > 0 /\ j0 = j + 1
      <4>1. CASE j = 0
        <5>1. j0 = 0 \/ j0 = 1
          BY <2>5, <4>1
        <5>. QED  BY <2>4, <3>1, <5>1
      <4>2. CASE j # 0
        BY <2>5, <4>2
      <4>. QED  BY <4>1, <4>2
    <3>3. ResetBefore(c, i0, j + 1, s) /\ j \in Nat
      BY <1>1, <3>1, <3>2
    <3>. QED  BY <1>3, <2>1, <3>3
  <2>7. CASE j0 < i0
    <3>1. ResetBefore(c, j0, i0, s)
      BY <1>4, <2>3, <2>7 DEF StreamInv
    <3>2. i0 \in {0, 1}
      BY <1>4, <2>5, <2>7
    <3>. QED  BY <2>4, <3>1, <3>2
  <2>. QED  BY <2>6, <2>7
<1>5. ASSUME TextInv(l, box, c, d), NEW s \in Threads, NEW i \in 0..Len(c2), NEW n \in Nat,
             Shows(c2, d2, i, s, n), ~Reset(c2, box.updates, i, s)
      PROVE  OfTask(l[s], n) /\ \A t \in box.deltas : t.of = s => t.n = n
  <2>1. PICK j \in 0..Len(c) : WasAt(c, d, i, j, s, n)
    BY <1>2, <1>5
  <2>2. ~ResetBefore(c, j, Len(c) + 1, s)
    <3>1. Len(c) = Len(c2) + 1 /\ Len(c) \in Nat
      BY <1>1
    <3>2. ~ResetBefore(c2, i, Len(c), s)
      BY <1>5, <3>1 DEF Reset
    <3>. QED  BY <1>3, <2>1, <3>1, <3>2
  <2>3. ~Reset(c, box.updates, j, s) /\ Shows(c, d, j, s, n)
    BY <1>5, <2>1, <2>2 DEF Reset, WasAt
  <2>. QED  BY <1>5, <2>3 DEF TextInv
<1>6. StreamInv(c, d) => StreamInv(c2, d2)
  BY <1>4 DEF StreamInv
<1>7. TextInv(l, box, c, d) => TextInv(l, box, c2, d2)
  <2>1. SUFFICES ASSUME TextInv(l, box, c, d) PROVE TextInv(l, box, c2, d2)
    OBVIOUS
  <2>2. (\A t \in box.deltas : OfTask(l[t.of], t.n)) /\ (\A t, u \in box.deltas : t.of = u.of => t.n = u.n)
    BY <2>1 DEF TextInv
  <2>. QED  BY <1>5, <2>1, <2>2 DEF TextInv
<1>. QED  BY <1>6, <1>7
-----------------------------------------------------------------------------
(* The last view on its way.                                               *)

LEMMA QueuedView ==
  ASSUME NEW c \in Seq(OnTheWay), NEW u \in Seq(Updates), Len(u) > 0, NEW d, NEW v, v.type = "view", u[Len(u)] = v
  PROVE  LastView(c \o u, d, v)
<1>. SUFFICES ASSUME NEW q, q = c \o u PROVE LastView(q, d, v)
  OBVIOUS
<1>1. JoinOf(OnTheWay, c, u, q)
  <2>1. u \in Seq(OnTheWay)
    BY DEF OnTheWay
  <2>. QED  BY <2>1, Joined
<1>2. /\ Len(q) = Len(c) + Len(u) /\ Len(c) \in Nat /\ Len(u) \in Nat
      /\ \A k \in 1..Len(u) : q[Len(c) + k] = u[k]
  BY <1>1 DEF JoinOf
<1>3. Len(q) \in 1..Len(q) /\ q[Len(q)] = v
  BY <1>2
<1>4. ASSUME NEW j \in 1..Len(q), Len(q) < j PROVE FALSE
  BY <1>2, <1>4
<1>5. \A j \in 1..Len(q) : Len(q) < j => q[j].type # "view"
  BY <1>4
<1>. QED  BY <1>3, <1>5 DEF LastView

\* Text behind the views changes nothing.
LEMMA ViewThenText ==
  ASSUME NEW f \in Seq(OnTheWay), NEW q \in Seq(Texts), NEW d, NEW v, LastView(f, d, v)
  PROVE  LastView(f \o q, d, v)
<1>. SUFFICES ASSUME NEW g, g = f \o q PROVE LastView(g, d, v)
  OBVIOUS
<1>1. JoinOf(OnTheWay, f, q, g)
  <2>1. q \in Seq(OnTheWay)
    BY DEF OnTheWay
  <2>. QED  BY <2>1, Joined
<1>2. /\ Len(g) = Len(f) + Len(q) /\ Len(f) \in Nat /\ Len(q) \in Nat
      /\ (\A k \in 1..Len(f) : g[k] = f[k]) /\ (\A k \in 1..Len(q) : g[Len(f) + k] = q[k])
  BY <1>1 DEF JoinOf
<1>3. ASSUME NEW k \in 1..Len(g), k > Len(f) PROVE g[k].type # "view"
  <2>1. k - Len(f) \in 1..Len(q) /\ Len(f) + (k - Len(f)) = k
    BY <1>2, <1>3
  <2>2. g[k] = q[k - Len(f)] /\ q[k - Len(f)] \in Texts
    BY <1>2, <2>1
  <2>. QED  BY <2>2 DEF Texts
<1>4. ASSUME NEW k \in 1..Len(f), f[k] = v, \A j \in 1..Len(f) : k < j => f[j].type # "view"
      PROVE  LastView(g, d, v)
  <2>1. k \in 1..Len(g) /\ g[k] = v
    BY <1>2, <1>4
  <2>2. ASSUME NEW j \in 1..Len(g), k < j PROVE g[j].type # "view"
    <3>1. CASE j \in 1..Len(f)
      BY <1>2, <1>4, <2>2, <3>1
    <3>2. CASE j > Len(f)
      BY <1>3, <2>2, <3>2
    <3>. QED  BY <1>2, <3>1, <3>2
  <2>. QED  BY <2>1, <2>2 DEF LastView
<1>5. ASSUME \A k \in 1..Len(f) : f[k].type # "view", d.of = v.of, d.working = v.working PROVE LastView(g, d, v)
  <2>1. ASSUME NEW j \in 1..Len(g) PROVE g[j].type # "view"
    <3>1. CASE j \in 1..Len(f)
      BY <1>2, <1>5, <3>1
    <3>2. CASE j > Len(f)
      BY <1>3, <3>2
    <3>. QED  BY <1>2, <3>1, <3>2
  <2>. QED  BY <1>5, <2>1 DEF LastView
<1>. QED  BY <1>4, <1>5 DEF LastView

\* A flush moves the updates on and adds text behind them.
LEMMA FlushKeepsView ==
  ASSUME NEW c \in Seq(OnTheWay), NEW box \in BoxState, NEW n, NEW q, NEW c2, NEW b2,
         FlushedTo(c, box, n, q, c2, b2), NEW d, NEW v, LastView(c \o box.updates, d, v)
  PROVE  LastView(c2 \o b2.updates, d, v)
<1>1. PlacesOf(c, box, n, q, c2, b2) /\ n \in 0..Len(box.updates) /\ q \in Seq(box.deltas)
  BY FlushedPlaces DEF FlushedTo
<1>2. box.updates \in Seq(Updates) /\ box.updates \in Seq(OnTheWay) /\ Len(box.updates) \in Nat /\ q \in Seq(Texts) /\ Len(c) \in Nat
  BY <1>1 DEF BoxState, OnTheWay
<1>3. PICK f : f = c \o box.updates
  OBVIOUS
<1>4. JoinOf(OnTheWay, c, box.updates, f)
  BY <1>2, <1>3, Joined
<1>5. PICK g : g = f \o q
  OBVIOUS
<1>6. LastView(f, d, v) /\ f \in Seq(OnTheWay)
  BY <1>3, <1>4 DEF JoinOf
<1>7. LastView(g, d, v)
  BY <1>2, <1>5, <1>6, ViewThenText
<1>8. PICK h : h = c2 \o b2.updates
  OBVIOUS
<1>9. b2.updates \in Seq(OnTheWay) /\ c2 \in Seq(OnTheWay)
  <2>1. b2 \in BoxState /\ c2 \in Seq(OnTheWay)
    BY <1>1 DEF PlacesOf
  <2>. QED  BY <2>1 DEF BoxState, OnTheWay
<1>10. JoinOf(OnTheWay, c2, b2.updates, h)
  BY <1>8, <1>9, Joined
<1>11. JoinOf(OnTheWay, f, q, g)
  <2>1. q \in Seq(OnTheWay)
    BY <1>2 DEF OnTheWay
  <2>. QED  BY <1>5, <1>6, <2>1, Joined
<1>12. h = g
  <2>. DEFINE A == Len(c)
              B == Len(box.updates)
              Q == Len(q)
  <2>1. A \in Nat /\ B \in Nat /\ n \in Nat /\ n <= B
    BY <1>1, <1>2
  <2>2. f \in Seq(OnTheWay) /\ Len(f) = A + B /\ (\A k \in 1..A : f[k] = c[k]) /\ \A k \in 1..B : f[A + k] = box.updates[k]
    BY <1>4 DEF JoinOf
  <2>3. /\ g \in Seq(OnTheWay) /\ Len(g) = Len(f) + Q /\ (\A k \in 1..Len(f) : g[k] = f[k])
        /\ \A k \in 1..Q : g[Len(f) + k] = q[k]
    BY <1>11 DEF JoinOf
  <2>4. /\ h \in Seq(OnTheWay) /\ Len(h) = Len(c2) + Len(b2.updates)
        /\ (\A k \in 1..Len(c2) : h[k] = c2[k])
        /\ \A k \in 1..Len(b2.updates) : h[Len(c2) + k] = b2.updates[k]
    BY <1>10 DEF JoinOf
  <2>5. Q \in Nat /\ Len(c2) = A + n + Q /\ Len(b2.updates) = B - n
    BY <1>1 DEF PlacesOf
  <2>6. /\ \A k \in 1..A : c2[k] = c[k]
        /\ \A k \in 1..n : c2[A + k] = box.updates[k]
        /\ \A k \in 1..Q : c2[A + n + k] = q[k]
        /\ \A k \in 1..(B - n) : b2.updates[k] = box.updates[n + k]
    BY <1>1 DEF PlacesOf
  <2>7. Q > 0 => n = B
    BY DEF FlushedTo
  <2>. HIDE DEF A, B, Q
  <2>8. Len(h) = (A + n + Q) + (B - n) /\ Len(g) = (A + B) + Q
    BY <2>2, <2>3, <2>4, <2>5
  <2>9. Len(h) = Len(g) /\ Len(g) \in Nat
    BY <2>1, <2>5, <2>8
  <2>10. ASSUME NEW k \in 1..Len(g) PROVE h[k] = g[k]
    <3>1. CASE k <= A
      <4>1. k \in 1..A /\ k \in 1..Len(c2) /\ k \in 1..Len(f)
        BY <2>1, <2>2, <2>5, <3>1
      <4>. QED  BY <2>2, <2>3, <2>4, <2>6, <4>1
    <3>2. CASE k > A /\ k <= A + n
      <4>1. PICK m : m = k - A
        OBVIOUS
      <4>2. m \in 1..n /\ m \in 1..B /\ k = A + m
        BY <2>1, <2>9, <3>2, <4>1
      <4>3. k \in 1..Len(c2) /\ k \in 1..Len(f)
        BY <2>1, <2>2, <2>5, <2>9, <3>2
      <4>4. h[k] = c2[k] /\ g[k] = f[k]
        BY <2>3, <2>4, <4>3
      <4>5. c2[k] = box.updates[m] /\ f[k] = box.updates[m]
        BY <2>2, <2>6, <4>2
      <4>. QED  BY <4>4, <4>5
    <3>3. CASE k > A + n /\ Q = 0
      <4>1. PICK m : m = k - (A + n)
        OBVIOUS
      <4>2. m \in 1..(B - n) /\ n + m \in 1..B /\ k = (A + n) + m /\ k = A + (n + m)
        BY <2>1, <2>8, <2>9, <3>3, <4>1
      <4>3. Len(c2) = A + n /\ m \in 1..Len(b2.updates)
        BY <2>1, <2>5, <3>3, <4>2
      <4>4. k \in 1..Len(f)
        BY <2>1, <2>2, <4>2
      <4>5. h[k] = b2.updates[m]
        BY <2>4, <4>2, <4>3
      <4>6. b2.updates[m] = box.updates[n + m]
        BY <2>6, <4>2
      <4>7. g[k] = f[k] /\ f[k] = box.updates[n + m]
        BY <2>2, <2>3, <4>2, <4>4
      <4>. QED  BY <4>5, <4>6, <4>7
    <3>4. CASE k > A + n /\ Q > 0
      <4>1. PICK m : m = k - (A + n)
        OBVIOUS
      <4>2. n = B
        BY <2>7, <3>4
      <4>3. m \in 1..Q /\ k = A + n + m /\ k = (A + B) + m
        BY <2>1, <2>5, <2>8, <2>9, <3>4, <4>1, <4>2
      <4>4. k \in 1..Len(c2)
        BY <2>1, <2>5, <4>3
      <4>5. h[k] = c2[k] /\ c2[k] = q[m]
        BY <2>4, <2>6, <4>3, <4>4
      <4>6. g[k] = q[m]
        BY <2>2, <2>3, <4>3
      <4>. QED  BY <4>5, <4>6
    <3>. QED  BY <2>1, <2>5, <2>9, <3>1, <3>2, <3>3, <3>4
  <2>. QED  BY <2>3, <2>4, <2>9, <2>10
<1>. QED  BY <1>7, <1>8, <1>12

\* The display reads: a view that it read is the one it shows.
LEMMA ReadKeepsView ==
  ASSUME NEW c \in Seq(OnTheWay), Len(c) > 0, NEW d \in DisplayState, AfterRead(d, c[1]).open,
         NEW u \in Seq(OnTheWay), NEW v, v.type = "view", LastView(c \o u, d, v)
  PROVE  LastView(Tail(c) \o u, AfterRead(d, c[1]), v)
<1>. SUFFICES ASSUME NEW c2, c2 = Tail(c), NEW d2, d2 = AfterRead(d, c[1]), d2.open PROVE LastView(c2 \o u, d2, v)
  OBVIOUS
<1>1. /\ Len(c) \in Nat /\ Len(c2) = Len(c) - 1 /\ c[1] \in OnTheWay /\ c2 \in Seq(OnTheWay)
      /\ \A k \in 1..Len(c2) : c2[k] = c[k + 1]
  OBVIOUS
<1>2. PICK f : f = c \o u
  OBVIOUS
<1>3. PICK g : g = c2 \o u
  OBVIOUS
<1>4. JoinOf(OnTheWay, c, u, f) /\ JoinOf(OnTheWay, c2, u, g)
  BY <1>1, <1>2, <1>3, Joined
<1>5. Len(u) \in Nat /\ Len(g) = Len(f) - 1 /\ Len(f) \in Nat /\ Len(f) > 0
  <2>1. Len(f) = Len(c) + Len(u) /\ Len(g) = Len(c2) + Len(u)
    BY <1>4 DEF JoinOf
  <2>. QED  BY <1>1, <2>1
<1>6. f[1] = c[1]
  BY <1>1, <1>4 DEF JoinOf
<1>7. ASSUME NEW k \in 1..Len(g) PROVE g[k] = f[k + 1]
  <2>1. /\ Len(g) = Len(c2) + Len(u)
        /\ (\A j \in 1..Len(c2) : g[j] = c2[j]) /\ (\A j \in 1..Len(u) : g[Len(c2) + j] = u[j])
        /\ (\A j \in 1..Len(c) : f[j] = c[j]) /\ (\A j \in 1..Len(u) : f[Len(c) + j] = u[j])
    BY <1>4 DEF JoinOf
  <2>2. CASE k <= Len(c2)
    <3>1. k \in 1..Len(c2) /\ k + 1 \in 1..Len(c)
      BY <1>1, <2>2
    <3>. QED  BY <1>1, <2>1, <3>1
  <2>3. CASE k > Len(c2)
    <3>1. PICK j : j = k - Len(c2)
      OBVIOUS
    <3>2. j \in 1..Len(u) /\ k = Len(c2) + j /\ k + 1 = Len(c) + j
      BY <1>1, <1>5, <2>1, <2>3, <3>1
    <3>. QED  BY <2>1, <3>2
  <2>. QED  BY <1>1, <2>2, <2>3
<1>0. ReadCase(d, c[1], d2)
  BY <1>1, AfterReadCases
<1>8. c[1].type = "view" => d2.of = c[1].of /\ d2.working = c[1].working
  BY <1>0 DEF Closed, ReadCase
<1>9. c[1].type # "view" => d2.of = d.of /\ d2.working = d.working
  BY <1>0 DEF Closed, ReadCase
<1>10. LastView(f, d, v)
  BY <1>2
<1>11. ASSUME NEW k \in 1..Len(f), f[k] = v, \A j \in 1..Len(f) : k < j => f[j].type # "view"
       PROVE  LastView(g, d2, v)
  <2>1. CASE k = 1
    <3>1. d2.of = v.of /\ d2.working = v.working
      BY <1>6, <1>8, <1>11, <2>1
    <3>2. ASSUME NEW j \in 1..Len(g) PROVE g[j].type # "view"
      <4>1. j + 1 \in 1..Len(f) /\ k < j + 1
        BY <1>5, <2>1
      <4>. QED  BY <1>7, <1>11, <4>1
    <3>. QED  BY <3>1, <3>2 DEF LastView
  <2>2. CASE k > 1
    <3>1. PICK h : h = k - 1
      OBVIOUS
    <3>2. h \in 1..Len(g) /\ h + 1 = k
      BY <1>5, <2>2, <3>1
    <3>3. g[h] = v
      BY <1>7, <1>11, <3>2
    <3>4. ASSUME NEW j \in 1..Len(g), h < j PROVE g[j].type # "view"
      <4>1. j + 1 \in 1..Len(f) /\ k < j + 1
        BY <1>5, <3>2, <3>4
      <4>. QED  BY <1>7, <1>11, <4>1
    <3>. QED  BY <3>2, <3>3, <3>4 DEF LastView
  <2>. QED  BY <1>5, <2>1, <2>2
<1>12. ASSUME \A k \in 1..Len(f) : f[k].type # "view", d.of = v.of, d.working = v.working
       PROVE  LastView(g, d2, v)
  <2>1. c[1].type # "view"
    BY <1>5, <1>6, <1>12
  <2>2. ASSUME NEW j \in 1..Len(g) PROVE g[j].type # "view"
    <3>1. j + 1 \in 1..Len(f)
      BY <1>5
    <3>. QED  BY <1>7, <1>12, <3>1
  <2>. QED  BY <1>9, <1>12, <2>1, <2>2 DEF LastView
<1>. QED  BY <1>3, <1>10, <1>11, <1>12 DEF LastView
-----------------------------------------------------------------------------
(* The steps of the service.                                               *)

LEMMA GoesOnBy ==
  ASSUME NEW e, NEW f,
         e.at = "none" \/ f.at = "finished" \/ (e.at # "finished" /\ f.at # "none" /\ f.n = e.n)
  PROVE  GoesOn(e, f)
BY DEF GoesOn, OfTask

\* What the updates of a step say once nothing runs: a view of the selection at
\* rest comes last, or there is nothing new to say.
SaysRest(s, updates) ==
  \/ Len(updates) > 0 /\ updates[Len(updates)] = View(s, FALSE)
  \/ Len(updates) = 0 /\ Running = {} /\ service.current = s

Served(sv) ==
  /\ service' \in ServiceState /\ service'.current = sv.current
  /\ outbox' \in BoxState /\ IsFiniteSet(outbox'.deltas)
  /\ channel' \in Seq(Updates \cup Texts) /\ Len(channel') <= ChannelLimit
  /\ ScreenInv'

LEMMA ServeKeeps ==
  ASSUME KernelTypeOK, ScreenInv, service.at = "select",
         NEW sv \in ServiceState, sv.at = "select", NEW active,
         NEW updates \in Seq(Updates), NEW deltas \in SUBSET outbox.deltas,
         \A s \in Threads : \/ GoesOn(loop[s], loop'[s])
                            \/ ResetQueued(updates, s) /\ \A t \in deltas : t.of # s,
         Running' = {} => SaysRest(sv.current, updates),
         Serves(sv, active, updates, deltas), display' = display
  PROVE  Served(sv)
<1>1. PICK box : box = Queued(updates, deltas)
  OBVIOUS
<1>2. IF sv.quit /\ active = {}
      THEN /\ service' = [sv EXCEPT !.at = "stopped"]
           /\ outbox' = [box EXCEPT !.updates = <<>>, !.deltas = {}]
           /\ channel' = LET out == Enqueued(box, [type |-> "stopped"]).updates
                         IN IF display.open THEN channel \o SubSeq(out, 1, Fitting(out)) ELSE channel
      ELSE service' = sv /\ Flush(box)
  BY <1>1 DEF Serves
<1>3. /\ outbox \in BoxState /\ IsFiniteSet(outbox.deltas) /\ channel \in Seq(OnTheWay) /\ Len(channel) <= ChannelLimit
      /\ outbox.deltas \in SUBSET Texts /\ outbox.updates \in Seq(Updates)
  BY DEF KernelTypeOK, BoxState, OnTheWay
<1>4. /\ box \in BoxState /\ box.deltas = deltas /\ (outbox.lost => box.lost)
      /\ Len(updates) = 0 => box.updates = outbox.updates
      /\ Len(updates) > 0 => Len(box.updates) > 0 /\ box.updates[Len(box.updates)] = updates[Len(updates)]
      /\ \A s \in Threads : ~box.lost /\ (ResetQueued(outbox.updates, s) \/ ResetQueued(updates, s)) =>
           ResetQueued(box.updates, s)
  <2>1. deltas \in SUBSET Texts
    BY <1>3
  <2>. QED  BY <1>1, <1>3, <2>1, QueuedKeeps
<1>5. IsFiniteSet(box.deltas) /\ box.updates \in Seq(Updates) /\ Len(updates) \in Nat
  <2>1. IsFiniteSet(deltas)
    BY <1>3, FS_Subset
  <2>. QED  BY <1>4, <2>1 DEF BoxState
<1>6. ASSUME display.open, ~box.lost PROVE StreamInv(channel, display) /\ TextInv(loop', box, channel, display)
  <2>1. StreamInv(channel, display) /\ TextInv(loop, outbox, channel, display)
    BY <1>4, <1>6 DEF ScreenInv
  <2>2. \A s \in Threads : ResetQueued(outbox.updates, s) => ResetQueued(box.updates, s)
    BY <1>4, <1>6
  <2>3. \A s \in Threads : \/ GoesOn(loop[s], loop'[s])
                           \/ ResetQueued(box.updates, s) /\ \A t \in box.deltas : t.of # s
    BY <1>4, <1>6
  <2>4. box.deltas \subseteq outbox.deltas /\ outbox.deltas \subseteq Texts
    BY <1>3, <1>4
  <2>5. TextInv(loop', box, channel, display)
    BY <2>1, <2>2, <2>3, <2>4, QueueKeepsText
  <2>. QED  BY <2>1, <2>5
<1>7. ASSUME display.open, Running' = {} PROVE LastView(channel \o box.updates, display, View(sv.current, FALSE))
  <2>1. CASE Len(updates) > 0 /\ updates[Len(updates)] = View(sv.current, FALSE)
    <3>1. View(sv.current, FALSE).type = "view"
      BY DEF View
    <3>2. Len(box.updates) > 0 /\ box.updates[Len(box.updates)] = View(sv.current, FALSE)
      BY <1>4, <2>1
    <3>. QED  BY <1>3, <1>5, <3>1, <3>2, QueuedView
  <2>2. CASE Len(updates) = 0 /\ Running = {} /\ service.current = sv.current
    <3>1. LastView(channel \o outbox.updates, display, View(sv.current, FALSE))
      BY <1>7, <2>2 DEF ScreenInv
    <3>. QED  BY <1>4, <2>2, <3>1
  <2>. QED  BY <1>7, <2>1, <2>2 DEF SaysRest
<1>8. display.stream # {} => display.of \in Threads
  BY DEF ScreenInv
<1>9. ~display.open => display.stream = {}
  BY DEF ScreenInv
<1>10. CASE sv.quit /\ active = {}
  <2>1. service' = [sv EXCEPT !.at = "stopped"] /\ outbox' = [box EXCEPT !.updates = <<>>, !.deltas = {}]
    BY <1>2, <1>10
  <2>2. service' \in ServiceState /\ service'.current = sv.current /\ service'.at = "stopped"
    BY <2>1 DEF ServiceState
  <2>3. outbox' \in BoxState /\ IsFiniteSet(outbox'.deltas) /\ outbox'.lost = box.lost
    <3>1. outbox' = [updates |-> <<>>, deltas |-> {}, lost |-> box.lost] /\ box.lost \in BOOLEAN
      BY <1>4, <2>1 DEF BoxState
    <3>2. <<>> \in Seq(Updates)
      OBVIOUS
    <3>3. outbox'.deltas = {} /\ outbox'.lost = box.lost
      BY <3>1
    <3>4. IsFiniteSet(outbox'.deltas)
      BY <3>3, FS_EmptySet
    <3>. QED  BY <3>1, <3>2, <3>3, <3>4 DEF BoxState
  <2>4. CASE display.open
    <3>1. PICK out : out = Enqueued(box, [type |-> "stopped"]).updates
      OBVIOUS
    <3>2. out \in Seq(Updates)
      <4>1. [type |-> "stopped"] \in Updates
        BY DEF Updates
      <4>2. OneMore(box, [type |-> "stopped"], Enqueued(box, [type |-> "stopped"]))
        BY <1>4, <4>1, EnqueuedKeeps
      <4>3. Enqueued(box, [type |-> "stopped"]) \in BoxState
        BY <4>2 DEF OneMore
      <4>. QED  BY <3>1, <4>3 DEF BoxState
    <3>3. PICK p : p = SubSeq(out, 1, Fitting(out))
      OBVIOUS
    <3>4. Room \in Nat /\ Len(out) \in Nat /\ Len(channel) \in Nat /\ ChannelLimit \in Nat
      BY <1>3, <3>2, KernelAssumption DEF Room
    <3>5. Fitting(out) \in 0..Len(out) /\ Fitting(out) <= Room
      BY <3>4 DEF Fitting
    <3>6. p \in Seq(Updates) /\ Len(p) = Fitting(out)
      BY <3>2, <3>3, <3>4, <3>5
    <3>7. channel' = channel \o p
      BY <1>2, <1>10, <2>4, <3>1, <3>3
    <3>8. channel' \in Seq(OnTheWay) /\ Len(channel') = Len(channel) + Len(p)
      <4>1. p \in Seq(OnTheWay)
        BY <3>6 DEF OnTheWay
      <4>2. JoinOf(OnTheWay, channel, p, channel')
        BY <1>3, <3>7, <4>1, Joined
      <4>. QED  BY <4>2 DEF JoinOf
    <3>9. Len(channel') <= ChannelLimit
      BY <3>4, <3>5, <3>6, <3>8 DEF Room
    <3>10. ~outbox'.lost => StreamInv(channel', display)
      <4>1. ~outbox'.lost => StreamInv(channel, display)
        BY <1>6, <2>3, <2>4
      <4>. QED  BY <1>3, <3>6, <3>7, <4>1, UpdatesKeepStream
    <3>11. ScreenInv'
      BY <1>8, <1>9, <2>2, <3>10 DEF ScreenInv
    <3>. QED  BY <2>2, <2>3, <3>8, <3>9, <3>11 DEF Served, OnTheWay
  <2>5. CASE ~display.open
    <3>1. channel' = channel
      BY <1>2, <1>10, <2>5
    <3>2. ScreenInv'
      BY <1>8, <1>9, <2>5 DEF ScreenInv
    <3>. QED  BY <1>3, <2>2, <2>3, <3>1, <3>2 DEF Served, OnTheWay
  <2>. QED  BY <2>4, <2>5
<1>11. CASE ~(sv.quit /\ active = {})
  <2>1. service' = sv /\ Flush(box)
    BY <1>2, <1>11
  <2>2. CASE display.open
    <3>1. Flushed(box)
      BY <1>4, <1>5, <2>1, <2>2, FlushSends
    <3>2. PICK n, q : FlushedTo(channel, box, n, q, channel', outbox')
      BY <3>1 DEF Flushed
    <3>3. PlacesOf(channel, box, n, q, channel', outbox')
      BY <1>3, <1>4, <3>2, FlushedPlaces
    <3>4. channel' \in Seq(OnTheWay) /\ outbox' \in BoxState /\ outbox'.lost = box.lost
      BY <3>3 DEF PlacesOf
    <3>5. Len(channel') <= ChannelLimit /\ outbox'.deltas \subseteq box.deltas
      BY <3>2 DEF FlushedTo
    <3>6. IsFiniteSet(outbox'.deltas)
      BY <1>5, <3>5, FS_Subset
    <3>7. ~outbox'.lost => StreamInv(channel', display) /\ TextInv(loop', outbox', channel', display)
      <4>1. SUFFICES ASSUME ~outbox'.lost PROVE StreamInv(channel', display) /\ TextInv(loop', outbox', channel', display)
        OBVIOUS
      <4>2. StreamInv(channel, display) /\ TextInv(loop', box, channel, display)
        BY <1>6, <2>2, <3>4, <4>1
      <4>. QED  BY <1>3, <1>4, <3>2, <4>2, FlushKeepsText
    <3>8. Running' = {} => LastView(channel' \o outbox'.updates, display, View(sv.current, FALSE))
      <4>1. SUFFICES ASSUME Running' = {} PROVE LastView(channel' \o outbox'.updates, display, View(sv.current, FALSE))
        OBVIOUS
      <4>2. LastView(channel \o box.updates, display, View(sv.current, FALSE))
        BY <1>7, <2>2, <4>1
      <4>3. channel \in Seq(OnTheWay) /\ box \in BoxState
        BY <1>3, <1>4
      <4>4. PICK v : v = View(sv.current, FALSE)
        OBVIOUS
      <4>5. LastView(channel \o box.updates, display, v)
        BY <4>2, <4>4
      <4>6. LastView(channel' \o outbox'.updates, display, v)
        BY <3>2, <4>3, <4>5, FlushKeepsView
      <4>. QED  BY <4>4, <4>6
    <3>9. ScreenInv'
      BY <1>8, <1>9, <2>1, <3>7, <3>8 DEF ScreenInv
    <3>. QED  BY <2>1, <3>4, <3>5, <3>6, <3>9 DEF Served, OnTheWay
  <2>3. CASE ~display.open
    <3>1. channel' = channel /\ outbox' = IF box.updates = <<>> THEN box ELSE [box EXCEPT !.updates = <<>>, !.deltas = {}]
      BY <2>1, <2>3 DEF Flush
    <3>2. outbox' \in BoxState /\ IsFiniteSet(outbox'.deltas)
      <4>1. CASE outbox' = box
        BY <1>4, <1>5, <4>1
      <4>2. CASE outbox' = [box EXCEPT !.updates = <<>>, !.deltas = {}]
        <5>1. outbox' = [updates |-> <<>>, deltas |-> {}, lost |-> box.lost] /\ box.lost \in BOOLEAN
          BY <1>4, <4>2 DEF BoxState
        <5>2. <<>> \in Seq(Updates)
          OBVIOUS
        <5>3. outbox'.deltas = {}
          BY <5>1
        <5>4. IsFiniteSet(outbox'.deltas)
          BY <5>3, FS_EmptySet
        <5>. QED  BY <5>1, <5>2, <5>4 DEF BoxState
      <4>. QED  BY <3>1, <4>1, <4>2
    <3>3. ScreenInv'
      BY <1>8, <1>9, <2>3 DEF ScreenInv
    <3>. QED  BY <1>3, <2>1, <3>1, <3>2, <3>3 DEF Served, OnTheWay
  <2>. QED  BY <2>2, <2>3
<1>. QED  BY <1>10, <1>11
-----------------------------------------------------------------------------
(* The steps of a task.                                                    *)

LEMMA StepKeepsScreen ==
  ASSUME KernelTypeOK, ScreenInv, service.at = "select", service'.at = "select", channel' = channel, display' = display,
         outbox'.deltas \subseteq outbox.deltas, outbox.lost => outbox'.lost,
         \A s \in Threads : ~outbox'.lost /\ ResetQueued(outbox.updates, s) => ResetQueued(outbox'.updates, s),
         \A s \in Threads : GoesOn(loop[s], loop'[s]),
         \/ Running' # {}
         \/ Running' = Running /\ service'.current = service.current /\ outbox'.updates = outbox.updates
  PROVE  ScreenInv'
<1>1. outbox.deltas \subseteq Texts
  BY DEF KernelTypeOK, BoxState
<1>2. ASSUME display.open, ~outbox'.lost PROVE StreamInv(channel, display) /\ TextInv(loop', outbox', channel, display)
  <2>1. StreamInv(channel, display) /\ TextInv(loop, outbox, channel, display)
    BY <1>2 DEF ScreenInv
  <2>2. \A s \in Threads : ResetQueued(outbox.updates, s) => ResetQueued(outbox'.updates, s)
    BY <1>2
  <2>3. \A s \in Threads : \/ GoesOn(loop[s], loop'[s])
                           \/ ResetQueued(outbox'.updates, s) /\ \A t \in outbox'.deltas : t.of # s
    OBVIOUS
  <2>4. TextInv(loop', outbox', channel, display)
    BY <1>1, <2>1, <2>2, <2>3, QueueKeepsText
  <2>. QED  BY <2>1, <2>4
<1>3. ASSUME display.open, Running' = {}
      PROVE  LastView(channel \o outbox'.updates, display, View(service'.current, FALSE))
  <2>1. LastView(channel \o outbox.updates, display, View(service.current, FALSE))
    BY <1>3 DEF ScreenInv
  <2>. QED  BY <1>3, <2>1
<1>4. (~display.open => display.stream = {}) /\ (display.stream # {} => display.of \in Threads)
  BY DEF ScreenInv
<1>. QED  BY <1>2, <1>3, <1>4 DEF ScreenInv

LoopType == [Threads -> {NoActive} \cup TaskState]

\* One task moves on, or ends; the others are left alone.
MovedTask(s) ==
  /\ loop' \in LoopType /\ loop[s].at # "none" /\ loop'[s].at # "none"
  /\ loop'[s].at = "finished" \/ (loop[s].at # "finished" /\ loop'[s].n = loop[s].n)
  /\ \A t \in Threads : t # s => loop'[t] = loop[t]
ServiceKept == service' \in ServiceState /\ service'.at = service.at /\ service'.current = service.current
StoreKept == stored' \in StoreState /\ stored'.made = stored.made

TaskMove(s) ==
  /\ MovedTask(s) /\ ServiceKept /\ StoreKept
  /\ outbox' = outbox \/ outbox' = Queued(<<Notice>>, outbox.deltas)
  /\ channel' = channel /\ display' = display

LEMMA EntryType ==
  ASSUME KernelTypeOK, NEW s \in Threads, loop[s].at # "none"
  PROVE  loop[s] \in TaskState /\ loop \in LoopType
<1>1. loop[s] \in {NoActive} \cup TaskState /\ loop \in LoopType
  BY DEF KernelTypeOK, LoopType
<1>. QED  BY <1>1 DEF NoActive

LEMMA MovedBy ==
  ASSUME KernelTypeOK, NEW s \in Threads, loop[s].at # "none", NEW e \in TaskState, loop' = [loop EXCEPT ![s] = e],
         e.at = "finished" \/ (loop[s].at # "finished" /\ e.n = loop[s].n)
  PROVE  MovedTask(s)
<1>1. loop \in LoopType
  BY EntryType
<1>2. loop' \in LoopType /\ loop'[s] = e /\ \A t \in Threads : t # s => loop'[t] = loop[t]
  BY <1>1 DEF LoopType
<1>3. e.at # "none"
  BY DEF TaskState
<1>. QED  BY <1>2, <1>3 DEF MovedTask

LEMMA StartedType ==
  ASSUME NEW n \in Nat, NEW pane \in BOOLEAN
  PROVE  /\ Started(n, pane) \in TaskState /\ Started(n, pane).at = "top" /\ Started(n, pane).n = n
         /\ [Started(n, pane) EXCEPT !.at = "finished"] \in TaskState
         /\ [Started(n, pane) EXCEPT !.at = "finished"].at = "finished"
BY DEF Started, TaskState, RouteValues

LEMMA FinishMoves ==
  ASSUME KernelTypeOK, NEW s \in Threads, loop[s].at # "none",
         NEW result \in {"completed", "stopped", "error"}, Finishes(s, result)
  PROVE  MovedTask(s) /\ ServiceKept
<1>1. loop[s].pane \in BOOLEAN
  BY EntryType DEF TaskState
<1>2. MovedTask(s)
  <2>1. PICK e : e = [Started(0, loop[s].pane) EXCEPT !.at = "finished"]
    OBVIOUS
  <2>2. e \in TaskState /\ e.at = "finished"
    BY <1>1, <2>1, StartedType
  <2>3. loop' = [loop EXCEPT ![s] = e]
    BY <2>1 DEF Finishes
  <2>. QED  BY <2>2, <2>3, MovedBy
<1>3. ServiceKept
  <2>1. service \in ServiceState /\ service.done \in Seq(Results)
    BY DEF KernelTypeOK, ServiceState
  <2>2. [of |-> s, result |-> result] \in Results
    BY DEF Results
  <2>3. Append(service.done, [of |-> s, result |-> result]) \in Seq(Results)
    BY <2>1, <2>2
  <2>4. service' = [service EXCEPT !.done = Append(service.done, [of |-> s, result |-> result])]
    BY DEF Finishes
  <2>. QED  BY <2>1, <2>3, <2>4 DEF ServiceKept, ServiceState
<1>. QED  BY <1>2, <1>3

LEMMA ReturnMoves ==
  ASSUME KernelTypeOK, NEW s \in Threads, loop[s].at # "none", Returns(s)
  PROVE  MovedTask(s) /\ ServiceKept
BY FinishMoves DEF Returns

LEMMA SameService == KernelTypeOK /\ service' = service => ServiceKept
BY DEF KernelTypeOK, ServiceKept
LEMMA SameStore == KernelTypeOK /\ stored' = stored => StoreKept
BY DEF KernelTypeOK, StoreKept

\* A running account, and a route, are again what they may be.
LEMMA RunKept ==
  ASSUME KernelTypeOK, NEW a, NEW s \in Threads \cup {NoThread}, stored' = [stored EXCEPT !.run[a] = s]
  PROVE  StoreKept
BY DEF KernelTypeOK, StoreState, StoreKept
LEMMA RouteKept ==
  ASSUME KernelTypeOK, NEW s, NEW r \in RouteValues, stored' = [stored EXCEPT !.route[s] = r]
  PROVE  StoreKept
BY DEF KernelTypeOK, StoreState, StoreKept

LEMMA StandsMoves ==
  ASSUME KernelTypeOK, NEW s \in Threads, loop[s].at \notin {"none", "finished"},
         NEW step \in {"appended", "running", "judging"}, Moves(s, step)
  PROVE  MovedTask(s) /\ ServiceKept
<1>1. loop[s] \in TaskState /\ loop \in LoopType
  BY EntryType
<1>2. PICK e : e = [loop[s] EXCEPT !.at = step]
  OBVIOUS
<1>3. e \in TaskState /\ e.n = loop[s].n
  BY <1>1, <1>2 DEF TaskState
<1>4. loop' = [loop EXCEPT ![s] = e]
  BY <1>1, <1>2 DEF Moves, LoopType
<1>. QED  BY <1>3, <1>4, MovedBy, SameService DEF Moves

LEMMA LoopMoves ==
  ASSUME KernelTypeOK, NEW s \in Threads, loop[s].at \notin {"none", "finished"}, NEW n \in {0, 1}, Loops(s, n)
  PROVE  MovedTask(s) /\ ServiceKept /\ outbox' = Queued(<<Notice>>, outbox.deltas)
<1>1. loop[s] \in TaskState /\ loop \in LoopType
  BY EntryType
<1>2. PICK e : e = [loop[s] EXCEPT !.at = "top", !.consecutive = @ + n, !.source = NoRoute, !.candidates = {}, !.facts = NoFacts]
  OBVIOUS
<1>3. e \in TaskState /\ e.n = loop[s].n
  <2>1. loop[s].consecutive + n \in Nat /\ NoRoute \in RouteValues
    BY <1>1 DEF TaskState, RouteValues
  <2>. QED  BY <1>1, <1>2, <2>1 DEF TaskState
<1>4. loop' = [loop EXCEPT ![s] = e]
  <2>1. s \in DOMAIN loop
    BY <1>1 DEF LoopType
  <2>. QED  BY <1>1, <1>2, <2>1 DEF Loops, LoopType
<1>5. MovedTask(s) /\ ServiceKept
  BY <1>3, <1>4, MovedBy, SameService DEF Loops
<1>. QED  BY <1>5 DEF Loops

LEMMA FailMoves ==
  ASSUME KernelTypeOK, NEW s \in Threads, loop[s].at \notin {"none", "finished"}, NEW late, FailsOver(s, late)
  PROVE  MovedTask(s) /\ ServiceKept /\ outbox' = outbox
<1>1. CASE Returns(s)
  BY <1>1, ReturnMoves DEF FailsOver
<1>2. CASE ~Returns(s)
  <2>1. loop[s] \in TaskState /\ loop \in LoopType
    BY EntryType
  <2>2. PICK free : free = {r \in Routes : stored.run[AccountOf(r)] = NoThread}
    OBVIOUS
  <2>3. PICK e : e = [loop[s] EXCEPT !.at = "routing", !.candidates = free]
    OBVIOUS
  <2>4. e \in TaskState /\ e.n = loop[s].n
    BY <2>1, <2>2, <2>3 DEF TaskState
  <2>5. loop' = [loop EXCEPT ![s] = e]
    BY <1>2, <2>1, <2>2, <2>3 DEF FailsOver, LoopType
  <2>. QED  BY <1>2, <2>4, <2>5, MovedBy, SameService DEF FailsOver
<1>. QED  BY <1>1, <1>2

LEMMA StartsTurnMoves ==
  ASSUME KernelTypeOK, NEW s \in Threads, StartsTurn(s)
  PROVE  TaskMove(s)
<1>1. loop[s].at = "top" /\ stored' = stored /\ outbox' = outbox /\ channel' = channel /\ display' = display
  BY DEF StartsTurn, Stands
<1>2. CASE Finishes(s, "error")
  BY <1>1, <1>2, FinishMoves, SameStore DEF TaskMove
<1>3. CASE ~Finishes(s, "error")
  <2>1. loop[s] \in TaskState /\ loop \in LoopType
    BY <1>1, EntryType
  <2>2. PICK r : r = stored.route[s]
    OBVIOUS
  <2>3. r \in RouteValues
    BY <2>2 DEF KernelTypeOK, StoreState
  <2>4. PICK e : e = [loop[s] EXCEPT !.at = "appended", !.source = r, !.tried = @ \cup {r}]
    OBVIOUS
  <2>5. e \in TaskState /\ e.n = loop[s].n
    BY <2>1, <2>3, <2>4 DEF TaskState
  <2>6. loop' = [loop EXCEPT ![s] = e] /\ service' = service
    BY <1>3, <2>1, <2>2, <2>4 DEF StartsTurn, LoopType
  <2>. QED  BY <1>1, <2>5, <2>6, MovedBy, SameService, SameStore DEF TaskMove
<1>. QED  BY <1>2, <1>3

LEMMA RunsTurnMoves ==
  ASSUME KernelTypeOK, NEW s \in Threads, RunsTurn(s)
  PROVE  TaskMove(s)
<1>1. loop[s].at = "appended" /\ outbox' = outbox /\ channel' = channel /\ display' = display
  BY DEF RunsTurn, Stands
<1>2. CASE Finishes(s, "error") /\ stored' = stored
  BY <1>1, <1>2, FinishMoves, SameStore DEF TaskMove
<1>3. CASE ~(Finishes(s, "error") /\ stored' = stored)
  <2>1. Moves(s, "running") /\ stored' = [stored EXCEPT !.run[AccountOf(loop[s].source)] = s]
    BY <1>3 DEF RunsTurn
  <2>2. MovedTask(s) /\ ServiceKept
    BY <1>1, <2>1, StandsMoves
  <2>3. StoreKept
    BY <2>1, RunKept
  <2>. QED  BY <1>1, <2>2, <2>3 DEF TaskMove
<1>. QED  BY <1>2, <1>3

LEMMA TurnEndsMoves ==
  ASSUME KernelTypeOK, NEW s \in Threads, TurnEnds(s)
  PROVE  TaskMove(s)
<1>1. loop[s].at = "running" /\ outbox' = outbox /\ channel' = channel /\ display' = display
  BY DEF TurnEnds, Stands
<1>2. PICK facts \in TurnFacts, settled \in BOOLEAN :
        /\ stored' = IF settled THEN [stored EXCEPT !.run[AccountOf(loop[s].source)] = NoThread] ELSE stored
        /\ \/ loop' = [loop EXCEPT ![s].at = "ended", ![s].facts = facts] /\ UNCHANGED service
           \/ Finishes(s, "error")
  BY DEF TurnEnds
<1>3. StoreKept
  BY <1>2, RunKept, SameStore
<1>4. CASE Finishes(s, "error")
  BY <1>1, <1>3, <1>4, FinishMoves DEF TaskMove
<1>5. CASE loop' = [loop EXCEPT ![s].at = "ended", ![s].facts = facts] /\ service' = service
  <2>1. loop[s] \in TaskState /\ loop \in LoopType
    BY <1>1, EntryType
  <2>2. PICK e : e = [loop[s] EXCEPT !.at = "ended", !.facts = facts]
    OBVIOUS
  <2>3. e \in TaskState /\ e.n = loop[s].n
    BY <2>1, <2>2 DEF TaskState
  <2>4. loop' = [loop EXCEPT ![s] = e]
    BY <1>5, <2>1, <2>2 DEF LoopType
  <2>. QED  BY <1>1, <1>3, <1>5, <2>3, <2>4, MovedBy, SameService DEF TaskMove
<1>. QED  BY <1>2, <1>4, <1>5

LEMMA DecidesMoves ==
  ASSUME KernelTypeOK, NEW s \in Threads, Decides(s)
  PROVE  TaskMove(s)
<1>1. loop[s].at = "ended" /\ stored' = stored /\ channel' = channel /\ display' = display
  BY DEF Decides, Stands
<1>2. StoreKept
  BY <1>1, SameStore
<1>3. CASE Returns(s) /\ outbox' = outbox
  BY <1>1, <1>2, <1>3, ReturnMoves DEF TaskMove
<1>4. CASE Continues(s)
  BY <1>1, <1>2, <1>4, LoopMoves DEF Continues, TaskMove
<1>5. CASE Moves(s, "judging") /\ outbox' = outbox
  BY <1>1, <1>2, <1>5, StandsMoves DEF TaskMove
<1>6. CASE \E late \in BOOLEAN : FailsOver(s, late)
  BY <1>1, <1>2, <1>6, FailMoves DEF TaskMove
<1>. QED  BY <1>3, <1>4, <1>5, <1>6 DEF Decides

LEMMA JudgedMoves ==
  ASSUME KernelTypeOK, NEW s \in Threads, Judged(s)
  PROVE  TaskMove(s)
<1>1. loop[s].at = "judging" /\ stored' = stored /\ channel' = channel /\ display' = display
  BY DEF Judged, Stands
<1>2. StoreKept
  BY <1>1, SameStore
<1>3. CASE Continues(s)
  BY <1>1, <1>2, <1>3, LoopMoves DEF Continues, TaskMove
<1>4. CASE \E late \in BOOLEAN : FailsOver(s, late)
  BY <1>1, <1>2, <1>4, FailMoves DEF TaskMove
<1>. QED  BY <1>3, <1>4 DEF Judged

LEMMA ReroutesMoves ==
  ASSUME KernelTypeOK, NEW s \in Threads, Reroutes(s)
  PROVE  TaskMove(s)
<1>1. loop[s].at = "routing" /\ channel' = channel /\ display' = display
  BY DEF Reroutes, Stands
<1>2. CASE (Returns(s) \/ Finishes(s, "error")) /\ stored' = stored /\ outbox' = outbox
  BY <1>1, <1>2, ReturnMoves, FinishMoves, SameStore DEF TaskMove
<1>3. CASE \E r \in NextRoutes(loop[s]) : stored' = [stored EXCEPT !.route[s] = r] /\ Loops(s, 0)
  <2>1. PICK r \in NextRoutes(loop[s]) : stored' = [stored EXCEPT !.route[s] = r] /\ Loops(s, 0)
    BY <1>3
  <2>2. loop[s] \in TaskState
    BY <1>1, EntryType
  <2>3. r \in RouteValues
    BY <2>1, <2>2 DEF NextRoutes, TaskState, RouteValues
  <2>4. StoreKept
    BY <2>1, <2>3, RouteKept
  <2>5. MovedTask(s) /\ ServiceKept /\ outbox' = Queued(<<Notice>>, outbox.deltas)
    BY <1>1, <2>1, LoopMoves
  <2>. QED  BY <1>1, <2>4, <2>5 DEF TaskMove
<1>. QED  BY <1>2, <1>3 DEF Reroutes

LEMMA OneNotice ==
  <<Notice>> \in Seq(Updates) /\ Len(<<Notice>>) = 1 /\ <<Notice>>[1] = Notice
<1>1. Notice \in Updates
  BY DEF Updates
<1>. QED  BY <1>1

LEMMA TaskMoveKeeps ==
  ASSUME KernelInv, service.at = "select", NEW s \in Threads, TaskMove(s)
  PROVE  KernelInv'
<1>1. /\ MovedTask(s) /\ ServiceKept /\ StoreKept /\ channel' = channel /\ display' = display
      /\ outbox' = outbox \/ outbox' = Queued(<<Notice>>, outbox.deltas)
  BY DEF TaskMove
<1>2. KernelTypeOK /\ MadeInv /\ ScreenInv
  BY DEF KernelInv
<1>3. /\ outbox' \in BoxState /\ outbox'.deltas = outbox.deltas /\ (outbox.lost => outbox'.lost)
      /\ \A t \in Threads : ~outbox'.lost /\ ResetQueued(outbox.updates, t) => ResetQueued(outbox'.updates, t)
  <2>1. outbox \in BoxState /\ outbox.deltas \in SUBSET Texts
    BY <1>2 DEF KernelTypeOK, BoxState
  <2>2. CASE outbox' = outbox
    BY <2>1, <2>2
  <2>3. CASE outbox' = Queued(<<Notice>>, outbox.deltas)
    <3>1. <<Notice>> \in Seq(Updates)
      BY OneNotice
    <3>. QED  BY <2>1, <2>3, <3>1, QueuedKeeps
  <2>. QED  BY <1>1, <2>2, <2>3
<1>4. loop \in LoopType /\ loop' \in LoopType
  BY <1>1, <1>2 DEF MovedTask, KernelTypeOK, LoopType
<1>5. KernelTypeOK'
  <2>1. IsFiniteSet(outbox'.deltas)
    BY <1>2, <1>3 DEF KernelTypeOK
  <2>2. channel' \in Seq(Updates \cup Texts) /\ Len(channel') <= ChannelLimit /\ display' \in DisplayState
    BY <1>1, <1>2 DEF KernelTypeOK
  <2>3. stored' \in StoreState /\ service' \in ServiceState
    BY <1>1 DEF StoreKept, ServiceKept
  <2>. QED  BY <1>3, <1>4, <2>1, <2>2, <2>3 DEF KernelTypeOK, LoopType
<1>6. Running' = Running /\ s \in Running
  BY <1>1 DEF Running, MovedTask
<1>7. MadeInv'
  BY <1>1, <1>2, <1>6 DEF MadeInv, StoreKept, ServiceKept
<1>8. \A t \in Threads : GoesOn(loop[t], loop'[t])
  <2>1. ASSUME NEW t \in Threads PROVE GoesOn(loop[t], loop'[t])
    <3>1. CASE t = s
      BY <1>1, <3>1, GoesOnBy DEF MovedTask
    <3>2. CASE t # s
      BY <1>1, <3>2 DEF MovedTask, GoesOn
    <3>. QED  BY <3>1, <3>2
  <2>. QED  BY <2>1
<1>9. ScreenInv'
  <2>1. service'.at = "select"
    BY <1>1 DEF ServiceKept
  <2>2. Running' # {}
    BY <1>6
  <2>3. outbox'.deltas \subseteq outbox.deltas
    BY <1>3
  <2>. QED  BY <1>1, <1>2, <1>3, <1>8, <2>1, <2>2, <2>3, StepKeepsScreen
<1>. QED  BY <1>5, <1>7, <1>9 DEF KernelInv

LEMMA ServingSelects == KernelTypeOK /\ Serving => service.at = "select"
BY DEF KernelTypeOK, ServiceState, Serving

LEMMA TaskStepKeeps ==
  ASSUME KernelInv, NEW s \in Threads, TaskStep(s)
  PROVE  KernelInv'
<1>1. KernelTypeOK
  BY DEF KernelInv
<1>2. service.at = "select"
  BY <1>1, ServingSelects DEF TaskStep
<1>3. TaskMove(s)
  BY <1>1, StartsTurnMoves, RunsTurnMoves, TurnEndsMoves, DecidesMoves, JudgedMoves, ReroutesMoves DEF TaskStep
<1>. QED  BY <1>2, <1>3, TaskMoveKeeps

LEMMA StreamsKeeps ==
  ASSUME KernelInv, NEW s \in Threads, Streams(s)
  PROVE  KernelInv'
<1>1. KernelTypeOK /\ MadeInv /\ ScreenInv
  BY DEF KernelInv
<1>2. service.at = "select" /\ loop[s].at = "running"
  BY <1>1, ServingSelects DEF Streams, Stands
<1>3. loop' = loop /\ stored' = stored /\ service' = service /\ channel' = channel /\ display' = display
  BY DEF Streams
<1>4. outbox' = [outbox EXCEPT !.deltas = outbox.deltas \cup {Text(s, loop[s].n)}]
  BY DEF Streams, Text
<1>5. loop[s] \in TaskState /\ loop[s].n \in Nat
  BY <1>1, <1>2, EntryType DEF TaskState
<1>6. /\ outbox'.updates = outbox.updates /\ outbox'.lost = outbox.lost /\ outbox' \in BoxState
      /\ outbox'.deltas = outbox.deltas \cup {Text(s, loop[s].n)}
  <2>1. outbox \in BoxState
    BY <1>1 DEF KernelTypeOK
  <2>2. Text(s, loop[s].n) \in Texts
    BY <1>5 DEF Text, Texts
  <2>. QED  BY <1>4, <2>1, <2>2 DEF BoxState
<1>7. IsFiniteSet(outbox'.deltas)
  <2>1. IsFiniteSet(outbox.deltas)
    BY <1>1 DEF KernelTypeOK
  <2>2. PICK x : x = Text(s, loop[s].n)
    OBVIOUS
  <2>3. IsFiniteSet(outbox.deltas \cup {x})
    BY <2>1, FS_AddElement
  <2>. QED  BY <1>6, <2>2, <2>3
<1>8. KernelTypeOK'
  BY <1>1, <1>3, <1>6, <1>7 DEF KernelTypeOK
<1>9. MadeInv' /\ Running' = Running /\ Running # {}
  BY <1>1, <1>2, <1>3 DEF MadeInv, Running
<1>10. ASSUME display.open, ~outbox.lost PROVE StreamInv(channel, display) /\ TextInv(loop, outbox', channel, display)
  <2>1. StreamInv(channel, display) /\ TextInv(loop, outbox, channel, display)
    BY <1>1, <1>2, <1>10 DEF ScreenInv
  <2>. QED  BY <1>2, <1>5, <1>6, <2>1, StreamKeepsText
<1>11. ScreenInv'
  BY <1>1, <1>3, <1>6, <1>9, <1>10 DEF ScreenInv
<1>. QED  BY <1>8, <1>9, <1>11 DEF KernelInv

LEMMA SiblingMovesKeeps ==
  ASSUME KernelInv, NEW s \in Threads, NEW r \in Routes, SiblingMoves(s, r)
  PROVE  KernelInv'
<1>1. KernelTypeOK /\ MadeInv /\ ScreenInv
  BY DEF KernelInv
<1>2. loop' = loop /\ outbox' = outbox /\ channel' = channel /\ display' = display
  BY DEF SiblingMoves
<1>3. StoreKept
  BY <1>1, RouteKept DEF SiblingMoves, RouteValues
<1>4. ServiceKept
  <2>1. service \in ServiceState /\ service' = [service EXCEPT !.intents = service.intents + 1]
    BY <1>1 DEF SiblingMoves, KernelTypeOK
  <2>. QED  BY <2>1 DEF ServiceState, ServiceKept
<1>5. KernelTypeOK'
  BY <1>1, <1>2, <1>3, <1>4 DEF KernelTypeOK, StoreKept, ServiceKept
<1>6. MadeInv' /\ Running' = Running
  BY <1>1, <1>2, <1>3, <1>4 DEF MadeInv, Running, StoreKept, ServiceKept
<1>7. ScreenInv'
  BY <1>1, <1>2, <1>4, <1>6 DEF ScreenInv, ServiceKept
<1>. QED  BY <1>5, <1>6, <1>7 DEF KernelInv
-----------------------------------------------------------------------------
(* What the service does.                                                  *)

LEMMA EndsIn ==
  ASSUME NEW notices \in Seq(Updates), NEW v \in Updates
  PROVE  /\ notices \o <<v>> \in Seq(Updates) /\ Len(notices \o <<v>>) > 0
         /\ (notices \o <<v>>)[Len(notices \o <<v>>)] = v
<1>1. PICK w : w = <<v>>
  OBVIOUS
<1>2. w \in Seq(Updates) /\ Len(w) = 1 /\ w[1] = v
  BY <1>1
<1>3. PICK q : q = notices \o w
  OBVIOUS
<1>4. JoinOf(Updates, notices, w, q)
  BY <1>2, <1>3, Joined
<1>5. q \in Seq(Updates) /\ Len(q) = Len(notices) + 1 /\ Len(notices) \in Nat /\ q[Len(notices) + 1] = v
  BY <1>2, <1>4 DEF JoinOf
<1>. QED  BY <1>1, <1>3, <1>5

LEMMA StartsWith ==
  ASSUME NEW notices \in Seq(Updates), NEW u \in Updates
  PROVE  /\ <<u>> \o notices \in Seq(Updates) /\ Len(<<u>> \o notices) > 0
         /\ (<<u>> \o notices)[1] = u
<1>1. PICK w : w = <<u>>
  OBVIOUS
<1>2. w \in Seq(Updates) /\ Len(w) = 1 /\ w[1] = u
  BY <1>1
<1>3. PICK q : q = w \o notices
  OBVIOUS
<1>4. JoinOf(Updates, w, notices, q)
  BY <1>2, <1>3, Joined
<1>5. q \in Seq(Updates) /\ Len(q) = 1 + Len(notices) /\ Len(notices) \in Nat /\ q[1] = u
  BY <1>2, <1>4 DEF JoinOf
<1>. QED  BY <1>1, <1>3, <1>5

\* The updates of a completion.
ResetThenView(s, v, q) ==
  q \in Seq(Updates) /\ ResetQueued(q, s) /\ Len(q) > 0 /\ q[Len(q)] = v

LEMMA CompletionUpdates ==
  ASSUME NEW s \in Threads, NEW notices \in Seq(Updates), NEW v \in Updates
  PROVE  ResetThenView(s, v, <<ClearStream(s)>> \o notices \o <<v>>)
<1>1. ClearStream(s) \in Updates
  BY DEF ClearStream, Updates
<1>2. PICK p : p = <<ClearStream(s)>> \o notices
  OBVIOUS
<1>3. p \in Seq(Updates) /\ Len(p) > 0 /\ p[1] = ClearStream(s)
  BY <1>1, <1>2, StartsWith
<1>4. PICK w : w = <<v>>
  OBVIOUS
<1>5. w \in Seq(Updates) /\ Len(w) = 1 /\ w[1] = v
  BY <1>4
<1>6. PICK q : q = p \o w
  OBVIOUS
<1>7. JoinOf(Updates, p, w, q)
  BY <1>3, <1>5, <1>6, Joined
<1>8. /\ q \in Seq(Updates) /\ Len(q) = Len(p) + 1 /\ Len(p) \in Nat /\ q[Len(p) + 1] = v
      /\ \A k \in 1..Len(p) : q[k] = p[k]
  BY <1>3, <1>5, <1>7 DEF JoinOf
<1>9. 1 \in 1..Len(q) /\ q[1] = ClearStream(s)
  BY <1>3, <1>8
<1>10. ResetThenView(s, v, q)
  BY <1>8, <1>9 DEF ResetThenView, ResetQueued
<1>. QED  BY <1>2, <1>4, <1>6, <1>10

LEMMA SnapshotUpdate ==
  ASSUME NEW s \in Threads \cup {NoThread}, NEW active
  PROVE  Snapshot(s, active) \in Updates /\ (active = {} => Snapshot(s, active) = View(s, FALSE))
<1>1. ASSUME NEW b \in BOOLEAN PROVE View(s, b) \in Updates
  BY DEF View, Updates
<1>2. CASE s \in active
  <2>1. Snapshot(s, active) = View(s, TRUE) /\ active # {}
    BY <1>2 DEF Snapshot, View
  <2>. QED  BY <1>1, <2>1
<1>3. CASE s \notin active
  <2>1. Snapshot(s, active) = View(s, FALSE)
    <3>1. (s \in active) = FALSE
      BY <1>3
    <3>. QED  BY <3>1 DEF Snapshot
  <2>. QED  BY <1>1, <2>1
<1>. QED  BY <1>2, <1>3

LEMMA ServedKeeps ==
  ASSUME KernelTypeOK, loop' \in LoopType, stored' \in StoreState, Running' \subseteq stored'.made,
         NEW sv, sv.current \in stored'.made \cup {NoThread}, Served(sv), display' = display
  PROVE  KernelInv'
<1>1. KernelTypeOK'
  BY DEF KernelTypeOK, Served, LoopType
<1>2. MadeInv'
  BY DEF Served, MadeInv
<1>3. ScreenInv'
  BY DEF Served
<1>. QED  BY <1>1, <1>2, <1>3 DEF KernelInv

\* An intent is handled.
LEMMA HandleKeeps ==
  ASSUME KernelInv, service.at = "select", NEW sv \in ServiceState, sv.at = "select", NEW active, active = Running',
         NEW notices \in Seq(Updates), Handles(sv, active, notices),
         loop' \in LoopType, \A s \in Threads : GoesOn(loop[s], loop'[s]),
         stored' \in StoreState, Running' \subseteq stored'.made, sv.current \in stored'.made \cup {NoThread}
  PROVE  KernelInv'
<1>1. KernelTypeOK /\ ScreenInv
  BY DEF KernelInv
<1>2. PICK s2 : s2 = [sv EXCEPT !.intents = @ + 1]
  OBVIOUS
<1>3. s2 \in ServiceState /\ s2.at = "select" /\ s2.current = sv.current
  BY <1>2 DEF ServiceState
<1>4. PICK v : v = Snapshot(sv.current, active)
  OBVIOUS
<1>5. v \in Updates /\ (active = {} => v = View(sv.current, FALSE))
  BY <1>4, SnapshotUpdate DEF ServiceState
<1>6. PICK q : q = notices \o <<v>>
  OBVIOUS
<1>7. q \in Seq(Updates) /\ Len(q) > 0 /\ q[Len(q)] = v
  BY <1>5, <1>6, EndsIn
<1>8. Serves(s2, active, q, outbox.deltas) /\ display' = display
  BY <1>2, <1>4, <1>6 DEF Handles
<1>9. Running' = {} => SaysRest(s2.current, q)
  BY <1>3, <1>5, <1>7 DEF SaysRest
<1>10. Served(s2)
  BY <1>1, <1>3, <1>7, <1>8, <1>9, ServeKeeps
<1>. QED  BY <1>1, <1>3, <1>8, <1>10, ServedKeeps

LEMMA SameLoop == KernelTypeOK /\ loop' = loop => loop' \in LoopType /\ Running' = Running /\ \A s \in Threads : GoesOn(loop[s], loop'[s])
BY DEF KernelTypeOK, LoopType, Running, GoesOn

LEMMA LoopStarts ==
  ASSUME KernelTypeOK, NEW s \in Threads, s \notin Running, NEW n \in Nat, NEW pane \in BOOLEAN,
         loop' = [loop EXCEPT ![s] = Started(n, pane)]
  PROVE  loop' \in LoopType /\ Running' = Running \cup {s} /\ \A t \in Threads : GoesOn(loop[t], loop'[t])
<1>1. PICK e : e = Started(n, pane)
  OBVIOUS
<1>2. e \in TaskState /\ e.at = "top"
  BY <1>1, StartedType
<1>3. loop \in LoopType /\ loop' = [loop EXCEPT ![s] = e]
  BY <1>1 DEF KernelTypeOK, LoopType
<1>4. loop' \in LoopType /\ loop'[s] = e /\ \A t \in Threads : t # s => loop'[t] = loop[t]
  BY <1>2, <1>3 DEF LoopType
<1>5. Running' = Running \cup {s}
  BY <1>2, <1>4 DEF Running
<1>6. loop[s].at = "none"
  BY DEF Running
<1>7. \A t \in Threads : GoesOn(loop[t], loop'[t])
  BY <1>4, <1>6, GoesOnBy DEF GoesOn
<1>. QED  BY <1>4, <1>5, <1>7

LEMMA StoreMakes ==
  ASSUME KernelTypeOK, NEW s \in Threads, NEW r \in RouteValues, stored' = Creates(s, r)
  PROVE  stored' \in StoreState /\ stored'.made = stored.made \cup {s}
BY DEF KernelTypeOK, StoreState, Creates

LEMMA CancelledTask ==
  ASSUME KernelTypeOK, NEW s \in Threads, loop[s].at # "none"
  PROVE  Cancelled(s) \in TaskState /\ Cancelled(s).at = loop[s].at /\ Cancelled(s).n = loop[s].n
BY EntryType DEF Cancelled, TaskState

LEMMA SubmitKeeps == KernelInv /\ Submit => KernelInv'
<1>. SUFFICES ASSUME KernelInv, Submit PROVE KernelInv'
  OBVIOUS
<1>1. KernelTypeOK /\ MadeInv /\ service \in ServiceState /\ service.at = "select" /\ NoThread \notin Threads
  BY KernelAssumption DEF KernelInv, KernelTypeOK, Submit, Takes
<1>2. PICK s \in Threads :
        /\ \/ service.current = s /\ UNCHANGED stored
           \/ /\ service.current = NoThread /\ s \notin stored.made
              /\ stored' = Creates(s, Default)
        /\ \/ /\ s \notin Running /\ loop' = Starts(s, FALSE)
              /\ Handles([service EXCEPT !.current = s, !.started = @ + 1], Running \cup {s}, <<>>)
           \/ /\ UNCHANGED loop
              /\ Handles([service EXCEPT !.current = s], Running, <<Notice, Notice>>)
  BY DEF Submit
<1>3. stored' \in StoreState /\ stored'.made = stored.made \cup {s}
  <2>1. CASE service.current = s /\ stored' = stored
    BY <1>1, <2>1 DEF MadeInv, KernelTypeOK
  <2>2. CASE stored' = Creates(s, Default)
    BY <1>1, <2>2, StoreMakes DEF RouteValues
  <2>. QED  BY <1>2, <2>1, <2>2
<1>4. Running \cup {s} \subseteq stored'.made /\ Running \subseteq stored'.made /\ s \in stored'.made \cup {NoThread}
  BY <1>1, <1>3 DEF MadeInv
<1>5. CASE /\ s \notin Running /\ loop' = Starts(s, FALSE)
           /\ Handles([service EXCEPT !.current = s, !.started = @ + 1], Running \cup {s}, <<>>)
  <2>1. PICK n : n = service.started + 1
    OBVIOUS
  <2>2. n \in Nat /\ loop' = [loop EXCEPT ![s] = Started(n, FALSE)]
    BY <1>1, <1>5, <2>1 DEF Starts, ServiceState
  <2>3. loop' \in LoopType /\ Running' = Running \cup {s} /\ \A t \in Threads : GoesOn(loop[t], loop'[t])
    BY <1>1, <1>5, <2>2, LoopStarts
  <2>4. PICK sv : sv = [service EXCEPT !.current = s, !.started = @ + 1]
    OBVIOUS
  <2>5. sv \in ServiceState /\ sv.at = "select" /\ sv.current = s
    <3>1. sv = [service EXCEPT !.current = s, !.started = n]
      BY <1>1, <2>1, <2>4 DEF ServiceState
    <3>. QED  BY <1>1, <2>2, <3>1 DEF ServiceState
  <2>6. <<>> \in Seq(Updates) /\ Handles(sv, Running \cup {s}, <<>>)
    BY <1>5, <2>4
  <2>. QED  BY <1>1, <1>3, <1>4, <2>3, <2>5, <2>6, HandleKeeps
<1>6. CASE UNCHANGED loop /\ Handles([service EXCEPT !.current = s], Running, <<Notice, Notice>>)
  <2>1. loop' \in LoopType /\ Running' = Running /\ \A t \in Threads : GoesOn(loop[t], loop'[t])
    BY <1>1, <1>6, SameLoop
  <2>2. PICK sv : sv = [service EXCEPT !.current = s]
    OBVIOUS
  <2>3. sv \in ServiceState /\ sv.at = "select" /\ sv.current = s
    BY <1>1, <2>2 DEF ServiceState
  <2>4. Handles(sv, Running, <<Notice, Notice>>)
    BY <1>6, <2>2
  <2>5. <<Notice, Notice>> \in Seq(Updates)
    <3>1. Notice \in Updates
      BY DEF Updates
    <3>. QED  BY <3>1
  <2>. QED  BY <1>1, <1>3, <1>4, <2>1, <2>3, <2>4, <2>5, HandleKeeps
<1>. QED  BY <1>2, <1>5, <1>6

LEMMA CancelKeeps == KernelInv /\ Cancel => KernelInv'
<1>. SUFFICES ASSUME KernelInv, Cancel PROVE KernelInv'
  OBVIOUS
<1>1. KernelTypeOK /\ MadeInv /\ service \in ServiceState /\ service.at = "select" /\ stored' = stored
  BY DEF KernelInv, KernelTypeOK, Cancel, Takes
<1>2. PICK c : c = service.current
  OBVIOUS
<1>3. loop' = IF c \in Running THEN [loop EXCEPT ![c] = Cancelled(c)] ELSE loop
  BY <1>2 DEF Cancel
<1>4. loop' \in LoopType /\ Running' = Running /\ \A t \in Threads : GoesOn(loop[t], loop'[t])
  <2>1. CASE c \notin Running
    BY <1>1, <1>3, <2>1, SameLoop
  <2>2. CASE c \in Running
    <3>1. c \in Threads /\ loop[c].at # "none"
      BY <2>2 DEF Running
    <3>2. PICK e : e = Cancelled(c)
      OBVIOUS
    <3>3. e \in TaskState /\ e.at = loop[c].at /\ e.n = loop[c].n
      BY <1>1, <3>1, <3>2, CancelledTask
    <3>4. loop \in LoopType /\ loop' = [loop EXCEPT ![c] = e]
      BY <1>1, <1>3, <2>2, <3>2 DEF KernelTypeOK, LoopType
    <3>5. loop' \in LoopType /\ loop'[c] = e /\ \A t \in Threads : t # c => loop'[t] = loop[t]
      BY <3>1, <3>3, <3>4 DEF LoopType
    <3>6. Running' = Running
      BY <3>3, <3>5 DEF Running
    <3>7. \A t \in Threads : GoesOn(loop[t], loop'[t])
      BY <3>3, <3>5 DEF GoesOn, OfTask
    <3>. QED  BY <3>5, <3>6, <3>7
  <2>. QED  BY <2>1, <2>2
<1>5. PICK sv : sv = [service EXCEPT !.pending = NoThread]
  OBVIOUS
<1>6. sv \in ServiceState /\ sv.at = "select" /\ sv.current = service.current
  BY <1>1, <1>5 DEF ServiceState
<1>7. Handles(sv, Running, <<>>) /\ <<>> \in Seq(Updates)
  BY <1>5 DEF Cancel
<1>8. stored' \in StoreState /\ Running' \subseteq stored'.made /\ sv.current \in stored'.made \cup {NoThread}
  BY <1>1, <1>4, <1>6 DEF MadeInv, KernelTypeOK
<1>. QED  BY <1>1, <1>4, <1>6, <1>7, <1>8, HandleKeeps

LEMMA SelectKeeps == KernelInv /\ Select => KernelInv'
<1>. SUFFICES ASSUME KernelInv, Select PROVE KernelInv'
  OBVIOUS
<1>1. KernelTypeOK /\ MadeInv /\ service \in ServiceState /\ service.at = "select" /\ loop' = loop
  BY DEF KernelInv, KernelTypeOK, Select, Takes
<1>2. PICK s \in Threads :
        /\ \/ s \in stored.made /\ UNCHANGED stored
           \/ \E r \in RouteValues : stored' = Creates(s, r)
        /\ Handles([service EXCEPT !.current = s], Running, <<>>)
  <2>1. Routes \subseteq RouteValues /\ {Default} \subseteq RouteValues
    BY DEF RouteValues
  <2>. QED  BY <2>1 DEF Select
<1>3. stored' \in StoreState /\ stored'.made = stored.made \cup {s}
  <2>1. CASE s \in stored.made /\ stored' = stored
    BY <1>1, <2>1 DEF KernelTypeOK
  <2>2. CASE \E r \in RouteValues : stored' = Creates(s, r)
    BY <1>1, <2>2, StoreMakes
  <2>. QED  BY <1>2, <2>1, <2>2
<1>4. loop' \in LoopType /\ Running' = Running /\ \A t \in Threads : GoesOn(loop[t], loop'[t])
  BY <1>1, SameLoop
<1>5. PICK sv : sv = [service EXCEPT !.current = s]
  OBVIOUS
<1>6. sv \in ServiceState /\ sv.at = "select" /\ sv.current = s
  BY <1>1, <1>5 DEF ServiceState
<1>7. Handles(sv, Running, <<>>) /\ <<>> \in Seq(Updates)
  BY <1>2, <1>5
<1>8. Running' \subseteq stored'.made /\ sv.current \in stored'.made \cup {NoThread}
  BY <1>1, <1>3, <1>4, <1>6 DEF MadeInv
<1>. QED  BY <1>1, <1>3, <1>4, <1>6, <1>7, <1>8, HandleKeeps

LEMMA ChooseRouteKeeps ==
  ASSUME KernelInv, NEW r \in Routes, ChooseRoute(r)
  PROVE  KernelInv'
<1>1. KernelTypeOK /\ MadeInv /\ service \in ServiceState /\ service.at = "select" /\ loop' = loop
  BY DEF KernelInv, KernelTypeOK, ChooseRoute, Takes
<1>2. Handles(service, Running, <<>>) /\ <<>> \in Seq(Updates)
  BY DEF ChooseRoute
<1>3. StoreKept
  BY <1>1, RouteKept DEF ChooseRoute, RouteValues
<1>4. loop' \in LoopType /\ Running' = Running /\ \A t \in Threads : GoesOn(loop[t], loop'[t])
  BY <1>1, SameLoop
<1>5. stored' \in StoreState /\ Running' \subseteq stored'.made /\ service.current \in stored'.made \cup {NoThread}
  BY <1>1, <1>3, <1>4 DEF MadeInv, StoreKept
<1>. QED  BY <1>1, <1>2, <1>4, <1>5, HandleKeeps

LEMMA GeneratePaneKeeps == KernelInv /\ GeneratePane => KernelInv'
<1>. SUFFICES ASSUME KernelInv, GeneratePane PROVE KernelInv'
  OBVIOUS
<1>1. KernelTypeOK /\ MadeInv /\ service \in ServiceState /\ service.at = "select" /\ service.current \in Threads
  BY DEF KernelInv, KernelTypeOK, GeneratePane, Takes
<1>2. CASE loop' = loop /\ stored' = stored /\ Handles([service EXCEPT !.pending = service.current], Running, <<Notice>>)
  <2>1. loop' \in LoopType /\ Running' = Running /\ \A t \in Threads : GoesOn(loop[t], loop'[t])
    BY <1>1, <1>2, SameLoop
  <2>2. PICK sv : sv = [service EXCEPT !.pending = service.current]
    OBVIOUS
  <2>3. sv \in ServiceState /\ sv.at = "select" /\ sv.current = service.current
    BY <1>1, <2>2 DEF ServiceState
  <2>4. Handles(sv, Running, <<Notice>>) /\ <<Notice>> \in Seq(Updates)
    BY <1>2, <2>2, OneNotice
  <2>5. stored' \in StoreState /\ Running' \subseteq stored'.made /\ sv.current \in stored'.made \cup {NoThread}
    BY <1>1, <1>2, <2>1, <2>3 DEF MadeInv, KernelTypeOK
  <2>. QED  BY <1>1, <2>1, <2>3, <2>4, <2>5, HandleKeeps
<1>3. CASE \E p \in Threads \ stored.made :
             /\ stored' = Creates(p, stored.route[service.current])
             /\ loop' = Starts(p, TRUE) /\ Handles(service, Running \cup {p}, <<>>)
  <2>1. PICK p \in Threads \ stored.made :
               /\ stored' = Creates(p, stored.route[service.current])
               /\ loop' = Starts(p, TRUE) /\ Handles(service, Running \cup {p}, <<>>)
    BY <1>3
  <2>2. stored.route[service.current] \in RouteValues
    BY <1>1 DEF KernelTypeOK, StoreState
  <2>3. stored' \in StoreState /\ stored'.made = stored.made \cup {p}
    BY <1>1, <2>1, <2>2, StoreMakes
  <2>4. p \notin Running
    BY <1>1, <2>1 DEF MadeInv
  <2>5. loop' = [loop EXCEPT ![p] = Started(0, TRUE)]
    BY <2>1 DEF Starts
  <2>6. loop' \in LoopType /\ Running' = Running \cup {p} /\ \A t \in Threads : GoesOn(loop[t], loop'[t])
    BY <1>1, <2>1, <2>4, <2>5, LoopStarts
  <2>7. Running' \subseteq stored'.made /\ service.current \in stored'.made \cup {NoThread}
    BY <1>1, <2>3, <2>6 DEF MadeInv
  <2>8. <<>> \in Seq(Updates)
    OBVIOUS
  <2>. QED  BY <1>1, <2>1, <2>3, <2>6, <2>7, <2>8, HandleKeeps
<1>. QED  BY <1>2, <1>3 DEF GeneratePane

LEMMA OtherIntentKeeps == KernelInv /\ OtherIntent => KernelInv'
<1>. SUFFICES ASSUME KernelInv, OtherIntent PROVE KernelInv'
  OBVIOUS
<1>1. KernelTypeOK /\ MadeInv /\ service \in ServiceState /\ service.at = "select" /\ loop' = loop /\ stored' = stored
  BY DEF KernelInv, KernelTypeOK, OtherIntent, Takes
<1>2. PICK notices \in {<<>>, <<Notice>>} : Handles(service, Running, notices)
  BY DEF OtherIntent
<1>3. notices \in Seq(Updates)
  <2>1. <<>> \in Seq(Updates)
    OBVIOUS
  <2>. QED  BY <1>2, <2>1, OneNotice
<1>4. loop' \in LoopType /\ Running' = Running /\ \A t \in Threads : GoesOn(loop[t], loop'[t])
  BY <1>1, SameLoop
<1>5. stored' \in StoreState /\ Running' \subseteq stored'.made /\ service.current \in stored'.made \cup {NoThread}
  BY <1>1, <1>4 DEF MadeInv, KernelTypeOK
<1>. QED  BY <1>1, <1>2, <1>3, <1>4, <1>5, HandleKeeps

LEMMA QuitKeeps == KernelInv /\ Quit => KernelInv'
<1>. SUFFICES ASSUME KernelInv, Quit PROVE KernelInv'
  OBVIOUS
<1>1. /\ KernelTypeOK /\ MadeInv /\ ScreenInv /\ service \in ServiceState /\ service.at = "select"
      /\ stored' = stored /\ display' = display
  BY DEF KernelInv, KernelTypeOK, Quit
<1>2. loop' = [s \in Threads |-> IF s \in Running THEN Cancelled(s) ELSE NoActive]
  BY DEF Quit
<1>3. ASSUME NEW s \in Threads
      PROVE  /\ loop'[s] \in {NoActive} \cup TaskState /\ loop'[s].at = loop[s].at /\ GoesOn(loop[s], loop'[s])
  <2>1. CASE s \in Running
    <3>1. loop'[s] = Cancelled(s) /\ loop[s].at # "none"
      BY <1>2, <2>1 DEF Running
    <3>2. loop'[s] \in TaskState /\ loop'[s].at = loop[s].at /\ loop'[s].n = loop[s].n
      BY <1>1, <3>1, CancelledTask
    <3>. QED  BY <3>2 DEF GoesOn, OfTask
  <2>2. CASE s \notin Running
    BY <1>2, <2>2 DEF Running, NoActive, GoesOn, OfTask
  <2>. QED  BY <2>1, <2>2
<1>4. loop' \in LoopType /\ Running' = Running
  BY <1>2, <1>3 DEF LoopType, Running
<1>5. PICK sv : sv = [service EXCEPT !.quit = TRUE, !.pending = NoThread, !.intents = IF display.open THEN @ + 1 ELSE @]
  OBVIOUS
<1>6. sv \in ServiceState /\ sv.at = "select" /\ sv.current = service.current
  <2>1. service.intents \in Nat /\ service.intents + 1 \in Nat
    BY <1>1 DEF ServiceState
  <2>. QED  BY <1>1, <1>5, <2>1 DEF ServiceState
<1>7. Serves(sv, Running, <<>>, outbox.deltas)
  BY <1>5 DEF Quit
<1>8. <<>> \in Seq(Updates) /\ Len(<<>>) = 0
  OBVIOUS
<1>9. Running' = {} => SaysRest(sv.current, <<>>)
  BY <1>4, <1>6, <1>8 DEF SaysRest
<1>10. Served(sv)
  BY <1>1, <1>3, <1>6, <1>7, <1>8, <1>9, ServeKeeps
<1>11. stored' \in StoreState /\ Running' \subseteq stored'.made /\ sv.current \in stored'.made \cup {NoThread}
  BY <1>1, <1>4, <1>6 DEF MadeInv, KernelTypeOK
<1>. QED  BY <1>1, <1>4, <1>10, <1>11, ServedKeeps

LEMMA TickKeeps == KernelInv /\ Tick => KernelInv'
<1>. SUFFICES ASSUME KernelInv, Tick PROVE KernelInv'
  OBVIOUS
<1>1. /\ KernelTypeOK /\ MadeInv /\ ScreenInv /\ service \in ServiceState /\ service.at = "select"
      /\ loop' = loop /\ stored' = stored /\ display' = display
  BY DEF KernelInv, KernelTypeOK, Tick
<1>2. PICK views \in {<<>>} \cup IF Running = {} THEN {} ELSE {<<Snapshot(service.current, Running)>>} :
        Serves(service, Running, views, outbox.deltas)
  BY DEF Tick
<1>3. loop' \in LoopType /\ Running' = Running /\ \A t \in Threads : GoesOn(loop[t], loop'[t])
  BY <1>1, SameLoop
<1>4. PICK v : v = Snapshot(service.current, Running)
  OBVIOUS
<1>5. v \in Updates
  BY <1>1, <1>4, SnapshotUpdate DEF ServiceState
<1>6. views \in Seq(Updates)
  <2>1. <<>> \in Seq(Updates) /\ <<v>> \in Seq(Updates)
    BY <1>5
  <2>. QED  BY <1>2, <1>4, <2>1
<1>7. Running' = {} => SaysRest(service.current, views)
  <2>1. Len(<<>>) = 0
    OBVIOUS
  <2>2. Running = {} => views = <<>>
    BY <1>2
  <2>. QED  BY <1>3, <2>1, <2>2 DEF SaysRest
<1>8. Served(service)
  BY <1>1, <1>2, <1>3, <1>6, <1>7, ServeKeeps
<1>9. stored' \in StoreState /\ Running' \subseteq stored'.made /\ service.current \in stored'.made \cup {NoThread}
  BY <1>1, <1>3 DEF MadeInv, KernelTypeOK
<1>. QED  BY <1>1, <1>3, <1>8, <1>9, ServedKeeps

LEMMA CompletesKeeps == KernelInv /\ Completes => KernelInv'
<1>. SUFFICES ASSUME KernelInv, Completes PROVE KernelInv'
  OBVIOUS
<1>1. /\ KernelTypeOK /\ MadeInv /\ ScreenInv /\ service \in ServiceState /\ service.at = "select"
      /\ display' = display /\ service.done \in Seq(Results) /\ service.done # <<>>
  BY DEF KernelInv, KernelTypeOK, Completes, ServiceState
<1>2. PICK s : s = Head(service.done).of
  OBVIOUS
<1>3. s \in Threads /\ Tail(service.done) \in Seq(Results)
  <2>1. PICK q : q = service.done
    OBVIOUS
  <2>2. q \in Seq(Results) /\ q # <<>>
    BY <1>1, <2>1
  <2>3. Head(q) \in Results /\ Tail(q) \in Seq(Results)
    BY <2>2
  <2>. QED  BY <1>2, <2>1, <2>3 DEF Results
<1>4. PICK gone : gone = [loop EXCEPT ![s] = NoActive]
  OBVIOUS
<1>5. PICK rest : rest = [service EXCEPT !.done = Tail(@), !.pending = NoThread]
  OBVIOUS
<1>6. rest \in ServiceState /\ rest.at = "select" /\ rest.current = service.current
  BY <1>1, <1>3, <1>5 DEF ServiceState
<1>7. /\ gone \in LoopType /\ gone[s] = NoActive /\ \A t \in Threads : t # s => gone[t] = loop[t]
  BY <1>1, <1>3, <1>4 DEF KernelTypeOK, LoopType
<1>8. PICK notices \in {<<>>, <<Notice>>} :
        \/ /\ loop' = gone /\ stored' = stored
           /\ Serves(rest, Running \ {s},
                     <<ClearStream(s)>> \o notices \o <<Snapshot(service.current, Running \ {s})>>, TextOfOthers(s))
        \/ \E p \in Threads \ stored.made :
             /\ service.pending # NoThread
             /\ stored' = Creates(p, stored.route[service.pending])
             /\ loop' = [gone EXCEPT ![p] = Started(0, TRUE)]
             /\ Serves(rest, {p}, <<ClearStream(s)>> \o notices \o
                       <<Snapshot(service.current, (Running \ {s}) \cup {p})>>, TextOfOthers(s))
        \/ /\ loop' = [t \in Threads |-> NoActive] /\ stored' = stored
           /\ service' = [rest EXCEPT !.at = "failed", !.done = <<>>]
           /\ outbox' = Queued(<<ClearStream(s)>> \o notices, TextOfOthers(s)) /\ channel' = channel
  BY <1>2, <1>4, <1>5 DEF Completes
<1>9. notices \in Seq(Updates)
  <2>1. <<>> \in Seq(Updates)
    OBVIOUS
  <2>. QED  BY <1>8, <2>1, OneNotice
<1>10. TextOfOthers(s) \in SUBSET outbox.deltas /\ \A t \in TextOfOthers(s) : t.of # s
  BY DEF TextOfOthers
<1>11. service.current \in Threads \cup {NoThread} /\ service.current \in stored.made \cup {NoThread}
  BY <1>1 DEF ServiceState, MadeInv
<1>12. CASE /\ loop' = gone /\ stored' = stored
            /\ Serves(rest, Running \ {s},
                      <<ClearStream(s)>> \o notices \o <<Snapshot(service.current, Running \ {s})>>, TextOfOthers(s))
  <2>1. loop' \in LoopType /\ Running' = Running \ {s}
    BY <1>3, <1>7, <1>12 DEF Running, NoActive
  <2>2. PICK v : v = Snapshot(service.current, Running \ {s})
    OBVIOUS
  <2>3. v \in Updates /\ (Running' = {} => v = View(service.current, FALSE))
    BY <1>11, <2>1, <2>2, SnapshotUpdate
  <2>4. PICK q : q = <<ClearStream(s)>> \o notices \o <<v>>
    OBVIOUS
  <2>5. ResetThenView(s, v, q)
    BY <1>3, <1>9, <2>3, <2>4, CompletionUpdates
  <2>6. q \in Seq(Updates) /\ ResetQueued(q, s) /\ Len(q) > 0 /\ q[Len(q)] = v
    BY <2>5 DEF ResetThenView
  <2>7. Running' = {} => SaysRest(rest.current, q)
    BY <1>6, <2>3, <2>6 DEF SaysRest
  <2>8. \A t \in Threads : \/ GoesOn(loop[t], loop'[t])
                           \/ ResetQueued(q, t) /\ \A x \in TextOfOthers(s) : x.of # t
    <3>1. ASSUME NEW t \in Threads, t # s PROVE GoesOn(loop[t], loop'[t])
      BY <1>7, <1>12, <3>1 DEF GoesOn
    <3>. QED  BY <1>10, <2>6, <3>1
  <2>9. Serves(rest, Running \ {s}, q, TextOfOthers(s))
    BY <1>12, <2>2, <2>4
  <2>10. Served(rest)
    BY <1>1, <1>6, <1>10, <2>6, <2>7, <2>8, <2>9, ServeKeeps
  <2>11. stored' \in StoreState /\ Running' \subseteq stored'.made /\ rest.current \in stored'.made \cup {NoThread}
    BY <1>1, <1>6, <1>11, <1>12, <2>1 DEF MadeInv, KernelTypeOK
  <2>. QED  BY <1>1, <2>1, <2>10, <2>11, ServedKeeps
<1>13. CASE \E p \in Threads \ stored.made :
              /\ service.pending # NoThread
              /\ stored' = Creates(p, stored.route[service.pending])
              /\ loop' = [gone EXCEPT ![p] = Started(0, TRUE)]
              /\ Serves(rest, {p}, <<ClearStream(s)>> \o notices \o
                        <<Snapshot(service.current, (Running \ {s}) \cup {p})>>, TextOfOthers(s))
  <2>1. PICK p \in Threads \ stored.made :
              /\ service.pending # NoThread
              /\ stored' = Creates(p, stored.route[service.pending])
              /\ loop' = [gone EXCEPT ![p] = Started(0, TRUE)]
              /\ Serves(rest, {p}, <<ClearStream(s)>> \o notices \o
                        <<Snapshot(service.current, (Running \ {s}) \cup {p})>>, TextOfOthers(s))
    BY <1>13
  <2>2. p \in Threads /\ p \notin Running /\ service.pending \in Threads
    BY <1>1, <2>1 DEF MadeInv, ServiceState
  <2>3. stored.route[service.pending] \in RouteValues
    BY <1>1, <2>2 DEF KernelTypeOK, StoreState
  <2>4. stored' \in StoreState /\ stored'.made = stored.made \cup {p}
    BY <1>1, <2>1, <2>2, <2>3, StoreMakes
  <2>5. PICK e : e = Started(0, TRUE)
    OBVIOUS
  <2>6. e \in TaskState /\ e.at = "top"
    BY <2>5, StartedType
  <2>7. loop' = [gone EXCEPT ![p] = e]
    BY <2>1, <2>5
  <2>8. loop' \in LoopType /\ loop'[p] = e /\ \A t \in Threads : t # p => loop'[t] = gone[t]
    BY <1>7, <2>2, <2>6, <2>7 DEF LoopType
  <2>9. Running' = (Running \ {s}) \cup {p}
    BY <1>3, <1>7, <2>2, <2>6, <2>8 DEF Running, NoActive
  <2>10. PICK v : v = Snapshot(service.current, (Running \ {s}) \cup {p})
    OBVIOUS
  <2>11. v \in Updates
    BY <1>11, <2>10, SnapshotUpdate
  <2>12. PICK q : q = <<ClearStream(s)>> \o notices \o <<v>>
    OBVIOUS
  <2>13. ResetThenView(s, v, q)
    BY <1>3, <1>9, <2>11, <2>12, CompletionUpdates
  <2>14. q \in Seq(Updates) /\ ResetQueued(q, s)
    BY <2>13 DEF ResetThenView
  <2>15. Running' = {} => SaysRest(rest.current, q)
    BY <2>9
  <2>16. \A t \in Threads : \/ GoesOn(loop[t], loop'[t])
                            \/ ResetQueued(q, t) /\ \A x \in TextOfOthers(s) : x.of # t
    <3>1. ASSUME NEW t \in Threads, t # s, t # p PROVE GoesOn(loop[t], loop'[t])
      BY <1>7, <2>8, <3>1 DEF GoesOn
    <3>2. GoesOn(loop[p], loop'[p])
      BY <2>2, GoesOnBy DEF Running
    <3>. QED  BY <1>10, <2>14, <3>1, <3>2
  <2>17. Serves(rest, {p}, q, TextOfOthers(s))
    BY <2>1, <2>10, <2>12
  <2>18. Served(rest)
    BY <1>1, <1>6, <1>10, <2>14, <2>15, <2>16, <2>17, ServeKeeps
  <2>19. Running' \subseteq stored'.made /\ rest.current \in stored'.made \cup {NoThread}
    BY <1>1, <1>6, <1>11, <2>4, <2>9 DEF MadeInv
  <2>. QED  BY <1>1, <2>4, <2>8, <2>18, <2>19, ServedKeeps
<1>14. CASE /\ loop' = [t \in Threads |-> NoActive] /\ stored' = stored
            /\ service' = [rest EXCEPT !.at = "failed", !.done = <<>>]
            /\ outbox' = Queued(<<ClearStream(s)>> \o notices, TextOfOthers(s)) /\ channel' = channel
  <2>1. loop' \in LoopType /\ Running' = {}
    BY <1>14 DEF LoopType, Running, NoActive
  <2>2. service' \in ServiceState /\ service'.at = "failed" /\ service'.current = service.current
    <3>1. <<>> \in Seq(Results)
      OBVIOUS
    <3>. QED  BY <1>6, <1>14, <3>1 DEF ServiceState
  <2>3. PICK q : q = <<ClearStream(s)>> \o notices
    OBVIOUS
  <2>4. q \in Seq(Updates)
    <3>1. ClearStream(s) \in Updates
      BY <1>3 DEF ClearStream, Updates
    <3>. QED  BY <1>9, <2>3, <3>1, StartsWith
  <2>5. outbox \in BoxState /\ TextOfOthers(s) \in SUBSET Texts /\ IsFiniteSet(outbox.deltas)
    BY <1>1, <1>10 DEF KernelTypeOK, BoxState
  <2>6. outbox' \in BoxState /\ outbox'.deltas = TextOfOthers(s) /\ (outbox.lost => outbox'.lost)
    BY <1>14, <2>3, <2>4, <2>5, QueuedKeeps
  <2>7. IsFiniteSet(outbox'.deltas)
    BY <1>10, <2>5, <2>6, FS_Subset
  <2>8. KernelTypeOK'
    BY <1>1, <1>14, <2>1, <2>2, <2>6, <2>7 DEF KernelTypeOK, LoopType
  <2>9. MadeInv'
    BY <1>11, <1>14, <2>1, <2>2 DEF MadeInv
  <2>10. ScreenInv'
    BY <1>1, <1>14, <2>2, <2>6 DEF ScreenInv
  <2>. QED  BY <2>8, <2>9, <2>10 DEF KernelInv
<1>. QED  BY <1>8, <1>12, <1>13, <1>14

LEMMA AfterReadType ==
  ASSUME NEW d \in DisplayState, d.open, d.stream # {} => d.of \in Threads, NEW u \in OnTheWay, NEW e, e = AfterRead(d, u)
  PROVE  e \in DisplayState /\ (~e.open => e.stream = {}) /\ (e.stream # {} => e.of \in Threads)
<1>1. d.open \in BOOLEAN /\ d.of \in Threads \cup {NoThread} /\ d.working \in BOOLEAN /\ d.stream \in SUBSET Nat
  BY DEF DisplayState
<1>2. CASE /\ u.type = "view" /\ e.of = u.of /\ e.working = u.working /\ e.open = d.open
           /\ e.stream = IF d.of = u.of THEN d.stream ELSE {}
  <2>1. u \in [type : {"view"}, of : Threads \cup {NoThread}, working : BOOLEAN]
    BY <1>2 DEF OnTheWay, Updates, Texts, Notice
  <2>2. u.of \in Threads \cup {NoThread} /\ u.working \in BOOLEAN
    BY <2>1
  <2>3. e = [d EXCEPT !.of = u.of, !.working = u.working,
                     !.stream = IF d.of = u.of THEN d.stream ELSE {}]
    BY <1>2 DEF AfterRead
  <2>4. e \in DisplayState
    BY <1>1, <2>2, <2>3 DEF DisplayState
  <2>. QED  BY <1>1, <1>2, <2>4
<1>3. CASE /\ u.type = "delta" /\ u.of = d.of
           /\ e.of = d.of /\ e.working = d.working /\ e.open = d.open
           /\ e.stream = d.stream \cup {u.n}
  <2>1. u \in Texts
    BY <1>3 DEF OnTheWay, Updates, Notice
  <2>2. u.n \in Nat /\ u.of \in Threads
    BY <2>1 DEF Texts
  <2>3. e = [d EXCEPT !.stream = d.stream \cup {u.n}]
    BY <1>3 DEF AfterRead
  <2>4. e \in DisplayState
    BY <1>1, <2>2, <2>3 DEF DisplayState
  <2>. QED  BY <1>1, <1>3, <2>2, <2>4
<1>4. CASE /\ u.type = "clear" /\ u.of = d.of /\ e.of = d.of
           /\ e.working = d.working /\ e.open = d.open /\ e.stream = {}
  <2>1. e = [d EXCEPT !.stream = {}]
    BY <1>4 DEF AfterRead
  <2>2. e \in DisplayState
    BY <1>1, <2>1 DEF DisplayState
  <2>. QED  BY <1>4, <2>2
<1>5. CASE e = Closed
  BY <1>5 DEF Closed, DisplayState
<1>6. CASE e = d
  BY <1>1, <1>6
<1>7. ReadCase(d, u, e)
  BY AfterReadCases
<1>. QED  BY <1>2, <1>3, <1>4, <1>5, <1>6, <1>7 DEF ReadCase

LEMMA ReadsKeeps == KernelInv /\ Reads => KernelInv'
<1>. SUFFICES ASSUME KernelInv, Reads PROVE KernelInv'
  OBVIOUS
<1>1. /\ KernelTypeOK /\ MadeInv /\ ScreenInv /\ display.open /\ display \in DisplayState
      /\ channel \in Seq(OnTheWay) /\ channel # <<>> /\ Len(channel) <= ChannelLimit
      /\ outbox \in BoxState
  BY DEF KernelInv, KernelTypeOK, Reads, OnTheWay
<1>2. loop' = loop /\ stored' = stored /\ service' = service /\ outbox' = outbox /\ channel' = Tail(channel)
  BY DEF Reads
<1>3. PICK u : u = channel[1]
  OBVIOUS
<1>4. Len(channel) > 0 /\ u = Head(channel) /\ u \in OnTheWay
  BY <1>1, <1>3
<1>5. display' = AfterRead(display, u)
  BY <1>4 DEF Reads, AfterRead
<1>6. channel' \in Seq(OnTheWay) /\ Len(channel') <= ChannelLimit
  <2>1. channel' \in Seq(OnTheWay) /\ Len(channel') = Len(channel) - 1 /\ Len(channel) \in Nat /\ ChannelLimit \in Nat
    BY <1>1, <1>2, <1>4, KernelAssumption
  <2>. QED  BY <1>1, <2>1
<1>7. /\ display' \in DisplayState /\ (~display'.open => display'.stream = {})
      /\ (display'.stream # {} => display'.of \in Threads)
  <2>1. display.stream # {} => display.of \in Threads
    BY <1>1 DEF ScreenInv
  <2>. QED  BY <1>1, <1>4, <1>5, <2>1, AfterReadType
<1>8. KernelTypeOK'
  BY <1>1, <1>2, <1>6, <1>7 DEF KernelTypeOK, OnTheWay
<1>9. MadeInv' /\ Running' = Running
  BY <1>1, <1>2 DEF MadeInv, Running
<1>10. ASSUME display'.open, ~outbox.lost
       PROVE  /\ StreamInv(channel', display')
              /\ service.at = "select" => TextInv(loop, outbox, channel', display')
  <2>1. StreamInv(channel, display) /\ (service.at = "select" => TextInv(loop, outbox, channel, display))
    BY <1>1, <1>10 DEF ScreenInv
  <2>2. display' = AfterRead(display, channel[1])
    BY <1>3, <1>5
  <2>3. /\ StreamInv(channel, display) => StreamInv(channel', display')
        /\ TextInv(loop, outbox, channel, display) => TextInv(loop, outbox, channel', display')
    <3>1. ReadOn(channel, display, Tail(channel), AfterRead(display, channel[1]))
      BY <1>1, <1>4, <1>10, <2>2, ReadKeepsText
    <3>2. ReadOn(channel, display, channel', display')
      BY <1>2, <2>2, <3>1
    <3>. QED  BY <3>2 DEF ReadOn
  <2>. QED  BY <2>1, <2>3
<1>11. ASSUME display'.open, service.at = "select", Running = {}
       PROVE  LastView(channel' \o outbox.updates, display', View(service.current, FALSE))
  <2>1. PICK v : v = View(service.current, FALSE)
    OBVIOUS
  <2>2. LastView(channel \o outbox.updates, display, v) /\ v.type = "view"
    BY <1>1, <1>11, <2>1 DEF ScreenInv, View
  <2>3. outbox.updates \in Seq(OnTheWay)
    BY <1>1 DEF BoxState, OnTheWay
  <2>4. display' = AfterRead(display, channel[1])
    BY <1>3, <1>5
  <2>5. LastView(Tail(channel) \o outbox.updates, AfterRead(display, channel[1]), v)
    BY <1>1, <1>4, <1>11, <2>2, <2>3, <2>4, ReadKeepsView
  <2>6. LastView(channel' \o outbox.updates, display', v)
    BY <1>2, <2>4, <2>5
  <2>. QED  BY <2>1, <2>6
<1>12. ScreenInv'
  BY <1>2, <1>7, <1>9, <1>10, <1>11 DEF ScreenInv
<1>. QED  BY <1>8, <1>9, <1>12 DEF KernelInv

LEMMA LeavesKeeps == KernelInv /\ Leaves => KernelInv'
<1>. SUFFICES ASSUME KernelInv, Leaves PROVE KernelInv'
  OBVIOUS
<1>1. KernelTypeOK /\ MadeInv
  BY DEF KernelInv
<1>2. loop' = loop /\ stored' = stored /\ service' = service /\ outbox' = outbox /\ channel' = <<>> /\ display' = Closed
  BY DEF Leaves
<1>3. channel' \in Seq(Updates \cup Texts) /\ Len(channel') <= ChannelLimit
  BY <1>2, KernelAssumption
<1>4. display' \in DisplayState /\ display'.open = FALSE /\ display'.stream = {}
  BY <1>2 DEF Closed, DisplayState
<1>5. KernelTypeOK'
  BY <1>1, <1>2, <1>3, <1>4 DEF KernelTypeOK
<1>6. MadeInv'
  BY <1>1, <1>2 DEF MadeInv, Running
<1>7. ScreenInv'
  BY <1>4 DEF ScreenInv
<1>. QED  BY <1>5, <1>6, <1>7 DEF KernelInv
-----------------------------------------------------------------------------
(* The theorem.                                                            *)

LEMMA InitKernel == KernelInit => KernelInv
<1>. SUFFICES ASSUME KernelInit PROVE KernelInv
  OBVIOUS
<1>1. NoThread \notin Threads /\ Existing \subseteq Threads /\ ChannelLimit \in Nat /\ ChannelLimit >= 1
  BY KernelAssumption
<1>2. /\ loop = [s \in Threads |-> NoActive]
      /\ outbox = [updates |-> <<>>, deltas |-> {}, lost |-> FALSE]
      /\ display = [open |-> TRUE, of |-> NoThread, working |-> FALSE, stream |-> {}]
  BY DEF KernelInit
<1>3. PICK route \in [Existing -> Routes] :
        stored = [made |-> Existing, run |-> [a \in Selectable |-> NoThread],
                  route |-> [s \in Threads |-> IF s \in Existing THEN route[s] ELSE NoRoute]]
  BY DEF KernelInit
<1>4. PICK c \in Existing \cup {NoThread} :
        /\ service = [at |-> "select", current |-> c, pending |-> NoThread, quit |-> FALSE,
                      done |-> <<>>, intents |-> 0, started |-> 0]
        /\ channel = <<View(c, FALSE)>>
  BY DEF KernelInit
<1>5. stored \in StoreState /\ stored.made = Existing
  <2>1. \A s \in Threads : (IF s \in Existing THEN route[s] ELSE NoRoute) \in RouteValues
    BY DEF RouteValues
  <2>. QED  BY <1>1, <1>3, <2>1 DEF StoreState
<1>6. service \in ServiceState /\ service.at = "select" /\ service.current = c
  <2>1. <<>> \in Seq(Results)
    OBVIOUS
  <2>. QED  BY <1>1, <1>4, <2>1 DEF ServiceState
<1>7. outbox \in BoxState /\ outbox.updates = <<>> /\ outbox.deltas = {} /\ IsFiniteSet(outbox.deltas)
  <2>1. <<>> \in Seq(Updates)
    OBVIOUS
  <2>2. outbox.deltas = {}
    BY <1>2
  <2>3. IsFiniteSet(outbox.deltas)
    BY <2>2, FS_EmptySet
  <2>. QED  BY <1>2, <2>1, <2>3 DEF BoxState
<1>8. PICK v : v = View(c, FALSE)
  OBVIOUS
<1>9. v \in Updates /\ v.type = "view"
  BY <1>1, <1>8 DEF View, Updates
<1>10. /\ channel \in Seq(OnTheWay) /\ channel \in Seq(Updates) /\ Len(channel) = 1 /\ channel[1] = v
       /\ Len(channel) <= ChannelLimit
  <2>1. channel = <<v>> /\ v \in OnTheWay
    BY <1>4, <1>8, <1>9 DEF OnTheWay
  <2>2. channel \in Seq(OnTheWay) /\ channel \in Seq(Updates) /\ Len(channel) = 1 /\ channel[1] = v
    BY <1>9, <2>1
  <2>. QED  BY <1>1, <2>2
<1>11. Running = {} /\ loop \in LoopType
  BY <1>2 DEF Running, NoActive, LoopType
<1>12. KernelTypeOK
  <2>1. display \in DisplayState
    BY <1>2 DEF DisplayState
  <2>. QED  BY <1>5, <1>6, <1>7, <1>10, <1>11, <2>1 DEF KernelTypeOK, OnTheWay, LoopType
<1>13. MadeInv
  BY <1>5, <1>6, <1>11 DEF MadeInv
<1>14. \A i, s, n : ~Shows(channel, display, i, s, n)
  <2>1. ASSUME NEW i, NEW s, NEW n PROVE ~Shows(channel, display, i, s, n)
    <3>1. display.stream = {}
      BY <1>2
    <3>2. \A k \in 1..Len(channel) : channel[k] = v
      BY <1>10
    <3>3. v # Text(s, n)
      BY <1>9, KindsApart
    <3>. QED  BY <3>1, <3>2, <3>3 DEF Shows
  <2>. QED  BY <2>1
<1>15. StreamInv(channel, display) /\ TextInv(loop, outbox, channel, display)
  BY <1>7, <1>14 DEF StreamInv, TextInv
<1>16. LastView(channel \o outbox.updates, display, v)
  <2>1. PICK q : q = channel \o outbox.updates
    OBVIOUS
  <2>2. outbox.updates \in Seq(OnTheWay) /\ Len(outbox.updates) = 0
    <3>1. outbox.updates = <<>>
      BY <1>7
    <3>. QED  BY <3>1
  <2>3. JoinOf(OnTheWay, channel, outbox.updates, q)
    BY <1>10, <2>1, <2>2, Joined
  <2>4. Len(q) = 1 /\ q[1] = v
    BY <1>10, <2>2, <2>3 DEF JoinOf
  <2>5. LastView(q, display, v)
    BY <2>4 DEF LastView
  <2>. QED  BY <2>1, <2>5
<1>17. ScreenInv
  <2>1. display.stream = {}
    BY <1>2
  <2>. QED  BY <1>6, <1>8, <1>15, <1>16, <2>1 DEF ScreenInv
<1>. QED  BY <1>12, <1>13, <1>17 DEF KernelInv

LEMMA NextKernel == KernelInv /\ [KernelNext]_kernelVars => KernelInv'
<1>. SUFFICES ASSUME KernelInv, [KernelNext]_kernelVars PROVE KernelInv'
  OBVIOUS
<1>1. CASE UNCHANGED kernelVars
  BY <1>1 DEF kernelVars, KernelInv, KernelTypeOK, MadeInv, ScreenInv, Running
<1>2. CASE Completes \/ Tick \/ Quit
  BY <1>2, CompletesKeeps, TickKeeps, QuitKeeps
<1>3. CASE Submit \/ Cancel \/ Select \/ GeneratePane \/ OtherIntent
  BY <1>3, SubmitKeeps, CancelKeeps, SelectKeeps, GeneratePaneKeeps, OtherIntentKeeps
<1>4. CASE \E r \in Routes : ChooseRoute(r)
  BY <1>4, ChooseRouteKeeps
<1>5. CASE \E s \in Threads : TaskStep(s) \/ Streams(s)
  BY <1>5, TaskStepKeeps, StreamsKeeps
<1>6. CASE Reads \/ Leaves
  BY <1>6, ReadsKeeps, LeavesKeeps
<1>7. CASE \E s \in Threads, r \in Routes : SiblingMoves(s, r)
  BY <1>7, SiblingMovesKeeps
<1>. QED  BY <1>1, <1>2, <1>3, <1>4, <1>5, <1>6, <1>7 DEF KernelNext

\* With nothing on its way the screen has the last word.
LEMMA KernelInvTells == KernelInv => DisplayTellsTruth
<1>. SUFFICES ASSUME KernelInv PROVE DisplayTellsTruth
  OBVIOUS
<1>1. /\ KernelTypeOK /\ ScreenInv /\ display.stream \in SUBSET Nat /\ (display.stream # {} => display.of \in Threads)
      /\ channel \in Seq(OnTheWay) /\ Len(channel) \in Nat
  <2>1. KernelTypeOK /\ ScreenInv
    BY DEF KernelInv
  <2>2. channel \in Seq(OnTheWay)
    BY <2>1 DEF KernelTypeOK, OnTheWay
  <2>3. Len(channel) \in Nat
    BY <2>2
  <2>4. display.stream \in SUBSET Nat
    BY <2>1 DEF KernelTypeOK, DisplayState
  <2>. QED  BY <2>1, <2>2, <2>3, <2>4 DEF ScreenInv
<1>2. ASSUME ~outbox.lost PROVE Cardinality(display.stream) <= 1
  <2>1. CASE display.stream = {}
    <3>1. Cardinality(display.stream) = 0
      BY <2>1, FS_EmptySet
    <3>. QED  BY <3>1
  <2>2. CASE display.stream # {}
    <3>1. PICK m : m \in display.stream
      BY <2>2
    <3>2. display.open /\ StreamInv(channel, display) /\ display.of \in Threads
      BY <1>1, <1>2, <2>2 DEF ScreenInv
    <3>3. ASSUME NEW n \in display.stream PROVE n = m
      <4>1. Shows(channel, display, 0, display.of, m) /\ Shows(channel, display, 0, display.of, n)
        BY <3>1 DEF Shows
      <4>2. 0 \in 0..Len(channel) /\ 0 <= 0 /\ m \in Nat /\ n \in Nat
        BY <1>1, <3>1
      <4>3. m # n => ResetBefore(channel, 0, 0, display.of)
        BY <3>2, <4>1, <4>2 DEF StreamInv
      <4>4. ~ResetBefore(channel, 0, 0, display.of)
        BY DEF ResetBefore
      <4>. QED  BY <4>3, <4>4
    <3>4. display.stream = {m}
      BY <3>1, <3>3
    <3>5. Cardinality(display.stream) = 1
      BY <3>4, FS_Singleton
    <3>. QED  BY <3>5
  <2>. QED  BY <2>1, <2>2
<1>3. ASSUME service.at = "select", Running = {}, outbox.updates = <<>>, channel = <<>>, display.open
      PROVE  /\ display.of = service.current /\ ~display.working
             /\ ~outbox.lost => display.stream = {}
  <2>1. PICK v : v = View(service.current, FALSE)
    OBVIOUS
  <2>2. LastView(channel \o outbox.updates, display, v)
    BY <1>1, <1>3, <2>1 DEF ScreenInv
  <2>3. PICK q : q = channel \o outbox.updates
    OBVIOUS
  <2>4. Len(q) = 0
    BY <1>3, <2>3
  <2>5. display.of = v.of /\ display.working = v.working
    BY <2>2, <2>3, <2>4 DEF LastView
  <2>6. display.of = service.current /\ display.working = FALSE
    BY <2>1, <2>5 DEF View
  <2>7. ASSUME ~outbox.lost, display.stream # {} PROVE FALSE
    <3>1. PICK m : m \in display.stream
      BY <2>7
    <3>2. PICK s : s = display.of
      OBVIOUS
    <3>3. TextInv(loop, outbox, channel, display) /\ s \in Threads /\ m \in Nat
      BY <1>1, <1>3, <2>7, <3>1, <3>2 DEF ScreenInv
    <3>4. Len(channel) = 0 /\ Len(outbox.updates) = 0
      BY <1>3
    <3>5. ~Reset(channel, outbox.updates, 0, s)
      BY <3>4 DEF Reset, ResetBefore, ResetQueued
    <3>6. Shows(channel, display, 0, s, m) /\ 0 \in 0..Len(channel)
      BY <3>1, <3>2, <3>4 DEF Shows
    <3>7. OfTask(loop[s], m)
      BY <3>3, <3>5, <3>6 DEF TextInv
    <3>. QED  BY <1>3, <3>3, <3>7 DEF OfTask, Running
  <2>. QED  BY <2>6, <2>7
<1>. QED  BY <1>2, <1>3 DEF DisplayTellsTruth

\* The text on the screen is never that of two tasks of a session, and the screen
\* comes to show the selected session at rest, however the updates were queued,
\* dropped, sent and read, unless a full outbox lost a reset.
THEOREM ScreenTellsTruth == KernelSpec => []DisplayTellsTruth
<1>1. KernelSpec => []KernelInv
  BY InitKernel, NextKernel, PTL DEF KernelSpec
<1>. QED  BY <1>1, KernelInvTells, PTL
=============================================================================
