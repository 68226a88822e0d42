------------------------------ MODULE XcbRunner ------------------------------
(***************************************************************************)
(* A task or a metadata probe of the native xcb, from the moment a         *)
(* terminal takes it on to the moment its run is settled or abandoned      *)
(* (crates/xcb-runtime/src/runner.rs), against the shared store, the       *)
(* provider process it launches, and the recover command of another        *)
(* process (crates/xcb-cli/src/main.rs).                                   *)
(*                                                                         *)
(* A terminal is one worker with its own program counter; every store call *)
(* and every await is a step of its own, so other terminals, the recover   *)
(* command, the death of the provider and the death of the terminal come   *)
(* between any two of them.                                                *)
(***************************************************************************)
EXTENDS XcbStore

CONSTANTS
  Terminals,    \* workers of terminal processes
  Operators,    \* xcb recover commands
  NoCall,
  Outcomes,     \* how a provider's turn may end
  MaxRevision,  \* no task or rebind starts from this revision on, and
  MaxPane       \* no pane change from this one; a run's writes are unbounded

ASSUME RunnerAssumption ==
  /\ NoCall \notin Calls
  /\ Outcomes \subseteq {"Completed", "Failed", "Cancelled"}
  /\ {MaxRevision, MaxPane} \subseteq Nat

VARIABLES
  pc,           \* where each terminal is
  cur,          \* the run it has prepared, or NoRun
  mem,          \* what else it remembers, see Memory
  provider,     \* provider process (group) of each run
  files,        \* launch directory of each run
  opPc, opRun,  \* each recover command and its candidate
  said,         \* history: the final texts each joined run had to store
  recovered     \* history: the runs settled by recover_run

runner == << pc, cur, mem, provider, files, opPc, opRun, said, recovered >>
vars   == << store, runner >>

EffectState == { "None", "Settled", "Uncertain" }
Terminal    == { "Completed", "Failed", "Cancelled" }
Memory == [ session  : Sessions \cup {NoSession},
            account  : Accounts \cup {NoAccount},
            revision : Nat,
            call     : Calls \cup {NoCall},
            effects  : EffectState,
            outcome  : Terminal,
            pending  : SUBSET Roles ]
Blank == [ session |-> NoSession, account |-> NoAccount, revision |-> 0,
           call |-> NoCall, effects |-> "None", outcome |-> "Failed",
           pending |-> {} ]

\* A terminal at one of these has no run yet.
NoRunPcs == { "idle", "dead", "submitting", "launching", "probing",
              "creating", "rebinding" }
\* At these its provider may run.
LaunchedPcs == { "spawned", "executing", "inserting", "calling", "recording",
                 "noting", "appending", "stopping" }
\* At these process.join() has proved that the provider is gone.
JoinedPcs == { "joined", "answering", "settling" }
Pcs == NoRunPcs \cup {"prepared"} \cup LaunchedPcs \cup JoinedPcs

TypeOK ==
  /\ StoreTypeOK
  /\ pc        \in [Terminals -> Pcs]
  /\ cur       \in [Terminals -> Runs \cup {NoRun}]
  /\ mem       \in [Terminals -> Memory]
  /\ provider  \in [Runs -> {"none", "alive", "gone"}]
  /\ files     \in [Runs -> {"none", "kept", "removed"}]
  /\ opPc      \in [Operators -> {"idle", "candidate", "proved"}]
  /\ opRun     \in [Operators -> Runs \cup {NoRun}]
  /\ \A o \in Operators : opPc[o] # "idle" => opRun[o] \in Runs
  /\ said      \in [Runs -> SUBSET Roles]
  /\ recovered \in SUBSET Runs

Init ==
  /\ StoreInit
  /\ pc        = [t \in Terminals |-> "idle"]
  /\ cur       = [t \in Terminals |-> NoRun]
  /\ mem       = [t \in Terminals |-> Blank]
  /\ provider  = [r \in Runs |-> "none"]
  /\ files     = [r \in Runs |-> "none"]
  /\ opPc      = [o \in Operators |-> "idle"]
  /\ opRun     = [o \in Operators |-> NoRun]
  /\ said      = [r \in Runs |-> {}]
  /\ recovered = {}

operator == << opPc, opRun >>
world    == << provider, files >>
history  == << said, recovered >>

Goto(t, from, to) == pc[t] = from /\ pc' = [pc EXCEPT ![t] = to]

\* The task function returns, with an outcome or an error, and forgets all.
Return(t) ==
  /\ pc'  = [pc EXCEPT ![t] = "idle"]
  /\ cur' = [cur EXCEPT ![t] = NoRun]
  /\ mem' = [mem EXCEPT ![t] = Blank]

\* execution ends early with an error: the run fails, and is then stopped.
FailTurn(t) ==
  /\ pc'  = [pc EXCEPT ![t] = "stopping"]
  /\ mem' = [mem EXCEPT ![t].outcome = "Failed", ![t].call = NoCall]
  /\ UNCHANGED cur

Remember(t, s, a, rev) ==
  mem' = [mem EXCEPT ![t].session = s, ![t].account = a, ![t].revision = rev]

-----------------------------------------------------------------------------
(***************************************************************************)
(* Commands that prepare no run: one transaction each, after a read of the *)
(* account where the code makes that read outside the transaction.         *)
(***************************************************************************)
AddAccount(a) == AddAccountTx(a) /\ UNCHANGED runner

SetAccountEnabled(a, to) == SetAccountEnabledTx(a, to) /\ UNCHANGED runner

SelectPane(s) ==
  revision[s] < MaxPane /\ SelectPaneTx(s) /\ UNCHANGED runner

RemoveSession(s) == RemoveSessionTx(s) /\ UNCHANGED runner

\* self.account(id) finds the account enabled; the transaction comes later.
ReadAccount(t, to, s, rev, a) ==
  /\ standing[a] = "enabled"
  /\ Goto(t, "idle", to)
  /\ Remember(t, s, a, rev)
  /\ UNCHANGED << store, cur, world, operator, history >>

BeginCreate(t, a) == ReadAccount(t, "creating", NoSession, 0, a)

CreateSession(t, s) ==
  /\ pc[t] = "creating"
  /\ CreateSessionTx(s, mem[t].account)
  /\ Return(t)
  /\ UNCHANGED << world, operator, history >>

BeginRebind(t, s, a) ==
  Exists(s) /\ ReadAccount(t, "rebinding", s, revision[s], a)

Rebind(t) ==
  /\ pc[t] = "rebinding"
  /\ mem[t].revision < MaxRevision
  /\ RebindTx(mem[t].session, mem[t].revision, mem[t].account)
  /\ Return(t)
  /\ UNCHANGED << world, operator, history >>

-----------------------------------------------------------------------------
(***************************************************************************)
(* A task: the session is read, the user's message appended on top of that *)
(* revision, the launch prepared, the run prepared on top of the next one. *)
(***************************************************************************)
LoadSession(t, s) ==
  /\ Exists(s)
  /\ revision[s] < MaxRevision
  /\ Goto(t, "idle", "submitting")
  /\ Remember(t, s, NoAccount, revision[s])
  /\ UNCHANGED << store, cur, world, operator, history >>

AppendUser(t) ==
  /\ Goto(t, "submitting", "launching")
  /\ AppendMessageTx(mem[t].session, mem[t].revision)
  /\ mem' = [mem EXCEPT ![t].revision = @ + 1]
  /\ UNCHANGED << cur, world, operator, history >>

\* The launch directory and the bridge exist before the run does.
Prepared(t, r) ==
  /\ pc'    = [pc EXCEPT ![t] = "prepared"]
  /\ cur'   = [cur EXCEPT ![t] = r]
  /\ files' = [files EXCEPT ![r] = "kept"]
  /\ UNCHANGED << mem, provider, operator, history >>

PrepareRun(t, r) ==
  /\ pc[t] = "launching"
  /\ PrepareRunTx(r, mem[t].session, mem[t].revision)
  /\ Prepared(t, r)

BeginProbe(t, a) == ReadAccount(t, "probing", NoSession, 0, a)

PrepareProbe(t, r) ==
  /\ pc[t] = "probing"
  /\ PrepareProbeTx(r, mem[t].account)
  /\ Prepared(t, r)

\* A refused or failed call before there is a run: the launch is discarded.
Refused(t) ==
  /\ pc[t] \in {"creating", "rebinding", "submitting", "launching", "probing"}
  /\ Return(t)
  /\ UNCHANGED << store, world, operator, history >>

-----------------------------------------------------------------------------
(***************************************************************************)
(* Launch.                                                                 *)
(***************************************************************************)
SpawnProcess(t) ==
  /\ Goto(t, "prepared", "spawned")
  /\ provider' = [provider EXCEPT ![cur[t]] = "alive"]
  /\ UNCHANGED << store, cur, mem, files, operator, history >>

\* No child was ever created and the bridge has closed: the one error after
\* prepare_run that gives the account back.
LaunchNotStarted(t) ==
  /\ pc[t] = "prepared"
  /\ SettleTx(cur[t], "Failed")
  /\ files' = [files EXCEPT ![cur[t]] = "removed"]
  /\ Return(t)
  /\ UNCHANGED << provider, operator, history >>

\* The bridge did not close, that settle failed, or the error came after the
\* child existed: custody stays where it is.
LaunchAbandoned(t) ==
  /\ pc[t] = "prepared"
  /\ \E child \in {"none", "alive"} :
       provider' = [provider EXCEPT ![cur[t]] = child]
  /\ Return(t)
  /\ UNCHANGED << store, files, operator, history >>

MarkSpawned(t) ==
  /\ Goto(t, "spawned", "executing")
  /\ MarkSpawnedTx(cur[t])
  /\ UNCHANGED << cur, mem, world, operator, history >>

-----------------------------------------------------------------------------
(***************************************************************************)
(* A tool call of an admitted turn.  From the lease check to the appended  *)
(* message the worker does not await, so neither cancellation nor the      *)
(* deadline comes between these steps; other processes do.                 *)
(***************************************************************************)
BeginTool(t, c) ==
  /\ Goto(t, "executing", "inserting")
  /\ runSession[cur[t]] # NoSession
  /\ receipt[cur[t]][c] = "none"
  /\ HeldBy(runAccount[cur[t]], cur[t])
  /\ mem' = [mem EXCEPT ![t].call = c]
  /\ UNCHANGED << store, cur, world, operator, history >>

RecordTool(t) ==
  /\ Goto(t, "inserting", "calling")
  /\ InsertReceipt(cur[t], mem[t].call)
  /\ UNCHANGED << cur, mem, world, operator, history >>

\* The effects a turn is left with by a call whose receipt is settled.
Merge(previous, observed) ==
  IF previous = "Uncertain" THEN "Uncertain"
  ELSE IF observed = "Settled" THEN "Settled"
  ELSE previous

\* workspace.call_observed, then the first half of settle_tool_effects: an
\* uncertain effect keeps its receipt open and goes on, a known one has yet
\* to be recorded.
CallTool(t) ==
  /\ pc[t] = "calling"
  /\ \E observed \in EffectState :
       IF observed = "Uncertain"
         THEN /\ pc'  = [pc EXCEPT ![t] = "noting"]
              /\ mem' = [mem EXCEPT ![t].effects = "Uncertain"]
         ELSE /\ pc'  = [pc EXCEPT ![t] = "recording"]
              /\ mem' = [mem EXCEPT ![t].effects = Merge(@, observed)]
  /\ UNCHANGED << store, cur, world, operator, history >>

SettleTool(t) ==
  /\ Goto(t, "recording", "noting")
  /\ SettleToolTx(cur[t], mem[t].call)
  /\ UNCHANGED << cur, mem, world, operator, history >>

\* Mutant: a failed receipt write forgets what the call may have done.
SettleToolFailsCertain(t) ==
  /\ pc[t] = "recording"
  /\ FailTurn(t)
  /\ UNCHANGED << store, world, operator, history >>

\* The receipt could not be written: what the call did counts as unknown.
SettleToolFails(t) ==
  /\ pc[t] = "recording"
  /\ pc'  = [pc EXCEPT ![t] = "stopping"]
  /\ mem' = [mem EXCEPT ![t].effects = "Uncertain",
                        ![t].outcome = "Failed", ![t].call = NoCall]
  /\ UNCHANGED << store, cur, world, operator, history >>

\* The session is read again for the revision its tool message goes on.
ReadRevision(t, from, to) ==
  /\ Goto(t, from, to)
  /\ Exists(runSession[cur[t]])
  /\ mem' = [mem EXCEPT ![t].revision = revision[runSession[cur[t]]]]
  /\ UNCHANGED << store, cur, world, operator, history >>

ReadForTool(t) == ReadRevision(t, "noting", "appending")

AppendTool(t) ==
  /\ Goto(t, "appending", "executing")
  /\ AppendMessageTx(runSession[cur[t]], mem[t].revision)
  /\ mem' = [mem EXCEPT ![t].call = NoCall]
  /\ UNCHANGED << cur, world, operator, history >>

\* Mutant: a refused store call is tried again from the top of the turn.
ExecutionErrorRetried(t) ==
  /\ pc[t] \in {"spawned", "inserting", "noting", "appending"}
  /\ pc' = [pc EXCEPT ![t] = "executing"]
  /\ UNCHANGED << store, cur, mem, world, operator, history >>

\* Any store call of the execution may be refused or fail (a conflict, the
\* busy timeout, a limit); the turn fails and the provider is stopped.
\* (From "executing" the same end is Finish(t, "Failed").)
ExecutionError(t) ==
  /\ pc[t] \in {"spawned", "inserting", "noting", "appending"}
  /\ FailTurn(t)
  /\ UNCHANGED << store, world, operator, history >>

\* The terminal result, cancellation, the deadline, a protocol error, or a
\* tool call that is refused.
Finish(t, outcome) ==
  /\ Goto(t, "executing", "stopping")
  /\ mem' = [mem EXCEPT ![t].outcome = outcome]
  /\ UNCHANGED << store, cur, world, operator, history >>

-----------------------------------------------------------------------------
(***************************************************************************)
(* The end of a run.                                                       *)
(***************************************************************************)
\* Both joins succeed: the process group is gone and the bridge closed.  The
\* texts that were streamed are what the run has to store.
Join(t) ==
  /\ Goto(t, "stopping", "joined")
  /\ provider' = [provider EXCEPT ![cur[t]] = "gone"]
  /\ \E texts \in SUBSET Roles :
       /\ runSession[cur[t]] = NoSession => texts = {}
       /\ mem'  = [mem EXCEPT ![t].pending = texts]
       /\ said' = [said EXCEPT ![cur[t]] = texts]
  /\ UNCHANGED << store, cur, files, operator, recovered >>

\* Mutant: the launch directory goes with the task, joined or not.
JoinUnprovenCleanup(t) ==
  /\ pc[t] = "stopping"
  /\ files' = [files EXCEPT ![cur[t]] = "removed"]
  /\ Return(t)
  /\ UNCHANGED << store, provider, operator, history >>

\* The kill was sent but the stop is unproven: custody is retained.
JoinUnproven(t) ==
  /\ pc[t] = "stopping"
  /\ Return(t)
  /\ UNCHANGED << store, world, operator, history >>

NextRole(pending) == IF "thinking" \in pending THEN "thinking" ELSE "assistant"

ReadForAnswer(t) ==
  mem[t].pending # {} /\ ReadRevision(t, "joined", "answering")

AppendAnswer(t) ==
  LET role == NextRole(mem[t].pending) IN
  /\ Goto(t, "answering", "joined")
  /\ AppendFinalTx(runSession[cur[t]], mem[t].revision, cur[t], role)
  /\ mem' = [mem EXCEPT ![t].pending = @ \ {role}]
  /\ UNCHANGED << cur, world, operator, history >>

\* Mutant: settle whether or not the answer has been stored.
FinishAnswersEarly(t) ==
  /\ mem[t].effects # "Uncertain"
  /\ Goto(t, "joined", "settling")
  /\ UNCHANGED << store, cur, mem, world, operator, history >>

\* A probe and a task with known effects go on to settle; a task whose
\* effects are uncertain returns with its run unsettled.
FinishAnswers(t) ==
  /\ mem[t].pending = {}
  /\ mem[t].effects # "Uncertain"
  /\ Goto(t, "joined", "settling")
  /\ UNCHANGED << store, cur, mem, world, operator, history >>

ReturnUncertain(t) ==
  /\ pc[t] = "joined"
  /\ mem[t].pending = {}
  /\ mem[t].effects = "Uncertain"
  /\ Return(t)
  /\ UNCHANGED << store, world, operator, history >>

\* classify() of a joined turn with known effects; the states that ask for
\* the user's attention are folded into Idle.  A probe settles as Idle.
Classify(outcome) ==
  CASE outcome = "Cancelled" -> "Cancelled"
    [] outcome = "Failed"    -> "Failed"
    [] OTHER                 -> "Idle"

Settle(t) ==
  /\ pc[t] = "settling"
  /\ SettleTx(cur[t], Classify(mem[t].outcome))
  /\ files' = [files EXCEPT ![cur[t]] = "removed"]
  /\ Return(t)
  /\ UNCHANGED << provider, operator, history >>

\* Appending, recording usage or settling fails: the error is returned and
\* the run stays as it is.
JoinedError(t) ==
  /\ pc[t] \in JoinedPcs
  /\ Return(t)
  /\ UNCHANGED << store, world, operator, history >>

-----------------------------------------------------------------------------
(***************************************************************************)
(* The environment: processes end, and people run xcb recover.             *)
(***************************************************************************)
ProviderExits(r) ==
  /\ provider[r] = "alive"
  /\ provider' = [provider EXCEPT ![r] = "gone"]
  /\ UNCHANGED << store, pc, cur, mem, files, operator, history >>

\* The terminal process is killed; whatever it launched may outlive it.
Crash(t) ==
  /\ pc[t] # "dead"
  /\ pc'  = [pc EXCEPT ![t] = "dead"]
  /\ cur' = [cur EXCEPT ![t] = NoRun]
  /\ mem' = [mem EXCEPT ![t] = Blank]
  /\ UNCHANGED << store, world, operator, history >>

RecoveryCandidate(o, r) ==
  /\ opPc[o] = "idle"
  /\ phase[r] = "running"
  /\ opPc'  = [opPc EXCEPT ![o] = "candidate"]
  /\ opRun' = [opRun EXCEPT ![o] = r]
  /\ UNCHANGED << store, pc, cur, mem, world, history >>

\* Mutant: recovery trusts the operator instead of the process table.
ProveNothing(o) ==
  /\ opPc[o] = "candidate"
  /\ opPc' = [opPc EXCEPT ![o] = "proved"]
  /\ UNCHANGED << store, pc, cur, mem, world, opRun, history >>

ProveGroupAbsent(o) ==
  /\ opPc[o] = "candidate"
  /\ provider[opRun[o]] # "alive"
  /\ opPc' = [opPc EXCEPT ![o] = "proved"]
  /\ UNCHANGED << store, pc, cur, mem, world, opRun, history >>

OperatorDone(o) ==
  /\ opPc'  = [opPc EXCEPT ![o] = "idle"]
  /\ opRun' = [opRun EXCEPT ![o] = NoRun]

RecoverRun(o) ==
  /\ opPc[o] = "proved"
  /\ RecoverRunTx(opRun[o])
  /\ recovered' = recovered \cup {opRun[o]}
  /\ OperatorDone(o)
  /\ UNCHANGED << pc, cur, mem, world, said >>

\* The process is still there, the record changed, or the store refused.
RecoverRefused(o) ==
  /\ opPc[o] # "idle"
  /\ OperatorDone(o)
  /\ UNCHANGED << store, pc, cur, mem, world, history >>

-----------------------------------------------------------------------------
\* Steps a terminal takes by itself once it has taken something on.
Step(t) ==
  \/ \E s \in Sessions : CreateSession(t, s)
  \/ Rebind(t) \/ AppendUser(t) \/ Refused(t)
  \/ \E r \in Runs : PrepareRun(t, r) \/ PrepareProbe(t, r)
  \/ SpawnProcess(t) \/ LaunchNotStarted(t) \/ LaunchAbandoned(t)
  \/ MarkSpawned(t)
  \/ \E c \in Calls : BeginTool(t, c)
  \/ RecordTool(t) \/ CallTool(t) \/ SettleTool(t) \/ SettleToolFails(t)
  \/ ReadForTool(t) \/ AppendTool(t) \/ ExecutionError(t)
  \/ \E outcome \in Outcomes : Finish(t, outcome)
  \/ Join(t) \/ JoinUnproven(t) \/ ReadForAnswer(t) \/ AppendAnswer(t)
  \/ FinishAnswers(t) \/ ReturnUncertain(t) \/ Settle(t) \/ JoinedError(t)

\* What a person or a crash may do at any time.
Request(t) ==
  \/ \E s \in Sessions : LoadSession(t, s)
  \/ \E a \in Accounts : BeginCreate(t, a) \/ BeginProbe(t, a)
  \/ \E s \in Sessions, a \in Accounts : BeginRebind(t, s, a)
  \/ Crash(t)

Administer ==
  \/ \E a \in Accounts : AddAccount(a)
  \/ \E a \in Accounts, to \in {"enabled", "disabled"} : SetAccountEnabled(a, to)
  \/ \E s \in Sessions : SelectPane(s) \/ RemoveSession(s)

Recover(o) ==
  \/ \E r \in Runs : RecoveryCandidate(o, r)
  \/ ProveGroupAbsent(o) \/ RecoverRun(o) \/ RecoverRefused(o)

Next ==
  \/ \E t \in Terminals : Step(t) \/ Request(t)
  \/ \E o \in Operators : Recover(o)
  \/ \E r \in Runs : ProviderExits(r)
  \/ Administer

Spec == Init /\ [][Next]_vars

-----------------------------------------------------------------------------
(***************************************************************************)
(* Safety.                                                                 *)
(***************************************************************************)
\* The leases table and the phases of the runs table say the same thing: a
\* run holds the account it was prepared on exactly while it is unsettled,
\* and so no account has two unsettled runs.  The two tables are written by
\* prepare_run, prepare_probe, settle and recover_run of any process.
LeaseMatchesRuns ==
  \A r \in Runs, a \in Accounts :
    lease[a] = r <=> Unsettled(r) /\ runAccount[r] = a

\* Whoever crashes, gives up or recovers: as long as the provider process of
\* a run exists, that run still has its account, so two providers never use
\* one account ("Cancellation joins the owned process before releasing
\* custody", README.md).
ProviderHoldsAccount ==
  \A r \in Runs :
    provider[r] = "alive" =>
      \E a \in Accounts : runAccount[r] = a /\ lease[a] = r

\* A session is Working exactly while one of its runs is unsettled, and it
\* stays on the account that run holds: rebind, remove_session and the
\* settlement of other runs never come between.
WorkingMeansBusy ==
  \A s \in Sessions :
    /\ state[s] = "Working" <=> SessionBusy(s)
    /\ \A r \in Runs :
         runSession[r] = s /\ Unsettled(r) => bound[s] = runAccount[r]

\* A terminal never settles its own run while a tool receipt of it is open;
\* only the explicit recovery does ("a missing tool receipt and prior
\* uncertainty never release effect custody", a test of runner.rs).
EffectsKeepCustody ==
  \A r \in Runs :
    phase[r] = "settled" /\ r \notin recovered =>
      \A c \in Calls : receipt[r][c] # "begun"

\* What the provider said before it was joined is in the session's transcript
\* by the time the account is free for another run.
AnswersStored ==
  \A r \in Runs :
    phase[r] = "settled" /\ r \notin recovered => said[r] \subseteq transcript[r]

\* Launch snapshots are disposable only before spawn or after independent
\* process-join evidence and settled effects (LaunchArtifacts, runner.rs);
\* after a recovery they are kept.
FilesOutliveProvider ==
  \A r \in Runs :
    files[r] = "removed" =>
      /\ provider[r] # "alive"
      /\ phase[r] \in {"settled", "removed"}
      /\ r \notin recovered
      /\ \A c \in Calls : receipt[r][c] # "begun"

\* The promise made to the user of an account, AccountCustody, is kept.
Custody == INSTANCE AccountCustody WITH
  holder <- lease,
  live   <- { r \in Runs : provider[r] = "alive" },
  used   <- { r \in Runs : phase[r] # "absent" }

CustodyKept == Custody!CustodySpec

(***************************************************************************)
(* Why custody is kept: the inductive invariant behind LeaseMatchesRuns    *)
(* and ProviderHoldsAccount (see XcbRunnerProofs).                         *)
(***************************************************************************)
RunSound(r) ==
  /\ phase[r] = "absent" => runSession[r] = NoSession /\ provider[r] = "none"
  /\ phase[r] # "absent" => runAccount[r] \in Accounts
  /\ provider[r] = "alive" => Unsettled(r)

\* What a terminal knows of the run it prepared, although recovery may have
\* settled it and the session may be gone.
TerminalSound(t) ==
  /\ pc[t] \in NoRunPcs <=> cur[t] = NoRun
  /\ pc[t] \notin NoRunPcs => phase[cur[t]] # "absent"
  /\ pc[t] = "prepared" =>
       phase[cur[t]] = "prepared" /\ provider[cur[t]] = "none"
  /\ pc[t] \in JoinedPcs => provider[cur[t]] = "gone"
  /\ pc[t] \in {"creating", "probing", "rebinding"} => mem[t].account \in Accounts

\* No run is driven by two terminals.
OwnRuns ==
  \A t, u \in Terminals : cur[t] = cur[u] /\ cur[t] # NoRun => t = u

\* The evidence a recover command has stays true while it acts on it.
OperatorSound(o) ==
  opPc[o] # "idle" =>
    /\ phase[opRun[o]] \notin {"absent", "prepared"}
    /\ opPc[o] = "proved" => provider[opRun[o]] # "alive"

\* The tables, the processes, the terminals and the recover commands agree on
\* who has which account, at every step of prepare, spawn, join, settle,
\* recovery and crash.
CustodyInv ==
  /\ LeaseMatchesRuns
  /\ \A r \in Runs : RunSound(r)
  /\ \A s \in Sessions : Exists(s) => bound[s] \in Accounts
  /\ \A t \in Terminals : TerminalSound(t)
  /\ OwnRuns
  /\ \A o \in Operators : OperatorSound(o)

-----------------------------------------------------------------------------
(***************************************************************************)
(* Two things the refusals of the store suggest and its statements do not  *)
(* guarantee.                                                              *)
(***************************************************************************)
\* "tool run no longer owns the account" (begin_tool): a tool receipt is
\* opened only by the run that holds the account.
ToolsUnderCustody ==
  [][\A r \in Runs, c \in Calls :
       receipt[r][c] = "none" /\ receipt'[r][c] = "begun" =>
         HeldBy(runAccount[r], r)]_vars

\* "account is disabled" (prepare_run, prepare_probe) and "account has an
\* unsettled run" (set_account_enabled): no disabled account is held.
DisabledIsFree ==
  \A a \in Accounts : standing[a] = "disabled" => lease[a] = NoRun

-----------------------------------------------------------------------------
(***************************************************************************)
(* Liveness.  A worker that is alive goes on: every await of a run is      *)
(* bounded by the deadline of the turn or of the joins.  Nothing is        *)
(* assumed of people, providers or crashes, except that a recover command  *)
(* ends and that somebody keeps trying to recover what can be recovered,   *)
(* with a store that answers.                                              *)
(***************************************************************************)
FairSpec ==
  /\ Spec
  /\ \A t \in Terminals : WF_vars(Step(t))
  /\ \A o \in Operators :
       /\ \A r \in Runs : SF_vars(RecoveryCandidate(o, r))
       /\ SF_vars(ProveGroupAbsent(o))
       /\ SF_vars(RecoverRun(o))
       /\ WF_vars(RecoverRefused(o))

\* A worker that has taken something on ends it, one way or another.
TurnsEnd == \A t \in Terminals : pc[t] \notin {"idle", "dead"} ~> pc[t] \in {"idle", "dead"}

\* A run that was recorded as running is not stuck once its provider is gone:
\* its terminal settles it, or recovery can.
RunningIsRecoverable ==
  \A r \in Runs :
    phase[r] = "running" /\ provider[r] = "gone" ~> phase[r] # "running"
=============================================================================
