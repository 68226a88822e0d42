# Verification of agentmixer / xcb

TLA+ models of the parts of this repository that decide who may use a provider
account, and of the services around them: sign-in, provider sessions, tools,
release, files. They are checked with TLC on small instances and, for custody
and most of what guards it, proved with TLAPS for any number of accounts,
sessions, runs and processes.

Paths below are relative to the repository root (`crates/...` is the native Rust
program, `src/...` the TypeScript package). `PROJECT.json` names, for every
definition of the models, the lines of code it stands for (`map`), and lists
components, runs, mutants, findings, hazards and theorems.

## 1. The system

xcb runs coding agents (Claude Code, Codex, Devin) on behalf of a user who has
several provider accounts. The repository holds two implementations that share
ideas and no code:

* the **native xcb** (Rust, `crates/`): terminals, a store in one SQLite file,
  provider processes, tools that act on the user's workspace;
* the **TypeScript xcb** (`src/`): a library and a command line with its own
  SQLite lease table, a capability broker and one adapter per provider.

Both make the same promise, *account custody*: one account is used by one run at
a time; the provider process of a run exists only while the run has its
account; an account is given back only when that process is known to be gone,
never because a clock ran out.

### 1.1 Native components

| component | state it keeps | operations | talks to |
|---|---|---|---|
| store (`store.rs`) | tables accounts, sessions (state, revision, account), messages, runs (phase), leases, tool_effects | create, append_message, rebind, remove_session, select_pane, prepare_run, prepare_probe, mark_spawned, begin_tool, settle_tool, settle, recover_run | SQLite (WAL, `BEGIN IMMEDIATE`), shared by all terminals and commands |
| runner (`runner.rs`) | locals of one `run` or `probe`: run, launch directory, observed effects, outcome, pending final texts | launch, the event loop of a turn, tool calls, joins, final messages, settle | store, process, workspace tools, egress bridge |
| process (`process.rs`) | child, its process group, its pipes | spawn, kill, join with a deadline, proof that a group is absent | operating system |
| recover command (`xcb-cli/src/main.rs`) | candidate run | read candidate, prove the group absent, recover_run | store, process table |
| kernel (`kernel.rs`) | active tasks, a bounded queue of updates, delta buffers | execute (one task, its continuations and failovers), cancel, quit | runner, store, judges, terminal user interface |
| workspace tools (`broker.rs`, `coordination.rs`) | observed file digests, a write lock in SQLite | read, observed write, command | file system, other terminals |
| private files, configuration, panes | files replaced by rename, a revision | load, replace, compare and set | file system |
| egress bridge, sandbox | connections, a close flag | open, relay, close and join | network, operating system |
| judges, context, hooks, summaries, exports | none that outlives a call | requests, projections, formatting | network |
| terminal user interface (`xcb-tui`) | view state | render, key handling | kernel updates |
| `xcb-core` | none | classify a turn, continuation and route policies, usage counters | called by all |

### 1.2 TypeScript components

| component | state it keeps | operations | talks to |
|---|---|---|---|
| lease table (`accounts.ts`) | one row per account: owner, generation, heartbeat | acquire, release, renew, inspect, recover | SQLite, shared by all hosts |
| task runtime (`task-runtime.ts`) | locals of `runAgentTask`: lease, cancellation reason, the promise of stop | admission, the run, stopOnce, close of the broker, release | lease table, broker, adapter |
| capability broker (`capabilities.ts`) | calls made, calls pending, the tail of the queue, revoked | invoke, revoke, close | tool handlers of the host |
| host turn (`cli/run.ts`) | two attempts | runCliTurn, recoverHeldLease, proveAccountStopped | lease table, task runtime, process table |
| Claude adapter (`claude-task-adapter.ts`, `provider-process.ts`) | one slot per task, the active task, a launch directory, the child and its group | run, stop, stopAndJoin | Agent SDK, operating system |
| single-call runtime (`runtime.ts`) | retained custody | run, cleanup | lease table, model runners |
| managed Codex account (`managed-account.ts`, `codex-account*.ts`) | controller generation, login, close evidence; requests in flight | start, read, login, close | one child process over JSON lines |
| managed Codex runtime, Codex sessions, Devin | sessions, ledgers, relays | turn, interrupt, close | child processes |
| egress, browser, sandbox, private files, process writes | connections, queues | open, write, close | operating system |
| judges, editors, validation, command line | none, or a session file | requests, parsing, printing | network, terminal |

### 1.3 What is hard in it

* **Several processes, one database.** Every terminal, every `xcb` command and
  every host is a process of its own. Transactions are atomic; what lies between
  two of them is not.
* **A worker awaits.** Between any two awaits other workers, a recovery, the end
  of the provider, an abort or a crash may come. What was read before may be
  stale after.
* **A provider outlives its owner.** It is a process group of its own; it may
  survive its parent, ignore signals, and outlast the deadline of a join.
* **Ends fail, too.** A join that is unproven, a bridge that does not close, a
  final message or a receipt that cannot be written: each must leave the account
  in the safe state, and the turn must still come back.
* **Recovery is done by somebody else**, on evidence gathered in separate steps,
  while the owner may still be at work or another run may follow.

What makes each modelled component correct:

* store and runner: leases and unsettled runs are two views of one fact; a live
  provider has its account; a session is `Working` exactly while a run of it is
  unsettled and stays on that run's account; answers are in the transcript before
  the account is free; open tool receipts keep custody; launch directories
  outlive providers; a turn ends; a running run whose provider is gone can be
  recovered.
* lease table, task runtime, broker, recovery: a live provider is the current
  holder; a tool handler runs only under its task's lease; a task that was
  cancelled is not reported as completed; a recovery never frees the lease of
  somebody else, even if run ids are used twice.
* Claude adapter: it must keep the promise of the interface (`stop` settles only
  after the join); the launch directory outlives the process; nothing waits for
  itself.
* kernel: the screen tells the truth although its queue drops what it cannot
  hold; a task stops continuing and failing over; a terminal that quits ends.
* managed accounts and their processes: an answer of an earlier generation is
  never published, a lost login never repeated, a lease released only with proof;
  one lock, one process group, one journal, whoever died.
* provider sessions: an honest provider is never accused by an unlucky order of
  its channels, a wild one never completes; "completed" and "stopped" mean it.
* services: an egress tunnel, a browser, a write, a transcript line, a release
  each belong to somebody who may still have them.

## 2. The modules

| module | what it models | lines of code it stands for |
|---|---|---|
| `AccountCustody` | the promise above as an abstract specification: `Acquire`, `Start`, `Stop`, `GiveBack` | none: four components refine it |
| `XcbStore` | the native store, one operator per transaction | `store.rs` |
| `XcbRunner` | terminals that run tasks and probes, provider processes, recover commands, administration; EXTENDS `XcbStore` | `runner.rs`, `process.rs`, `xcb-cli/src/main.rs`, `session.rs`, callers in `kernel.rs` |
| `TaskRuntime` | lease table, `runAgentTask`, broker, host recovery, over any adapter that honours its interface | `accounts.ts`, `task-runtime.ts`, `capabilities.ts`, `cli/run.ts` |
| `ClaudeTask` | the same with the Claude adapter in place of that adapter; EXTENDS `TaskRuntime` | `claude-task-adapter.ts`, `provider-process.ts` |
| `XcbKernel` | the native terminal between its display and the runner: `serve`, the outbox, `execute_inner` with the continuation and route policies | `kernel.rs`, `policy.rs`, `xcb-tui/src/lib.rs` |
| `ManagedAccount` | the controller of a managed account over its request transport | `managed-account.ts`, `codex-account.ts`, `codex-account-transport.ts` |
| `AccountProcess` | lock, journal, directories, launch and join of an account's process, by sign-in and by managed tasks | `codex-account-process.ts`, `codex-managed-process.ts` |
| `ManagedSession` | one turn of a managed task: session, ledger, write queue, adapter | `codex-managed-session.ts`, `codex-managed-ledger.ts`, `codex-managed-task-adapter.ts`, `process-write.ts` |
| `CodexRelay` | one turn of a Codex session and its loopback relay | `codex-session.ts`, `codex-relay.ts` |
| `CodexCustody` | the launcher of a pinned codex, its append-only journal and what a crash leaves of it | `codex-process.ts` |
| `SingleRun` | `Xcb.run` over the lease table, with its broker and the API and SDK adapters | `runtime.ts`, `broker.ts`, `claude-api*.ts`, `claude-sdk.ts` |
| `OfflineDiagnostic` | the diagnostic that starts and joins two processes under two leases | `codex-managed-process.ts`, `codex-managed-offline-protocol.ts` |
| `ReleaseRefs`, `ReleaseJobs` | the authority of a release over its refs; the jobs that publish, check and are re-run | `scripts/*.ts` |
| `CliWorkspace` | the write port, its queue and its SQLite lock | `cli/workspace.ts`, `cli/write-coordination.ts` |
| `CliChat` | terminals that resume one session, its registry row and its transcript | `cli/chat.ts`, `cli/run.ts`, `cli/sessions.ts` |
| `EgressTunnel` | the bridge out of a sandbox and its client | `egress-bridge.ts`, `egress-client.ts` |
| `BrowserSession` | the browser of an account, its profile lock, recovery and purge | `browser-session.ts` |
| `DevinTask` | adapter, ACP client, relay and process of a Devin run | `devin-*.ts`, `provider-process.ts` |
| `ContextEditor` | the context editor's calls, edits and plan | `gobstopper-editor.ts` |
| `PrivateFile` | readers of a private file against writers without a lock | `private-file.ts`, `judge.ts`, `claude-sdk.ts`, `claude-api.ts` |
| `MCXcbRunner`, `MCTaskRuntime`, `MCClaudeTask` | instances for TLC: symmetry sets, and in `MCTaskRuntime` the choice of the adapter | |
| `MCProviders`, `MCServices` | several components side by side for one run each, and the fairness of the first | |
| `XcbProofs` | theorems about `XcbStore` and `XcbRunner`, and about `XcbKernel` | |
| `TaskProofs` | about `TaskRuntime` and `ClaudeTask` | |
| `AccountProcessProofs` | about `AccountProcess` and `ManagedAccount` | |
| `SessionProofs`, `RelayProofs` | about `ManagedSession`; about `CodexRelay` | |
| `SingleRunProofs` | about `SingleRun`, `OfflineDiagnostic` and `CodexCustody` | |
| `ServiceProofs` | about `EgressTunnel`, `BrowserSession`, `ReleaseRefs`, `ReleaseJobs`, `CliWorkspace`, `CliChat`, `DevinTask`, `PrivateFile` and `ContextEditor` | |
| `SequenceFacts` | lemmas about queues and pipes, index by index; induction over the members of a set | |

### 2.1 XcbStore and XcbRunner

A transaction of the store is opened with `BEGIN IMMEDIATE`, so it is one atomic
operator (`PrepareRunTx`, `SettleTx`, `RecoverRunTx`, ...), with the code's
refusals as conjuncts. Where the code makes a decision *outside* the
transaction, the model does too: `begin_tool` is `BeginTool` (the lease check)
and then `RecordTool` (the insert), `prepare_probe` is `BeginProbe` (the read of
the account) and then `PrepareProbe`, `rebind` and `create` likewise.

A terminal is a worker with a program counter:

    idle -> submitting -> launching -> prepared -> spawned -> executing
            (user message) (prepare_run) (spawn)   (mark_spawned)
    executing -> inserting -> calling -> recording -> noting -> appending -> executing
            (one tool call: begin_tool, the call, settle_tool_effects, tool message)
    executing -> stopping -> joined <-> answering        (final texts, one by one)
                                joined -> settling -> idle

with an error exit at each of them: `LaunchNotStarted` (no child was created, the
one error that gives the account back), `LaunchAbandoned`, `ExecutionError`,
`SettleToolFails`, `JoinUnproven`, `ReturnUncertain`, `JoinedError`. A probe takes
the same way without session and tools. `Crash(t)` may come anywhere; the
provider then lives on until `ProviderExits`. A recover command is three steps,
`RecoveryCandidate`, `ProveGroupAbsent`, `RecoverRun`, and may stop after each.

Abstracted: what a message says, models and routes, usage and quota rows,
timestamps; what the provider streams, except which final texts there are, which
tools it calls and how its turn ends; what a tool does, except whether its
effects are none, known or uncertain. Ids are fresh (`new_id`): a removed run or
session never returns, its row is `"removed"`. Process ids are not used again;
in the code a reused id makes the proof of absence fail, which is the safe side.
`recovered` and `said` are history variables that only properties read.

### 2.2 TaskRuntime

JavaScript runs from one await to the next without interruption, so that is a
step. `Admit` is the whole way from `acquire` to the call of `adapter.run`.
`stopOnce` is an operator on the locals (`StopOnce`, `CancelOnce`) because abort
listeners run inside whatever step aborts. The record `job[w]` is the closure of
one call: whether the signal was aborted, the first cancellation reason, how
`adapter.run` and `adapter.stop` stand, and the broker's counters.

The lease table is two columns, `owner` and `generation`. `expiresAt` and `renew`
are left out: nothing in the repository renews a lease or frees one because it
expired; the generation alone tells two leases of an account apart. Of a receipt
only whether it is bound to the task is kept (`KeepCustody` is the error path).
An adapter's own "cancelled" completion counts as failed.

The generic adapter does what the comments of `AgentTaskAdapter` demand: it
launches only while its lease is asserted, and `stop` answers with evidence only
when run has settled and no process is left, or rejects. Its provider is a member
of `alive`, named by the lease under which it was started.

`ProveStopped` is the host's evidence: no live worker drives that lease and no
live process carries its run id. Both halves are needed, as `recoverHeldLease`
says: an owner that has not launched yet leaves no process to find.

### 2.3 ClaudeTask

`slot[w]` is the adapter's record (`sessionStarted`, `processStopped`, the
controller), `active[w]` its note that a task is running, `dirs` the launch
directories. `Spawn`, `ProviderTurnEnds`, `ProcessJoined`, `ProcessNotStopped`,
`JoinThrows`, `ClaudeStop` replace the generic `Launch`, `RunSettles`,
`StopProved`, `StopRejected`; everything else is TaskRuntime's. `JoinThrows` is
the path in which `stopAndJoin` raises inside a `finally`, and `JoiningSpec` is the
program without it.

A slot is not quite an adapter as `TaskRuntime` has it: it asserts its lease when
`run` is called and not again, and the abort that `stop` makes reaches the slot's
controller two microtasks later, so `Spawn` asks neither for the lease nor
whether stop has been called (`MayLaunch`). Custody holds all the same
(`ClaudeKeepsCustody`), since `stop` waits for `run`, whose end joins the process.

### 2.4 AccountCustody

    Acquire(a, r)   a free account goes to a run that never had one
    Start(a)        the holder's provider comes to life
    Stop(r)         a provider ends, whoever ended it
    GiveBack(a)     only while the holder has no provider

The native refinement maps `holder` to the leases table, `live` to the runs with
a live provider, `used` to the runs that were ever prepared. The TypeScript one
maps `holder` to the row (account, owner, generation), `live` to `alive` and
`used` to the leases ever issued: with reused run ids it is the *generation* that
makes a lease unique. Two components keep an account of their own in the same way:
the contact runs of `Xcb.run` (SingleRun: the holder, the SDK processes, the runs
once admitted) and the owners of a Codex account's process (AccountProcess: the lock
file, the process groups, the handles that made the lock, which the history
variable `had` holds: a journal that says closed does not tell, since a managed
task that never made the lock says so too, `codex-managed-process.ts:393-395`). The offline diagnostic forgets the leases it gave back, so for it
there is `DiagnosticKeepsCustody` instead.

### 2.5 XcbKernel

What lies between two awaits of `serve` is one step: an arm of `select!` and the
flush after it (`Serves`). A tick takes at most one intent. `loop[s]` is the entry
of a session in `active` together with the locals of its `execute_inner`, which
goes from `top` (ready, append) over `appended` (prepare_run), `running`, `ended`
(should_continue) to `judging`, `routing` and back to `top`, or returns. What the
runner does is a choice among the turn facts the policies look at; runs and
accounts are `XcbRunner`'s, and here a run is only the session that holds its
account. A sibling terminal may move a session; an account that one holds shows
as one of the refusals. `remote_active` and everything else in a view but its
session and whether it works is left out, as are drafts and attachments.

The comment on `Outbox` calls its updates "a guaranteed FIFO - notices, state
snapshots, and stream resets must arrive". An outbox that is full of updates other
than views drops its front; `outbox.lost` notes a reset that went this way, and
`DisplayTellsTruth` asks nothing of streamed text after it.

### 2.6 The components on the way to a provider

`ManagedAccount` keeps the controller's generation, its pending login and its
close evidence in `ctl`, the transport's live and retired requests, and the
provider as an account that changes on its own behind a FIFO pipe. It keeps at
most `MaxEarly` login completions that are ahead of their answers, as the code
does; a login's id is the id of its request, and frames of a transport that no
longer listens are left out.

`AccountProcess` has one record per handle (a call of `createCodexAccountProcess`
or `createOwnedCore`), the lock file, and the journal. Hosts die between any two
steps; group numbers may be given to other programs. A launch may fail before there
is a group, after its group was proven gone, or because the record of the running
child could not be written; a managed task that never made the lock closes its
journal all the same.

`ManagedSession`, `CodexRelay` and `DevinTask` see their provider through its
channels. `native.honest` (in CodexRelay `nat.wild = 0`) marks one that keeps the
protocol; the properties say both that it is never accused and that a wild one
cannot obtain a completion. `ManagedSession` takes several notifications that the
session accepts in a row as one. In `CodexRelay` trailing notifications are still
taken while the session drains, and the drain may end after any of them. In
`DevinTask` the relay may fail to start or not be there; a completion is decided
right after the client has closed, so an abort during the stop of the relay comes
too late for it. `CodexCustody` leaves out its writes to the child's stdin
(`codex-process.ts:257-271`).

`SingleRun` lets several runs want one account, each served by the API or the SDK
adapter; what a tool returns is left out. In `OfflineDiagnostic` the second lease,
released after a core that could not be constructed, is journalled under the owner
`bootstrap`, as in the code.

### 2.7 The services

`ReleaseRefs` numbers the commits of main and the versions of tags; a reading of
main and one of the tags are separate steps. In `ReleaseJobs` an artifact is the
build it came from, and every remote command may take effect although its job
died. A promotion names a release and a workflow commit beforehand
(`release-ref-authority.ts:549-554`): these stand as a refusal that may or may not
come. What later jobs read of a GitHub release is the tarball and its
checksums (`Reviewed`); the job that publishes compares every file.

`CliWorkspace` numbers the versions of one file. Writers of one process form a
chain of tickets with a count; one that gives up opens its own gate and keeps its
place in the chain, so the count and the chain's length differ. The link of a new file
and the unlink of its staged name are two steps; a crash between them leaves a
file of two names, which the port refuses to read or to write from then on.

`CliChat` says nothing of provider processes. That an account goes back only when
its provider is gone is a matter of the adapter, and the Claude adapter may
break it (finding 3), so here a turn's lease ends in any way in which `runAgentTask`
lets it end. An append reaches the file in parts, may fail after any of them, and
may run into the append of another terminal: a line that was cut and then
continued by somebody else makes the transcript unreadable for good. So
`TranscriptBacksTurns` is about transcripts that read back.

In `EgressTunnel` a client leaves in one step and the bridge notices in another, and
a socket that is refused is served until its refusal is flushed. The bridge's own
dialer throws in an event handler where it means to reject
(`egress-bridge.ts:70`); that end of the host is left out, and the dialer is the one
a host supplies.

In `PrivateFile` every change of a file moves its ctime, `links` also stands for
mode and owner, and others act only between the steps of the reader. A key file
that a crash has left short is accepted as it is: `AcceptedIsTheFile` says that
what was accepted is the file. In `BrowserSession` a recovery or
a purge looks at a lock and removes it in two steps; `robbed` holds the sessions
whose lock went that way, and `BrowserUnderLock` excepts it.

The editor elides by line, so items of one line are elided together, even if one
of them is in the protected tail, of which `gobstopper-editor.ts:17` says that it
is "never touched"; `PlanKeepsItsWord` therefore speaks of items of lines of their
own.

### 2.8 Composition for TLC

The components of `MCProviders` and `MCServices` share no variable in the code
beyond the account lease, which their callers hold. A behaviour picks one of them
(`component`) at its start and stays in it; the others keep one fixed initial
state. So one run explores the sum, not the product, of their state spaces, and
each of them exactly as it would be explored alone. Where a component offers
several initial states, those of the others are pinned
(`component # "account" => ~prov.signed`, and so on). The writers of one process
are alike, so in `MCServices` they begin in the order of their names (`InOrder`),
which leaves out renamings only. One of the two runs of
`SingleRun` is a classifier, which calls no tools.

## 3. The runs

All runs set `CHECK_DEADLOCK FALSE`: terminals and hosts may all have crashed,
and the bounds on revisions and generations run out; neither is a deadlock of
the program. Progress is stated by the liveness properties instead.

| run | instance | checks |
|---|---|---|
| `custody` | 1 account, 1 session, 2 runs, 1 tool call, 2 terminals, 1 recover command, `MaxRevision` 2, `MaxPane` 1, symmetry | `FilesOutliveProvider`, refinement of AccountCustody (`CustodyKept`) |
| `rebind` | 2 accounts, 2 runs, 2 tool calls each, 1 terminal, `MaxRevision` 3, symmetry | `EffectsKeepCustody`, `AnswersStored`, `WorkingMeansBusy` |
| `endings` | 1 account, 2 runs, 1 tool call, 1 terminal, fairness, no symmetry | `TurnsEnd`, `RunningIsRecoverable` |
| `tool_after_recovery` | as custody with one run and one terminal | `ToolsUnderCustody`, violated (finding 1) |
| `disabled_probe` | the same | `DisabledIsFree`, violated (finding 2) |
| `kernel` | 2 sessions (one for a pane), 1 account with 2 models, 1 continuation, 2 routes, outbox of 3, channel of 1, 2 intents, fairness | `DisplayTellsTruth`, `KernelRests` |
| `tasks` | any adapter, or the Claude adapter without `JoinThrows`: 1 account, 2 workers, 2 run ids, 3 generations, 2 calls, 1 pending, symmetry | `HandlersHoldLease`, `CancelledNotCompleted`, refinement of AccountCustody (`TaskCustodyKept`) |
| `claude` | 1 account, 2 workers, 1 run id, 2 generations, fairness | `ScratchOutlivesProvider`, `CallsReturn` |
| `claude_stop` | 1 worker, 1 generation | `ProviderHoldsLease`, violated (finding 3) |
| `providers` | `MCProviders` without fairness: 3 generations, 2 operations, 1 early completion; 2 handles, 2 stops of each, crashes; 1 wild frame; 2 contacts, 2 turns | the safety of seven components, below |
| `providers_end` | the same, smaller, with fairness | `AccountAnswers`, `StopsAnswer`, `SessionsEnd` |
| `services` | `MCServices`: 2 commits, 3 tags, 2 moves, 3 attempts; 4 writers, 3 of them in one process with a queue of 2; 2 terminals; 3 connections; 2 browsers, 2 recoveries; 2 Devin runs; 2 editor turns; 1 writer and 1 reader of a file | the safety of nine components, below |

`providers`: `SignedInIsCurrent`, `LoginsTracked`, `ReleaseMeansGone`,
`LateAnswersKnown` (ManagedAccount); `ProcessCustody`, `ClosedMeansGone`
(AccountProcess); `HonestNotAccused`, `ProvenStopIsQuiet`, `CompletionIsWhole`
(ManagedSession); `HonestRoundTrip`, `CompletedIsWhole` (CodexRelay);
`JournalIsEvidence` (CodexCustody); `AccountCoversRun` (SingleRun);
`DiagnosticKeepsCustody` (OfflineDiagnostic).

`services`: `AuthorityHeld` (ReleaseRefs), `ReleasesAgree` (ReleaseJobs),
`NoLostUpdate` (CliWorkspace), `TranscriptBacksTurns` (CliChat),
`NoTunnelOutlivesItsEnd` (EgressTunnel), `BrowserUnderLock` (BrowserSession),
`DevinKeepsItsWord` (DevinTask), `PlanKeepsItsWord` (ContextEditor),
`AcceptedIsTheFile` (PrivateFile).

Why these bounds reach the interesting cases. Two runs and two terminals on one
account are the smallest instance in which one can wait, be refused, or take the
account another gave back or lost to a recovery while its owner is still at work;
all claims about custody are about one account at a time, so a second account
adds only products of the same cases (it is there in `rebind`, where moving is
the point). A task adds one to a session's revision with the user's message, one
with `prepare_run`, one with each tool or final message, and one when it is
settled: `MaxRevision` bounds where
a *new* task or rebind may start, not the writes of a run that is on its way, so
a run is never cut off. Three generations let a lease be taken, lost to a
recovery, and taken by the owner of the stale lease again. `MaxPending` 1 with two
calls lets a call wait behind a running handler or be refused.

In `kernel`, two intents suffice for a task and whatever may come between: a
second task on the same session after the first, a cancellation, another
selection, a pane generation that waits for it, a sibling's move. An outbox of
three holds one completion (reset, notice, view) and overflows on the next one
while the channel of one is not read; two models and one continuation are the
smallest instance in which a task both continues and fails over, and could come
back. In `providers`, three generations let an answer be late by a change and by a
replacement; two handles on one lock are one owner and one that comes too early
or too late; two operations let one be late while the next is on its way. In
`services`, two commits and three tags let main and the tags move away and back
between readings; three attempts let two die; three of the four writers share a
process whose queue holds two, so that one can be refused, while the fourth
contends for the lock, and a file that is there or not can change twice; three connections exceed the
limit of two and one host is not admitted; two recoveries look at one lock.

What the passing runs show. Whatever the order of prepare, spawn, mark, tool
calls, joins, settlement, recovery, removal and crash, the tables agree and no
account has two providers. An owner that settles after it was recovered changes
nothing, even when the account already belongs to another run. A session never
moves under an unsettled run. No answer is lost by a settled run, and no open
receipt is settled away by a terminal. On the TypeScript side an abort that comes
while stop is awaited still wins over "completed", and a release never overtakes
the broker's close. The terminal's screen ends with the truth whatever its queue
dropped, except the text of a stream whose reset was dropped, and the terminal
comes to rest. Sign-in, sessions and launchers keep their account until what
they started is gone, and what they report, complete, closed, stopped, joined,
is so. The services' holds (a tunnel, a profile, a staged write, a transcript
row, a release) survive the death of whoever took them, in every order with
those who clean up.

Each property of a passing run has a mutant in `PROJECT.json`: one definition
altered the way a plausible bug would alter the code (a dropped check of the
lease, a settlement before the answers are stored, a recovery without proof, a
missing generation in the WHERE of release), which makes TLC find that property
violated under the same configuration. The altered forms stand next to the
originals, marked `Mutant`; no specification uses them.

### Fairness

Native: weak fairness of each terminal's own steps. The code justifies it by its
deadlines: the turn, the joins and SQLite's busy timeout are all bounded, so each
await of a live worker is answered, if only with an error. For
`RunningIsRecoverable` somebody has to keep trying `xcb recover` (strong fairness
of candidate, proof and recovery, as the run may be a candidate only now and then)
and a command has to end. Nothing is assumed of people who start things, of
crashes, or of the provider.

TypeScript tasks: weak fairness of the runtime, of the broker (handlers settle),
of `prepare`, of the end of the SDK's stream after an abort or at the adapter's
deadline, of the join (it gives up after two seconds) and of `stop`. Nothing is
assumed of the host, of crashes or of the provider process.

Kernel: weak fairness of each task's steps (the turn, the judge and the hooks have
deadlines) and of the two arms of `select!` that matter: a completion that has
arrived, and the tick that finds the display gone. tokio picks among ready arms at
random, so neither is passed over for ever. Nothing is assumed of the user, of the
display, or of the flush's success.

Providers: weak fairness of the controller's continuations, of the transport's
timeouts and of the steps of a close; of each step of a stop while its host lives;
of the session's own steps and of its interruption at a deadline; of the relay's
and the launcher's steps, their deadlines, the signals and the joins that follow.
Nothing is assumed of native, of the upstream, of the broker's handlers beyond the
deadline they are given, or of the account's process: each wait has a deadline of
its own, and these are what the fairness stands for.

## 4. What is proved

| theorem | module | states |
|---|---|---|
| `XcbProofs!TypeCorrect` | `XcbProofs` | `Spec => []TypeOK` |
| `CustodyInvariant` | `XcbProofs` | `Spec => []CustodyInv`, the inductive invariant |
| `LeasesMatch`, `ProvidersHold` | `XcbProofs` | `[]LeaseMatchesRuns`, `[]ProviderHoldsAccount` |
| `ImplementsCustody` | `XcbProofs` | `Spec => CustodyKept`: the native program implements AccountCustody |
| `RecordInvariant` | `XcbProofs` | `Spec => []RecordInv`, the inductive invariant of receipts, answers and directories |
| `EffectsKept`, `AnswersKept`, `FilesOutlive`, `WorkingIsBusy` | `XcbProofs` | `[]EffectsKeepCustody`, `[]AnswersStored`, `[]FilesOutliveProvider`, `[]WorkingMeansBusy` |
| `ScreenTellsTruth` | `XcbProofs` | `KernelSpec => []DisplayTellsTruth`, from `KernelInv` |
| `TaskProofs!TypeCorrect` | `TaskProofs` | `Spec => []TypeOK` |
| `CancelledReported` | `TaskProofs` | `Spec => CancelledNotCompleted` |
| `TaskInvariant` | `TaskProofs` | `Spec => []TaskInv`, the inductive invariant |
| `ProvidersHold`, `HandlersHold` | `TaskProofs` | `[]ProviderHoldsLease`, `[]HandlersHoldLease` |
| `TaskImplementsCustody` | `TaskProofs` | `Spec => TaskCustodyKept`: the TypeScript host implements AccountCustody |
| `ScratchOutlives` | `TaskProofs` | `ClaudeSpec => []ScratchOutlivesProvider` |
| `ClaudeCancelled` | `TaskProofs` | `ClaudeSpec => CancelledNotCompleted` |
| `ClaudeKeepsCustody`, `ClaudeHandlersHold`, `ClaudeProvidersHold` | `TaskProofs` | `JoiningSpec => TaskCustodyKept`, `[]HandlersHoldLease` and `[]ProviderHoldsLease`: without a join that throws, the host with the Claude adapter implements AccountCustody |
| `AccountCovers` | `SingleRunProofs` | `[]AccountCoversRun`, from `SingleInv` |
| `RunsKeepCustody` | `SingleRunProofs` | `SingleSpec => SingleCustody`: `Xcb.run` implements AccountCustody |
| `DiagnosticKeeps` | `SingleRunProofs` | `[]DiagnosticKeepsCustody`, from `OfflineInv` |
| `JournalStandsForIt` | `SingleRunProofs` | `[]JournalIsEvidence`, from `CodexInv` |
| `CustodyHolds`, `ClosedIsGone` | `AccountProcessProofs` | `[]ProcessCustody`, `[]ClosedMeansGone`, from `ProcessInv` |
| `LocksKeepCustody` | `AccountProcessProofs` | `ProcessSpec => LockCustody`: the lock file of an account implements AccountCustody |
| `ReleasedIsGone` | `AccountProcessProofs` | `[]ReleaseMeansGone`, from `ReleaseInv` |
| `SignedInCurrent`, `LoginsAreTracked`, `LateAnswersAreKnown` | `AccountProcessProofs` | `[]SignedInIsCurrent`, `[]LoginsTracked`, `[]LateAnswersKnown`, from `LoginInv` |
| `HonestIsNotAccused`, `ProvenStop`, `CompletionWhole` | `SessionProofs` | `[]HonestNotAccused`, `[]ProvenStopIsQuiet`, `[]CompletionIsWhole`, from `SessionInv` |
| `HonestNeverRefused`, `CompletedTurnIsWhole` | `RelayProofs` | `[]HonestRoundTrip`, `[]CompletedIsWhole`, from `RelayInv` |
| `NoTunnelOutlives`, `LocksHold`, `AuthorityWasTrue`, `NothingIsLost` | `ServiceProofs` | `[]NoTunnelOutlivesItsEnd`, `[]BrowserUnderLock`, `[]AuthorityHeld`, `[]NoLostUpdate` |
| `DevinKeeps`, `RegistriesAgree`, `TurnsAreBacked`, `AcceptedWhole` | `ServiceProofs` | `[]DevinKeepsItsWord`, `[]ReleasesAgree`, `[]TranscriptBacksTurns`, `[]AcceptedIsTheFile` |
| `PlanKeeps` | `ServiceProofs` | `[]PlanKeepsItsWord` |

They hold for all sets of accounts, sessions, runs, calls, terminals and recover
commands, and all bounds. The only assumptions are those on the constants: the
null values lie outside the sets they complete (`StoreAssumption`,
`RunnerAssumption`, `TaskAssumption`, `NoRunAssumption`, `SessionAssumption`,
`ChatAssumption`, ...), outcomes are outcomes, later jobs review at least one of
the files of a release (`ReviewedFiles`), a private file has at least one part and
one inode, a release job at least one attempt, and bounds are natural
numbers. TLC evaluates all of them in the runs.

**The native argument.** `LeaseMatchesRuns` and `ProviderHoldsAccount` are not
inductive: that `settle` may close a run needs the fact that its provider is
gone, which only the terminal's program counter knows; that `recover_run` may,
needs that the evidence of the recover command is still true when it acts.
`CustodyInv` therefore adds what each actor knows: `RunSound` (an unprepared run
has no provider; a live provider's run is unsettled), bound accounts of
existing sessions, `TerminalSound` (program counter, run and provider agree),
`OwnRuns` (no two terminals drive one run, without which one could spawn after the
other joined), and `OperatorSound` (a candidate was running once, and a proved
absence stays true, because only a `prepared` run can still spawn). One lemma per
group of actions shows that it is preserved. The refinement follows from it:
every step is an `Acquire`, `Start`, `Stop` or `GiveBack`, or leaves the three
mapped variables alone.

**The TypeScript argument.** A release is guarded by owner and generation, but
that the released lease has no process is known by the adapter's evidence
(`stop = "proved"`), by a task that never called its adapter (`"refusing"`), or by
the host that recovers. `TaskInv` says so: a live lease is current and has an
owner; at each program counter a worker has a current lease or evidence
(`WorkerSound`); no two tasks drive one lease (`OwnLeases`). That each acquisition
is of a *new* lease, needed for the refinement, is the separate invariant
`IssuedPast`: the generation of an account is past every lease ever issued.
`CancelledReported` rests on one fact, `AbortHeard`: from the call of the adapter
to the end of its stop an aborted signal has been heard.

With the Claude adapter a step is one of `TaskRuntime`'s, a `Spawn`, or a `ClaudeStop`
(`ClaudeSteps`), and neither of the latter settles a task, which is enough for
`ClaudeCancelled`. For custody `SlotsSound` ties each slot to its task and says
that a slot that has not spawned, or whose stop will give evidence, has no
process under its lease. It is inductive together with `TaskInv`, and only
without `JoinThrows`, which is the one step that leaves a slot with a process and
evidence. A `ClaudeStop` is then a `StopProved` or a `StopRejected`, and a `Spawn` a
`Start` of AccountCustody (`JoiningSteps`).

**Records.** `EffectsKeepCustody` and `AnswersStored` are about rows that several
steps of a terminal write, while a recovery or a removal may come between.
`RecordInv` adds what an owner that still has its run knows (`OwnerSound`): which of
its receipts are open, and which of its answers are not in the transcript yet.
`WorkingMeansBusy` is inductive together with `LeaseMatchesRuns`. For the
directories it is enough that only a terminal that has joined its run removes one;
on the Claude side, that a slot past its join has no process.

**The terminal.** `DisplayTellsTruth` looks at the screen only; what makes it true is
on its way there. `KernelInv` says three things of outbox, channel and screen taken
together (`ScreenInv`). Between the texts of two turns of a session, on the
screen or in the channel, there is a reset of its stream (`StreamInv`). Text behind
which no reset follows, in the channel or queued, is that of the session's
present task, and so is the buffered text (`TextInv`); a task that has finished
keeps its entry until its completion is received, and the step that removes
the entry queues the reset. And the last view on its way is that of the selection
at rest whenever no task runs (`LastView`): dropping the *oldest* view of a full
outbox keeps it, while dropping the front may lose a reset, which is what
`outbox.lost` records. The outbox fills by a recursive function, one update after
the other; what it keeps of a whole batch is proved by induction over its length
(`SetInduction`, over the members of a set and not of an operator, from the
well-foundedness of `<` on the natural numbers). The proof found an error of an
earlier version of the model: the service's last flush took as many updates as the
channel had room for even when the outbox had fewer, which a channel of one update
(`Kernel.cfg`) never shows. Both flushes now use `Fitting`.

**Account processes.** `ProcessInv` ties, for each handle, its step to the lock, the
journal, the directories and the child: a live child's record is durable and its
lock names its handle, a handle that closes has the evidence of its join. A dead
host's handle never steps again, so what it left stays as the invariant has it.
That the lock file keeps what the stores promise (`LocksKeepCustody`) needs one fact
beside it, `LockPast`: a handle that is about to make the lock has not made one
before (`had`), so one that gave it back, synced or not, cannot take it again. The
one step where this could go wrong is a repeated stop after the unlink, when the
lock may be another's: it syncs and records, and leaves the lock alone.
For `ReleasedIsGone` the point is that evidence is collected once and used later:
a complete join has its proof, and a transport that closes takes on nothing new
(`ReleaseInv`).

**Managed accounts.** The three properties of the controller compare what it
believes with what is still on its way: `LoginInv` follows each request and each
version to the place where it is. A request waits, is written, is asked, or is
answered, once (`OnceInv`); while the transport listens, what may still be
answered is the pending call or one of the retired (`LateInv`), so no answer in
time is a violation. Versions only grow along the pipe (`OrderInv`), and an
operation whose generation is still the controller's has read the last version
native told of (`CurrentInv`): a change that arrives between the read and the
publication moves the generation. `EarlyInv` keeps a completion that overtook its
login's answer. The code keeps at most `MaxEarly` such completions and drops
the others; `told.full` notes that it did, and `LoginsTracked` asks nothing of a
pending login from then on.

**Sessions and relays.** `CompletionIsWhole`, `ProvenStopIsQuiet` and
`CompletedIsWhole` hold with any native process: `WholeInv` (in either module)
follows the ledger of calls and the order in which the end joins handlers, broker,
writes and child. That an *honest* native process is never accused
(`HonestNotAccused`, `HonestRoundTrip`) needs everything in flight: which frames
are in the pipe, in what order, and what native still owes for each call
(`CallInv`, `PipeInv`, `OutInv`, `TodoInv`). The hard steps are those where a frame
arrives while the answer before it is still being written.

**Single runs.** `SingleInv` says which steps of a run still have its lease and
what may be alive in each. With it every step of `SingleRun` is a step of
AccountCustody or a stutter, where the provider of a run is its SDK process and a
run has been settled when it was admitted once and has the lease no more
(`SingleCustody`; an API run has no process, and acquires and gives back only).
TLC has checked this refinement and `LockCustody` on the instance of
`Providers.cfg`; no run lists them, the theorems do.
`OfflineInv` ties the process the diagnostic has made and
not joined to its lease and the stores.

**The journal of a codex.** `CodexInv` says of *every* line that its snapshot is
one the launcher's present state still follows from, with increasing numbers, and
of the last line that only a writer that failed or died leaves it torn. Because
claims about the process are only ever added after they were seen to be so
(`SeenInv`), the last whole line is true however old it is.

**Services.** In `EgressInv` a connection the bridge dropped cannot get a socket any
more, however late its dial is answered. `BrowserInv` keeps the lock of every live
browser, proved or retained, apart from `robbed`. `RefInv` carries the witness of
`AuthorityHeld`: the moment of the *first* reading of the tags, to which main, which
only moves forward, and the equal second readings lead back. In `WorkspaceInv` the
writer in the staging window is the one with the lock, and the version it checked
is the current one unless the outside editor came; `CountInv` says that every
unfinished writer is in its process's chain, so a chain that is dropped with its
count had nobody left in it. `JobInv` follows the bytes of a
release from the build over the draft to npm: what npm holds or may still come to
hold was public on GitHub first. `ChatInv` assigns every line of a transcript to
one owner (`Backs`): the turns counted in the registry own as many lines as they
count, and a terminal that has appended and not yet counted owns others; this is
how two terminals on one session cannot count the same line. Once a file is spoiled
nothing is claimed of it, and it stays so until it is removed. `DevinInv` counts
deltas: those in the pipe before the reply and those in the output make up what
the provider said. In `FileInv` what a reader has is the head of its file as long as
the ctime it saw is the file's.

**The editor.** `EditorInv` is short: what a run emits is `CallsToEdits` of the calls
it recorded. What that function promises is a matter of its loop, a recursive
function over the calls. `LoopSound` says of the loop's state after `i` calls that
its edits are those of its lines, that no line of it belongs to a protected, kept or
payload-free item (if items have lines of their own), that the tokens left are the
context less the sum over the elided items, and that none of the `i` calls was
a defer: it is shown for the start, for each kind of call, and by induction for
the state after the last. That the sum of two disjoint sets is the sum of their
sums is an induction over the subsets of a finite set (`SubsetInduction`, again
over the members of a set): `MapThenSumSet` is defined by choosing elements
one by one, so what has to be shown is that the order does not matter.

All of these hold for every value of the constants, under the named assumptions
of their modules.

**Only model-checked.** The liveness properties (`TurnsEnd`, `RunningIsRecoverable`,
`CallsReturn`, `KernelRests`, `AccountAnswers`, `StopsAnswer`, `SessionsEnd`):
liveness under fairness and ENABLED are out of the prover's reach. Every safety and
refinement property that a passing run checks has its theorem. `TypeOK`,
`LeaseMatchesRuns`, `ProviderHoldsAccount`, `ProviderHoldsLease`, `CustodyInv`,
`RecordInv` and `TaskInv` on the other hand are proved and no longer checked by a
passing run: the refinements that are checked imply what matters of them.

## 5. Where the code does something else than it says

1. **`begin_tool` checks and acts in two transactions** (`store.rs:1003-1011`).
   It refuses a run that lost the account ("tool run no longer owns the
   account"), but reads the lease and inserts the receipt as two statements. A
   recover command that commits in between (the provider has exited, the worker
   has not noticed yet) makes the receipt, and then the tool call, those of a run
   without custody. Run `tool_after_recovery`.
2. **`prepare_probe` reads the account before its transaction** (`store.rs:603`).
   It refuses a disabled account, and `set_account_enabled` refuses a held one; an
   account disabled between read and transaction is nevertheless probed.
   `prepare_run` reads it inside. Run `disabled_probe`.
3. **A join that throws leaves `processStopped` at its initial `true`**
   (`claude-task-adapter.ts:403-411`). When the process group survives SIGKILL and
   both waits, `stopAndJoin` throws inside a `finally`, the assignment after it is
   skipped, `stop` mints evidence that the process has stopped, and the account is
   released while the provider lives. Run `claude_stop`. The directory is kept,
   correctly: `ScratchOutlivesProvider` holds in `claude`.

Met on the way, without a run of their own. A pane generation is queued "for the
account's next idle boundary" (`kernel.rs:933`), but it is taken up at the end of
*any* task (`kernel.rs:872`), so also while the session it waits for is still at
work; its account is then not ready and the `?` ends `serve` with every task that is
running (`Completes` in `XcbKernel` has the path). And `gobstopper-editor.ts:17` says
that the tail is never touched (section 2.7).

The first two are between processes and need an unlucky moment; custody itself
(`CustodyInv`) holds with both. The third breaks the adapter's side of the
interface on which `TaskInvariant` rests, and is therefore stated on `ClaudeTask`
and not on `TaskRuntime`.

## 6. What is not modelled

`PROJECT.json` lists every component with its status. Without a module:

* the native workspace tools and their write coordination (`broker.rs`,
  `coordination.rs`): the runner takes a tool's effect as given;
* the native private files, configuration, panes and attachments; the native
  egress bridge, which the runner takes as joined or not, and the sandbox, which
  is generated configuration for the operating system;
* native judges, context projection, hooks, summaries, exports: requests, parsing
  and text without state that outlives a call;
* in TypeScript the loopback server, the parsing of a judge's answers and of API
  responses, the operating system's sandbox, model catalogs and configuration,
  and `cli.ts` apart from what it calls;
* the build, qualification and site.

Left out of modelled components: usage, quota, model and velocity rows; export
and prune; the limits on counts of rows; the sharing of one Claude adapter by
several tasks of one process beyond the `busy` slot; heartbeats; in the terminal
user interface everything but views, streamed text and its reset; in the
policies the usage counters.

Hazards seen and not covered by a property:

* a terminal that dies while its run is only `prepared` leaves an account that
  `recover_run` refuses (`store.rs:741`): no process group is on record, so there is
  nothing to prove absent. `RunningIsRecoverable` is stated for running runs;
* a worker whose run was recovered may still append its answer to the session
  (`runner.rs:1244`), which asks for the session's revision only;
* a recorded process group id may have been given to another process
  (`process.rs:429`): the proof of absence then fails, which is the safe side;
* writers of one native process wait for a mutex and then for an SQLite lock, both
  with a deadline (`coordination.rs:42`);
* the probe of a stale unix socket and its unlink are two steps
  (`loopback-server.ts`);
* a handler of the SDK that still runs when `run` releases its account
  (`runtime.ts:116`): `AccountCoversRun` excepts exactly this one;
* a recovery or a purge that removes the lock of a live browser
  (`browser-session.ts:259-306`), which `BrowserUnderLock` excepts (`robbed`);
* an item of the editor that shares its line with a protected one (section 2.7);
* a private key that a crash has left short, which the next start accepts.

## 7. Plan

1. The native write coordination beside `CliWorkspace`, which keeps the same
   promise with other means, and the configuration's compare-and-set.
2. `HandlersHoldLease` for the Claude adapter whose join may throw: finding 3 is
   about the provider process alone, and TLC finds the handlers still under their
   lease on the instance of `Claude.cfg`. The proof needs the part of `TaskInv`
   that speaks of tasks and rows without the processes, inductive by itself.
3. The offline diagnostic as an implementation of AccountCustody, with the leases
   it has given back as a history variable.
