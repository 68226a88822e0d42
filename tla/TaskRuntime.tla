----------------------------- MODULE TaskRuntime -----------------------------
(***************************************************************************)
(* A task of the TypeScript xcb: runAgentTask (src/task-runtime.ts) on top *)
(* of the shared lease table (src/accounts.ts), with the capability broker *)
(* through which the model's tools run (src/capabilities.ts), and the host *)
(* recovery of a held account (src/cli/run.ts).                            *)
(*                                                                         *)
(* A worker is one host call at a time in a process of its own; the lease  *)
(* table is one SQLite file that all of them share.  Between two awaits    *)
(* JavaScript runs to completion, so a step below is what happens from one *)
(* await to the next; abort listeners run inside the step that aborts.     *)
(*                                                                         *)
(* The provider adapter is any one that honours the comments of the        *)
(* interface AgentTaskAdapter.  ClaudeTask puts a real one in its place.   *)
(***************************************************************************)
EXTENDS Naturals

CONSTANTS
  Accounts,
  Workers,        \* concurrent host calls, see above
  RunIds,         \* run ids, chosen by the host; an API host may reuse one
  NoRun,
  MaxGeneration,  \* no account is leased more often than this
  MaxCalls,       \* CAPABILITY_LIMITS.calls
  MaxPending      \* CAPABILITY_LIMITS.pendingCalls

ASSUME TaskAssumption ==
  /\ NoRun \notin RunIds
  /\ {MaxGeneration, MaxCalls, MaxPending} \subseteq Nat

VARIABLES
  owner,       \* xcb_account_leases.owner, NoRun for NULL
  generation,  \* xcb_account_leases.generation
  alive,       \* the leases whose provider process (group) exists
  pc,          \* where each worker is
  lease,       \* the lease it asks for, has, or wants to recover
  job,         \* the locals of runAgentTask and of its broker, see Job
  outcome,     \* what its latest task told the caller
  issued       \* history: the leases ever acquired

table == << owner, generation >>
vars  == << owner, generation, alive, pc, lease, job, outcome, issued >>

\* expiresAt is left out of a lease: it never changes while it is held, and
\* generation alone already tells two leases of an account apart.
Lease == [ account    : Accounts,
           owner      : RunIds \cup {NoRun},
           generation : 0..MaxGeneration ]
ASSUME NoRunAssumption == NoRun \notin Lease

LeaseOf(a, r, n) == [ account |-> a, owner |-> r, generation |-> n ]
Reasons  == { "cancelled", "deadline-exceeded" }
Outcomes == { "none", "completed", "failed", "error" } \cup Reasons
JobRecord ==
       [ tries     : {0, 1},           \* recoveries this call has used up
         aborted   : BOOLEAN,          \* input.signal
         cancelled : {"no"} \cup Reasons,
         ran       : {"no", "pending", "completed", "failed", "stopped", "rejected"},
         stop      : {"uncalled", "pending", "proved", "rejected"},
         revoked   : BOOLEAN,          \* the broker's controller
         calls     : 0..MaxCalls,
         pending   : 0..MaxPending,
         executing : BOOLEAN ]         \* the head of the broker's tail
Job == { j \in JobRecord : j.executing => j.pending > 0 }
NewJob(tries, aborted) ==
  [ tries |-> tries, aborted |-> aborted, cancelled |-> "no", ran |-> "no",
    stop |-> "uncalled", revoked |-> aborted, calls |-> 0, pending |-> 0,
    executing |-> FALSE ]

Pcs == { "idle", "dead", "admitting", "refusing", "running", "stopping",
         "busy", "proving", "proved" }

TypeOK ==
  /\ owner      \in [Accounts -> RunIds \cup {NoRun}]
  /\ generation \in [Accounts -> 0..MaxGeneration]
  /\ alive      \subseteq Lease
  /\ pc         \in [Workers -> Pcs]
  /\ lease      \in [Workers -> Lease]
  /\ job        \in [Workers -> Job]
  /\ outcome    \in [Workers -> Outcomes]
  /\ issued     \subseteq Lease

Init ==
  /\ owner      = [a \in Accounts |-> NoRun]
  /\ generation = [a \in Accounts |-> 0]
  /\ alive      = {}
  /\ pc         = [w \in Workers |-> "idle"]
  /\ lease      \in [Workers -> { LeaseOf(a, NoRun, 0) : a \in Accounts }]
  /\ job        = [w \in Workers |-> NewJob(0, TRUE)]
  /\ outcome    = [w \in Workers |-> "none"]
  /\ issued     = {}

Goto(w, from, to) == pc[w] = from /\ pc' = [pc EXCEPT ![w] = to]

\* runAgentTask (and the host call around it) settles: its locals go, its
\* lease is admitted no more, its broker is revoked; a handler that were
\* still running would run on.
Return(w, how) ==
  /\ pc'      = [pc EXCEPT ![w] = "idle"]
  /\ lease'   = [lease EXCEPT ![w] = LeaseOf(@.account, NoRun, 0)]
  /\ job'     = [job EXCEPT ![w] =
                   [NewJob(0, TRUE) EXCEPT !.pending = job[w].pending,
                                           !.executing = job[w].executing]]
  /\ outcome' = [outcome EXCEPT ![w] = how]

-----------------------------------------------------------------------------
(***************************************************************************)
(* The lease table: each operator is one SQL statement.                    *)
(***************************************************************************)
\* The lease a row stands for while its owner is not NULL.
Row(a) == LeaseOf(a, owner[a], generation[a])

\* Mutant: any lease of the same run will do.
CurrentOwner(l) == owner[l.account] = l.owner

\* The WHERE of release: still this owner and this generation.
Current(l) == owner[l.account] = l.owner /\ generation[l.account] = l.generation

Acquire(w) ==
  LET a == lease[w].account
      l == LeaseOf(a, lease[w].owner, generation[a] + 1) IN
  /\ owner[a] = NoRun
  /\ generation[a] < MaxGeneration
  /\ owner'      = [owner EXCEPT ![a] = l.owner]
  /\ generation' = [generation EXCEPT ![a] = l.generation]
  /\ lease'      = [lease EXCEPT ![w] = l]
  /\ issued'     = issued \cup {l}

Release(l) ==
  /\ owner' = [owner EXCEPT ![l.account] = NoRun]
  /\ UNCHANGED << generation, issued >>

-----------------------------------------------------------------------------
(***************************************************************************)
(* Admission.                                                              *)
(***************************************************************************)
\* A host call starts: a fresh broker bound to a run id.
Begin(w, a, r) ==
  /\ Goto(w, "idle", "admitting")
  /\ lease'   = [lease EXCEPT ![w] = LeaseOf(a, r, 0)]
  /\ job'     = [job EXCEPT ![w] = NewJob(0, FALSE)]
  /\ outcome' = [outcome EXCEPT ![w] = "none"]
  /\ UNCHANGED << table, alive, issued >>

\* Any check before the lease: the request, the broker's binding, the route,
\* the qualification, the deadline, an aborted signal.
PreflightFails(w) ==
  /\ pc[w] = "admitting"
  /\ Return(w, "error")
  /\ UNCHANGED << table, alive, issued >>

\* From acquire to the call of adapter.run there is no await.
Admit(w) ==
  /\ ~ job[w].aborted
  /\ Goto(w, "admitting", "running")
  /\ Acquire(w)
  /\ job' = [job EXCEPT ![w].ran = "pending"]
  /\ UNCHANGED << alive, outcome >>

\* The lease is there, but meanwhile the deadline has passed or the broker
\* is no longer active: the adapter is never called.
AdmitTooLate(w) ==
  /\ ~ job[w].aborted
  /\ Goto(w, "admitting", "refusing")
  /\ Acquire(w)
  /\ job' = [job EXCEPT ![w].revoked = TRUE]
  /\ UNCHANGED << alive, outcome >>

\* After broker.close() has joined.
Refuse(w) ==
  /\ pc[w] = "refusing"
  /\ job[w].pending = 0
  /\ IF Current(lease[w]) THEN Release(lease[w]) ELSE UNCHANGED << table, issued >>
  /\ Return(w, "error")
  /\ UNCHANGED alive

-----------------------------------------------------------------------------
(***************************************************************************)
(* Cancellation.  stopOnce revokes the broker, starts its close and asks   *)
(* the adapter to stop, once.                                              *)
(***************************************************************************)
StopOnce(j) == [j EXCEPT !.revoked = TRUE,
                         !.stop = IF @ = "uncalled" THEN "pending" ELSE @]

CancelOnce(j, reason) ==
  StopOnce([j EXCEPT !.cancelled = IF @ = "no" THEN reason ELSE @])

\* Mutant: the listener goes with the timer when run settles.
AbortSignalUnheard(w) ==
  /\ pc[w] \notin {"idle", "dead"}
  /\ ~ job[w].aborted
  /\ job' = [job EXCEPT ![w] =
       LET j == [@ EXCEPT !.aborted = TRUE, !.revoked = TRUE] IN
       IF pc[w] = "running" THEN CancelOnce(j, "cancelled") ELSE j]
  /\ UNCHANGED << table, alive, pc, lease, outcome, issued >>

\* The host aborts input.signal; it is one of the broker's signals, and from
\* admission to the end runAgentTask listens to it.
AbortSignal(w) ==
  /\ pc[w] \notin {"idle", "dead"}
  /\ ~ job[w].aborted
  /\ job' = [job EXCEPT ![w] =
       LET j == [@ EXCEPT !.aborted = TRUE, !.revoked = TRUE] IN
       IF pc[w] \in {"running", "stopping"} THEN CancelOnce(j, "cancelled") ELSE j]
  /\ UNCHANGED << table, alive, pc, lease, outcome, issued >>

\* The timer of the execution deadline; it is cleared once run has settled.
Deadline(w) ==
  /\ pc[w] = "running"
  /\ job' = [job EXCEPT ![w] = CancelOnce(@, "deadline-exceeded")]
  /\ UNCHANGED << table, alive, pc, lease, outcome, issued >>

-----------------------------------------------------------------------------
(***************************************************************************)
(* The broker.  Calls wait on one tail; each handler runs when the one     *)
(* before it has settled, and the broker is checked before and after it.   *)
(***************************************************************************)
\* Mutant: the queue's limit is one too high.
InvokeToolTooMany(w) ==
  /\ job[w].ran = "pending"
  /\ ~ job[w].revoked
  /\ job[w].calls < MaxCalls
  /\ \E admitted \in BOOLEAN :
       /\ admitted => job[w].pending <= MaxPending
       /\ job' = [job EXCEPT ![w].calls = @ + 1,
                             ![w].pending = IF admitted THEN @ + 1 ELSE @]
  /\ UNCHANGED << table, alive, pc, lease, outcome, issued >>

\* invoke: a call that is denied for its input, or because too many wait,
\* counts as an attempt all the same.
InvokeTool(w) ==
  /\ job[w].ran = "pending"
  /\ ~ job[w].revoked
  /\ job[w].calls < MaxCalls
  /\ \E admitted \in BOOLEAN :
       /\ admitted => job[w].pending < MaxPending
       /\ job' = [job EXCEPT ![w].calls = @ + 1,
                             ![w].pending = IF admitted THEN @ + 1 ELSE @]
  /\ UNCHANGED << table, alive, pc, lease, outcome, issued >>

StartHandler(w) ==
  /\ job[w].pending > 0
  /\ ~ job[w].executing
  /\ ~ job[w].revoked
  /\ job' = [job EXCEPT ![w].executing = TRUE]
  /\ UNCHANGED << table, alive, pc, lease, outcome, issued >>

\* A waiting call finds the broker revoked or its parsed input invalid.
DropCall(w) ==
  /\ job[w].pending > 0
  /\ ~ job[w].executing
  /\ job' = [job EXCEPT ![w].pending = @ - 1]
  /\ UNCHANGED << table, alive, pc, lease, outcome, issued >>

HandlerSettles(w) ==
  /\ job[w].executing
  /\ job' = [job EXCEPT ![w].executing = FALSE, ![w].pending = @ - 1]
  /\ UNCHANGED << table, alive, pc, lease, outcome, issued >>

-----------------------------------------------------------------------------
(***************************************************************************)
(* The adapter, as its interface demands: it rechecks its lease before it  *)
(* launches, and stop settles "only after every owned controller/process   *)
(* joins".                                                                 *)
(***************************************************************************)
\* assertAgentTaskAccountLease, phase "run".
MayLaunch(w) == job[w].ran = "pending" /\ job[w].stop = "uncalled"

Launch(w) ==
  /\ MayLaunch(w)
  /\ alive' = alive \cup {lease[w]}
  /\ UNCHANGED << table, pc, lease, job, outcome, issued >>

ProviderExits(l) ==
  /\ alive' = alive \ {l}
  /\ UNCHANGED << table, pc, lease, job, outcome, issued >>

\* run settles; the runtime looks at the clock once more and calls stop,
\* unless cancellation already has.
RunSettles(w, how) ==
  /\ Goto(w, "running", "stopping")
  /\ \E late \in BOOLEAN :
       job' = [job EXCEPT ![w] =
         LET j == [@ EXCEPT !.ran = how] IN
         IF late THEN CancelOnce(j, "deadline-exceeded") ELSE StopOnce(j)]
  /\ UNCHANGED << table, alive, lease, outcome, issued >>

StopProved(w) ==
  /\ job[w].stop = "pending"
  /\ job[w].ran # "pending"
  /\ lease[w] \notin alive
  /\ job' = [job EXCEPT ![w].stop = "proved"]
  /\ UNCHANGED << table, alive, pc, lease, outcome, issued >>

StopRejected(w) ==
  /\ job[w].stop = "pending"
  /\ job' = [job EXCEPT ![w].stop = "rejected"]
  /\ UNCHANGED << table, alive, pc, lease, outcome, issued >>

-----------------------------------------------------------------------------
(***************************************************************************)
(* The end of a task: stop has settled, then the broker's close.           *)
(***************************************************************************)
\* Mutant: nobody waits for the broker's handlers.
JoinedStop(w) ==
  /\ pc[w] = "stopping"
  /\ job[w].stop \in {"proved", "rejected"}

Joined(w) ==
  /\ pc[w] = "stopping"
  /\ job[w].stop \in {"proved", "rejected"}
  /\ job[w].pending = 0

\* A rejected stop, evidence or a completion bound to something else, or a
\* run that failed for no known reason: the account stays where it is.
KeepCustody(w) ==
  /\ Joined(w)
  /\ Return(w, "error")
  /\ UNCHANGED << table, alive, issued >>

\* What the caller is told: a late cleanup and a cancellation outrank what
\* the adapter says.
Result(j, late) ==
  IF late THEN "failed"
  ELSE IF j.cancelled # "no" THEN j.cancelled
  ELSE IF j.ran = "completed" THEN "completed" ELSE "failed"

Conclude(w) ==
  /\ Joined(w)
  /\ job[w].stop = "proved"
  /\ job[w].ran = "rejected" => job[w].cancelled # "no"
  /\ IF Current(lease[w])
       THEN /\ Release(lease[w])
            /\ \E late \in BOOLEAN : Return(w, Result(job[w], late))
       ELSE Return(w, "error") /\ UNCHANGED << table, issued >>
  /\ UNCHANGED alive

-----------------------------------------------------------------------------
(***************************************************************************)
(* A busy account: the command line looks who has it, asks for a proof     *)
(* that this very run has stopped, releases that lease and tries again.    *)
(***************************************************************************)
Busy(w) ==
  /\ pc[w] = "admitting"
  /\ owner[lease[w].account] # NoRun
  /\ \/ /\ job[w].tries = 0
        /\ Goto(w, "admitting", "busy")
        /\ UNCHANGED << lease, job, outcome >>
     \/ Return(w, "error")
  /\ UNCHANGED << table, alive, issued >>

\* The second attempt has a run id and a broker of its own.
TryAgain(w, from, r) ==
  /\ Goto(w, from, "admitting")
  /\ lease' = [lease EXCEPT ![w] = LeaseOf(@.account, r, 0)]
  /\ job'   = [job EXCEPT ![w] = NewJob(1, job[w].aborted)]
  /\ UNCHANGED << alive, outcome >>

InspectFree(w, r) ==
  /\ owner[lease[w].account] = NoRun
  /\ TryAgain(w, "busy", r)
  /\ UNCHANGED << table, issued >>

InspectHeld(w) ==
  /\ owner[lease[w].account] # NoRun
  /\ Goto(w, "busy", "proving")
  /\ lease' = [lease EXCEPT ![w] = Row(@.account)]
  /\ UNCHANGED << table, alive, job, outcome, issued >>

Drives(v, l) ==
  /\ pc[v] \in {"refusing", "running", "stopping"}
  /\ lease[v] = l

\* Mutant: the heartbeat deadline is taken for a proof.
ProveExpired(w) ==
  /\ Goto(w, "proving", "proved")
  /\ UNCHANGED << table, alive, lease, job, outcome, issued >>

\* proveAccountStopped of the host finds the owner of the lease gone and
\* pgrep finds no process that carries its run id.
ProveStopped(w) ==
  /\ Goto(w, "proving", "proved")
  /\ \A v \in Workers : ~ Drives(v, lease[w])
  /\ \A l \in alive : l.owner # lease[w].owner
  /\ UNCHANGED << table, alive, lease, job, outcome, issued >>

RecoverLease(w, r) ==
  /\ pc[w] = "proved"
  /\ Current(lease[w])
  /\ Release(lease[w])
  /\ TryAgain(w, "proved", r)

\* Unproven, or the lease changed meanwhile.
RecoveryFails(w) ==
  /\ pc[w] \in {"proving", "proved"}
  /\ pc[w] = "proved" => ~ Current(lease[w])
  /\ Return(w, "error")
  /\ UNCHANGED << table, alive, issued >>

\* The worker's process dies, its handlers with it; its provider may not.
Crash(w) ==
  /\ pc[w] # "dead"
  /\ pc'    = [pc EXCEPT ![w] = "dead"]
  /\ lease' = [lease EXCEPT ![w] = LeaseOf(@.account, NoRun, 0)]
  /\ job'   = [job EXCEPT ![w] = NewJob(0, TRUE)]
  /\ UNCHANGED << table, alive, outcome, issued >>

-----------------------------------------------------------------------------
Runtime(w) ==
  \/ PreflightFails(w) \/ Admit(w) \/ AdmitTooLate(w) \/ Refuse(w)
  \/ KeepCustody(w) \/ Conclude(w) \/ Busy(w) \/ InspectHeld(w)
  \/ \E r \in RunIds : InspectFree(w, r) \/ RecoverLease(w, r)
  \/ ProveStopped(w) \/ RecoveryFails(w)

Broker(w) ==
  InvokeTool(w) \/ StartHandler(w) \/ DropCall(w) \/ HandlerSettles(w)

Host(w) ==
  \/ \E a \in Accounts, r \in RunIds : Begin(w, a, r)
  \/ AbortSignal(w) \/ Deadline(w)

Adapter(w) ==
  \/ Launch(w) \/ StopProved(w) \/ StopRejected(w)
  \/ \E how \in {"completed", "failed", "stopped", "rejected"} : RunSettles(w, how)

Next ==
  \/ \E w \in Workers : Runtime(w) \/ Broker(w) \/ Host(w) \/ Adapter(w) \/ Crash(w)
  \/ \E l \in alive : ProviderExits(l)

Spec == Init /\ [][Next]_vars

-----------------------------------------------------------------------------
(***************************************************************************)
(* Safety.                                                                 *)
(***************************************************************************)
\* While the provider process of a task exists, the row of its account still
\* says so, whichever worker died, gave up, or recovered the account: release
\* comes "only after the adapter proves its provider process/controller
\* stopped" (accounts.ts).
ProviderHoldsLease == \A l \in alive : Current(l)

\* A tool handler of the host runs only while its task has the account: a
\* release never overtakes broker.close().
HandlersHoldLease == \A w \in Workers : job[w].executing => Current(lease[w])

\* A task whose signal was aborted before the account was given back never
\* reports completion, however late in the stop the abort came.
CancelledNotCompleted ==
  [][\A w \in Workers :
       outcome'[w] = "completed" /\ pc[w] = "stopping" /\ pc'[w] = "idle"
         => ~ job[w].aborted]_vars

\* What the native store promises, the lease table of the TypeScript host
\* promises too.
Holder(a) == IF owner[a] = NoRun THEN NoRun ELSE Row(a)

Custody == INSTANCE AccountCustody WITH
  Runs   <- Lease,
  holder <- [a \in Accounts |-> Holder(a)],
  live   <- alive,
  used   <- issued

TaskCustodyKept == Custody!CustodySpec

(***************************************************************************)
(* Why custody is kept: the inductive invariant behind ProviderHoldsLease  *)
(* and HandlersHoldLease (see TaskProofs).                                 *)
(***************************************************************************)
\* What a worker may rely on at each point of runAgentTask and of a recovery.
WorkerSound(w) ==
  /\ job[w].ran = "pending" <=> pc[w] = "running"
  /\ job[w].stop # "uncalled" => pc[w] \in {"running", "stopping"}
  /\ job[w].stop = "proved" => pc[w] = "stopping"
  /\ job[w].pending > 0 => pc[w] \in {"running", "stopping"}
  /\ pc[w] = "refusing" \/ job[w].stop = "proved" => lease[w] \notin alive
  /\ pc[w] \in {"refusing", "running", "stopping"} => Current(lease[w])
  /\ pc[w] \in {"proving", "proved"} =>
       /\ lease[w].owner # NoRun
       /\ lease[w].generation <= generation[lease[w].account]
  /\ pc[w] = "proved" =>
       /\ lease[w] \notin alive
       /\ \A v \in Workers : ~ Drives(v, lease[w])
  /\ pc[w] \in {"admitting", "refusing", "running", "stopping"} =>
       lease[w].owner \in RunIds

\* No lease is driven by two tasks.
OwnLeases ==
  \A v, w \in Workers : Drives(v, lease[w]) /\ Drives(w, lease[w]) => v = w

\* Rows, provider processes, tasks and recoveries agree on who has which
\* account, at every step of admission, cancellation, joining, recovery and
\* crash.
TaskInv ==
  /\ ProviderHoldsLease
  /\ \A l \in alive : l.owner # NoRun
  /\ \A w \in Workers : WorkerSound(w)
  /\ OwnLeases
=============================================================================
