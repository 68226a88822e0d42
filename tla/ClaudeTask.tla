------------------------------ MODULE ClaudeTask ------------------------------
(***************************************************************************)
(* TaskRuntime with the Claude Code adapter (src/claude-task-adapter.ts)   *)
(* and the provider process it owns (src/provider-process.ts) in place of  *)
(* an adapter that honours its interface.  Each worker is one process of   *)
(* the command line with one adapter, which runs one turn after another.   *)
(*                                                                         *)
(* Run ids are random here, so the directory claude-run-<runId> of a task  *)
(* is identified by its lease.                                             *)
(***************************************************************************)
EXTENDS TaskRuntime

VARIABLES
  slot,    \* the adapter's record of the worker's task, see Slot
  active,  \* whether the adapter still counts a task as running
  dirs     \* launch directories that exist

claudeVars == << vars, slot, active, dirs >>

Slot == [ stage   : {"none", "preparing", "running", "joining", "settled"},
          busy    : BOOLEAN,   \* another task was active: nothing is launched
          aborted : BOOLEAN,   \* slot.controller
          started : BOOLEAN,   \* slot.sessionStarted
          stopped : BOOLEAN ]  \* slot.processStopped
NewSlot(busy) ==
  [ stage |-> "preparing", busy |-> busy, aborted |-> FALSE, started |-> FALSE,
    stopped |-> TRUE ]
NoSlot == [ NewSlot(FALSE) EXCEPT !.stage = "none" ]

ClaudeInit ==
  /\ Init
  /\ slot   = [w \in Workers |-> NoSlot]
  /\ active = [w \in Workers |-> FALSE]
  /\ dirs   = {}

ClaudeAdmit(w) ==
  /\ Admit(w)
  /\ slot'   = [slot EXCEPT ![w] = NewSlot(active[w])]
  /\ active' = [active EXCEPT ![w] = TRUE]
  /\ UNCHANGED dirs

\* Everything that can go wrong before there is a child; the directory, if
\* it was made, is removed again.
PrepareFails(w) ==
  /\ slot[w].stage = "preparing"
  /\ RunSettles(w, "failed")
  /\ \E entered \in BOOLEAN :
       slot' = [slot EXCEPT ![w].stage = "settled", ![w].started = entered]
  /\ UNCHANGED << active, dirs >>

Spawn(w) ==
  /\ slot[w].stage = "preparing"
  /\ ~ slot[w].busy /\ ~ slot[w].aborted
  /\ alive' = alive \cup {lease[w]}
  /\ dirs'  = dirs \cup {lease[w]}
  /\ slot'  = [slot EXCEPT ![w].stage = "running"]
  /\ UNCHANGED << table, pc, lease, job, outcome, issued, active >>

\* stop has been called, the adapter's own deadline is over, or the provider
\* wrote more than it may.
AbortSlot(w) ==
  /\ slot[w].stage \in {"preparing", "running", "joining", "settled"}
  /\ slot[w].stage = "settled" => job[w].stop = "pending"
  /\ slot' = [slot EXCEPT ![w].aborted = TRUE]
  /\ UNCHANGED << vars, active, dirs >>

CallTool(w) ==
  /\ slot[w].stage = "running" /\ ~ slot[w].aborted
  /\ InvokeTool(w)
  /\ UNCHANGED << slot, active, dirs >>

\* A result, an error, or the abort; no tool is admitted from here on.
ProviderTurnEnds(w) ==
  /\ slot[w].stage = "running"
  /\ slot' = [slot EXCEPT ![w].stage = "joining"]
  /\ UNCHANGED << vars, active, dirs >>

\* runProvider is left, and with it execute, which turns errors into a
\* failed completion.
LeaveProvider(w, how, stopped) ==
  /\ slot[w].stage = "joining"
  /\ RunSettles(w, how)
  /\ slot' = [slot EXCEPT ![w].stage = "settled", ![w].started = TRUE,
                          ![w].stopped = stopped]
  /\ UNCHANGED active

\* stopAndJoin resolves; the child has exited and its group is gone.
ProcessJoined(w) ==
  /\ lease[w] \notin alive
  /\ \E how \in {"completed", "failed"} :
       /\ slot[w].aborted => how = "failed"
       /\ LeaveProvider(w, how, TRUE)
  /\ dirs' = dirs \ {lease[w]}

\* The handle of another processFactory does not claim that it stopped.
ProcessNotStopped(w) ==
  /\ LeaveProvider(w, "failed", FALSE)
  /\ UNCHANGED dirs

\* Mutant: the directory is removed whether or not the process was joined.
JoinThrowsCleanup(w) ==
  /\ lease[w] \in alive
  /\ LeaveProvider(w, "failed", slot[w].stopped)
  /\ dirs' = dirs \ {lease[w]}

\* The group outlives SIGTERM, SIGKILL and both waits: stopAndJoin throws
\* PROVIDER_PROCESS_GROUP_EXIT_UNPROVEN, which skips the assignment of
\* slot.processStopped.
JoinThrows(w) ==
  /\ lease[w] \in alive
  /\ LeaveProvider(w, "failed", slot[w].stopped)
  /\ UNCHANGED dirs

\* Mutant: a stop that cannot be proved is never answered.
ClaudeStopUnjoined(w) ==
  /\ slot[w].stage = "settled" /\ slot[w].aborted
  /\ job[w].stop = "pending"
  /\ ~ (slot[w].started /\ ~ slot[w].stopped)
  /\ job'    = [job EXCEPT ![w].stop = "proved"]
  /\ active' = [active EXCEPT ![w] = slot[w].busy]
  /\ UNCHANGED << table, alive, pc, lease, outcome, issued, slot, dirs >>

\* Mutant: the end of run is taken for the end of its process.
ClaudeStopTrusts(w) ==
  /\ slot[w].stage = "settled" /\ slot[w].aborted
  /\ job[w].stop = "pending"
  /\ job'    = [job EXCEPT ![w].stop = "proved"]
  /\ active' = [active EXCEPT ![w] = slot[w].busy]
  /\ UNCHANGED << table, alive, pc, lease, outcome, issued, slot, dirs >>

\* stop: after the abort and after run.
ClaudeStop(w) ==
  /\ slot[w].stage = "settled" /\ slot[w].aborted
  /\ job[w].stop = "pending"
  /\ IF slot[w].started /\ ~ slot[w].stopped
       THEN job' = [job EXCEPT ![w].stop = "rejected"] /\ UNCHANGED active
       ELSE /\ job'    = [job EXCEPT ![w].stop = "proved"]
            /\ active' = [active EXCEPT ![w] = slot[w].busy]
  /\ UNCHANGED << table, alive, pc, lease, outcome, issued, slot, dirs >>

\* The adapter's memory dies with its process; directories stay.
ClaudeCrash(w) ==
  /\ Crash(w)
  /\ slot'   = [slot EXCEPT ![w] = NoSlot]
  /\ active' = [active EXCEPT ![w] = FALSE]
  /\ UNCHANGED dirs

-----------------------------------------------------------------------------
\* The rest of TaskRuntime does not touch the adapter.
Elsewhere == UNCHANGED << slot, active, dirs >>

\* A slot is kept under the signal of its task only (slots is a WeakMap).
ClaudeRuntime(w) ==
  \/ ClaudeAdmit(w)
  \/ (Conclude(w) \/ KeepCustody(w))
       /\ slot' = [slot EXCEPT ![w] = NoSlot]
       /\ UNCHANGED << active, dirs >>
  \/ /\ \/ PreflightFails(w) \/ AdmitTooLate(w) \/ Refuse(w)
        \/ Busy(w) \/ InspectHeld(w) \/ ProveStopped(w) \/ RecoveryFails(w)
        \/ \E r \in RunIds : InspectFree(w, r) \/ RecoverLease(w, r)
     /\ Elsewhere

ClaudeBroker(w) ==
  (StartHandler(w) \/ DropCall(w) \/ HandlerSettles(w)) /\ Elsewhere

Prepare(w)  == Spawn(w) \/ PrepareFails(w)
JoinEnds(w) == ProcessJoined(w) \/ ProcessNotStopped(w) \/ JoinThrows(w)

ClaudeAdapter(w) ==
  \/ Prepare(w) \/ AbortSlot(w) \/ CallTool(w) \/ ProviderTurnEnds(w)
  \/ JoinEnds(w) \/ ClaudeStop(w)

ClaudeNext ==
  \/ \E w \in Workers :
       \/ ClaudeRuntime(w) \/ ClaudeBroker(w) \/ ClaudeAdapter(w)
       \/ Host(w) /\ Elsewhere
       \/ ClaudeCrash(w)
  \/ \E l \in alive : ProviderExits(l) /\ Elsewhere

ClaudeSpec == ClaudeInit /\ [][ClaudeNext]_claudeVars

\* The same where no process group outlives its signals.
JoiningNext == ClaudeNext /\ \A w \in Workers : ~ JoinThrows(w)
JoiningSpec == ClaudeInit /\ [][JoiningNext]_claudeVars

(***************************************************************************)
(* Every await of a live worker is answered: tool handlers settle, the     *)
(* Agent SDK ends its stream when it is aborted or at the adapter's        *)
(* deadline, and stopAndJoin gives up after two seconds.  Nothing is       *)
(* assumed of the host, of crashes, or of the provider process.            *)
(***************************************************************************)
ClaudeFairSpec ==
  /\ ClaudeSpec
  /\ \A w \in Workers :
       /\ WF_claudeVars(ClaudeRuntime(w))
       /\ WF_claudeVars(ClaudeBroker(w))
       /\ WF_claudeVars(Prepare(w))
       /\ WF_claudeVars(ProviderTurnEnds(w))
       /\ WF_claudeVars(JoinEnds(w))
       /\ WF_claudeVars(AbortSlot(w))
       /\ WF_claudeVars(ClaudeStop(w))

-----------------------------------------------------------------------------
\* The launch directory, with the executable and the home of the provider, is
\* there as long as the provider is, also when nobody could join it.
ScratchOutlivesProvider == alive \subseteq dirs

\* A host call comes back: run, stop, the broker's close and the recovery of
\* a busy account never wait for each other.
CallsReturn ==
  \A w \in Workers : pc[w] \notin {"idle", "dead"} ~> pc[w] \in {"idle", "dead"}
=============================================================================
