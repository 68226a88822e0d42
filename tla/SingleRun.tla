----------------------------- MODULE SingleRun ------------------------------
(* One contact run (src/src/runtime.ts: Xcb.run) over its scoped tool broker   *)
(* (broker.ts), with the two adapters that serve it: the Claude Agent SDK in a *)
(* process of its own (claude-sdk.ts) and the Messages API in this process     *)
(* (claude-api.ts).  Several runs want one account.  The provider is free: it  *)
(* may answer anything in any order, exit, or survive its signals; tool        *)
(* handlers of the application take as long as they like.                      *)
EXTENDS Naturals

CONSTANTS
    Contacts,       \* the runs, all on one account
    Vacant,         \* no run: the account is free
    ToolBudget,     \* bound: tool calls the provider of one run makes
    TurnLimit       \* maxTurns of the API adapter

ASSUME SingleRunAssumption == Vacant \notin Contacts /\ ToolBudget \in Nat /\ TurnLimit \in Nat \ {0}

VARIABLES
    holder,     \* the run whose lease the account row holds, or Vacant
    single,     \* what Xcb.run and the adapter keep of each run
    broker,     \* of each broker: calls behind its tail, a running handler
    sdk         \* the provider process of each SDK run: "none", "alive", "gone"

singleVars == <<holder, single, broker, sdk>>

SingleInit ==
    /\ holder = Vacant
    /\ \E via \in [Contacts -> {"sdk", "api"}], work \in [Contacts -> {"respond", "classify"}] :
         single = [c \in Contacts |->
           [at |-> "asked", via |-> via[c], work |-> work[c], aborted |-> FALSE,
            admitted |-> FALSE, seen |-> FALSE, failed |-> FALSE, stopped |-> TRUE,
            dir |-> FALSE, turn |-> 0, calls |-> 0, used |-> 0, outcome |-> "none"]]
    /\ broker = [c \in Contacts |-> [waiting |-> 0, running |-> FALSE, revoked |-> FALSE, told |-> FALSE]]
    /\ sdk = [c \in Contacts |-> "none"]

Stands(c, step) == single[c].at = step
Sdk(c, step) == single[c].via = "sdk" /\ Stands(c, step)
Api(c, step) == single[c].via = "api" /\ Stands(c, step)
Moves(c, step) == [single EXCEPT ![c].at = step]
\* How an adapter ends: "done", "stopped" (AgentStoppedError) or "error".
Ends(c, how) == [single EXCEPT ![c].at = "answered", ![c].outcome = how]

\* The caller's signal, or the deadline of the adapter: its controller aborts.
AbortRun(c) ==
    /\ ~single[c].aborted /\ single[c].at \notin {"answered", "settled", "returned"}
    /\ single' = [single EXCEPT ![c].aborted = TRUE]
    /\ UNCHANGED <<holder, broker, sdk>>

(***************************************************************************)
(* Xcb.run.                                                                *)
(***************************************************************************)
\* runAdmitted up to the adapter: a guard refuses, or the row was free.
AdmitRun(c) ==
    /\ Stands(c, "asked")
    /\ \/ /\ ~single[c].aborted /\ holder = Vacant
          /\ holder' = c
          /\ single' = Moves(c, IF single[c].via = "sdk" THEN "preflight" ELSE "catalog")
       \/ /\ single' = [single EXCEPT ![c].at = "settled", ![c].outcome = "refused"]
          /\ UNCHANGED holder
    /\ UNCHANGED <<broker, sdk>>

\* The release after the adapter: only a result or an AgentStoppedError proves
\* that nothing of the run is left; any other rejection keeps the account.
ReleasesAnyway(c) == holder = c
Releases(c) == holder = c /\ single[c].outcome \in {"done", "stopped"}
SettleRun(c) ==
    /\ Stands(c, "answered")
    /\ holder' = IF Releases(c) THEN Vacant ELSE holder
    /\ single' = Moves(c, "settled")
    /\ UNCHANGED <<broker, sdk>>

\* The finally of run, some turns of the microtask queue later.
RevokeBroker(c) ==
    /\ Stands(c, "settled")
    /\ broker' = [broker EXCEPT ![c].revoked = TRUE]
    /\ single' = Moves(c, "returned")
    /\ UNCHANGED <<holder, sdk>>

\* Mutant: the lease is taken back on the host's word alone.
RecoverUnproven(c) ==
    /\ Stands(c, "returned") /\ holder = c
    /\ holder' = Vacant
    /\ UNCHANGED <<single, broker, sdk>>

\* SqliteAccountLeases.recover: the host proves the process of a kept run gone.
RecoverRun(c) ==
    /\ Stands(c, "returned") /\ holder = c /\ sdk[c] # "alive"
    /\ holder' = Vacant
    /\ UNCHANGED <<single, broker, sdk>>

(***************************************************************************)
(* The broker.                                                             *)
(***************************************************************************)
\* invoke: the call waits behind the tail.
CallWaits(c) == [broker EXCEPT ![c].waiting = @ + 1, ![c].told = FALSE]

\* dispatch: a revoked broker refuses; so does one whose host aborted it, that
\* lacks the tool or gets an input it cannot take.  Handlers run one at a time.
DispatchCall(c) ==
    /\ broker[c].waiting > 0 /\ ~broker[c].running
    /\ \/ /\ ~broker[c].revoked
          /\ broker' = [broker EXCEPT ![c].waiting = @ - 1, ![c].running = TRUE]
       \/ broker' = [broker EXCEPT ![c].waiting = @ - 1, ![c].told = TRUE]
    /\ UNCHANGED <<holder, single, sdk>>

\* The handler settles, and its caller gets the result or an error.
HandlerSettles(c) ==
    /\ broker[c].running
    /\ broker' = [broker EXCEPT ![c].running = FALSE, ![c].told = TRUE]
    /\ UNCHANGED <<holder, single, sdk>>

(***************************************************************************)
(* The SDK adapter.                                                        *)
(***************************************************************************)
\* Qualification, binding, the pinned runtime, the state root, the directory:
\* what fails here fails with nothing started.
PreflightSdk(c) ==
    /\ Sdk(c, "preflight")
    /\ \/ single' = Ends(c, "stopped")
       \/ ~single[c].aborted /\ single' = [single EXCEPT ![c].at = "stage", ![c].dir = TRUE]
    /\ UNCHANGED <<holder, broker, sdk>>

\* The subdirectories, the executable snapshot, the key, then query().
StageSdk(c) ==
    /\ Sdk(c, "stage")
    /\ single' \in {Moves(c, "stream"), [Moves(c, "leave") EXCEPT ![c].failed = TRUE]}
    /\ UNCHANGED <<holder, broker, sdk>>

\* spawnClaudeCodeProcess: the process counts as running before the factory is
\* asked, so a factory that throws leaves a stop nobody can prove.
SpawnSdk(c) ==
    /\ Sdk(c, "stream") /\ sdk[c] = "none" /\ single[c].stopped /\ ~single[c].aborted
    /\ \/ /\ single' = [single EXCEPT ![c].stopped = FALSE]
          /\ sdk' = [sdk EXCEPT ![c] = "alive"]
       \/ /\ single' = [Moves(c, "close") EXCEPT ![c].stopped = FALSE, ![c].failed = TRUE]
          /\ UNCHANGED sdk
    /\ UNCHANGED <<holder, broker>>

\* The tool handlers of the SDK: they answer nothing before init and after close.
SdkToolCall(c) ==
    /\ Sdk(c, "stream") /\ sdk[c] = "alive"
    /\ single[c].work = "respond" /\ single[c].used < ToolBudget
    /\ broker' = IF single[c].admitted /\ ~single[c].aborted THEN CallWaits(c) ELSE broker
    /\ single' = [single EXCEPT ![c].used = @ + 1]
    /\ UNCHANGED <<holder, sdk>>

\* The event loop: init is checked against the request, the one result comes
\* after it, the stream ends; every surprise and every abort fails the run.
SdkEvent(c) ==
    /\ Sdk(c, "stream")
    /\ \/ sdk[c] = "alive" /\ ~single[c].aborted /\ single' = [single EXCEPT ![c].admitted = TRUE]
       \/ /\ sdk[c] = "alive" /\ ~single[c].aborted /\ single[c].admitted /\ ~single[c].seen
          /\ single' = [single EXCEPT ![c].seen = TRUE]
       \/ single' = [Moves(c, "close") EXCEPT ![c].failed = TRUE]
       \/ single[c].seen /\ single' = Moves(c, "close")
    /\ UNCHANGED <<holder, broker, sdk>>

SdkExits(c) ==
    /\ sdk[c] = "alive"
    /\ sdk' = [sdk EXCEPT ![c] = "gone"]
    /\ UNCHANGED <<holder, single, broker>>

\* The inner finally: stopAndJoin signals the group and waits; it returns only
\* when the group is gone, else it throws and the stop stays unproven.
CloseSdk(c) ==
    /\ Sdk(c, "close")
    /\ \/ /\ sdk[c] # "none"
          /\ sdk' = [sdk EXCEPT ![c] = "gone"]
          /\ single' = [Moves(c, "leave") EXCEPT ![c].admitted = FALSE, ![c].stopped = TRUE]
       \/ /\ sdk[c] # "none"
          /\ single' = [Moves(c, "leave") EXCEPT ![c].admitted = FALSE, ![c].failed = TRUE]
          /\ UNCHANGED sdk
       \/ /\ sdk[c] = "none"
          /\ single' = [Moves(c, "leave") EXCEPT ![c].admitted = FALSE]
          /\ UNCHANGED sdk
    /\ UNCHANGED <<holder, broker>>

\* The outer catch and finally: the directory goes only with a proven stop, and
\* an rm that throws replaces the answer by an error of its own.
SdkAnswer(c) == IF ~single[c].stopped THEN "error"
                ELSE IF single[c].failed \/ single[c].aborted THEN "stopped" ELSE "done"
LeaveSdk(c) ==
    /\ Sdk(c, "leave")
    /\ \/ single' = [Ends(c, SdkAnswer(c)) EXCEPT ![c].dir = ~single[c].stopped]
       \/ single[c].stopped /\ single' = Ends(c, "error")
    /\ UNCHANGED <<holder, broker, sdk>>

(***************************************************************************)
(* The API adapter: no process, every failure is an AgentStoppedError.     *)
(***************************************************************************)
\* The binding, the model and the key; then the first turn.
ChooseModel(c) ==
    /\ Api(c, "catalog")
    /\ single' \in {Moves(c, "turn"), Ends(c, "stopped")}
    /\ UNCHANGED <<holder, broker, sdk>>

\* A turn sends what the budget still reserves; a classifier has one turn.
Turns(c) == IF single[c].work = "classify" THEN 1 ELSE TurnLimit
SendTurn(c) ==
    /\ Api(c, "turn")
    /\ \/ single[c].turn < Turns(c) /\ ~single[c].aborted
          /\ single' = [Moves(c, "reply") EXCEPT ![c].turn = @ + 1]
       \/ single' = Ends(c, "stopped")
    /\ UNCHANGED <<holder, broker, sdk>>

\* The reply: the final text, a batch of tool calls, or something invalid.
ReadReply(c) ==
    /\ Api(c, "reply")
    /\ \/ ~single[c].aborted /\ single' = Ends(c, "done")
       \/ /\ ~single[c].aborted /\ single[c].work = "respond"
          /\ \E n \in 1..(ToolBudget - single[c].used) :
               single' = [Moves(c, "tools") EXCEPT ![c].calls = n, ![c].used = @ + n]
       \/ single' = Ends(c, "stopped")
    /\ UNCHANGED <<holder, broker, sdk>>

\* The calls of a batch, one after the other; each is awaited whatever happens,
\* and an abort is looked at before and after it.
AskTool(c) ==
    /\ Api(c, "tools")
    /\ IF single[c].aborted THEN single' = Ends(c, "stopped") /\ UNCHANGED broker
       ELSE IF single[c].calls = 0 THEN single' = Moves(c, "turn") /\ UNCHANGED broker
       ELSE /\ broker' = CallWaits(c)
            /\ single' = [Moves(c, "wait") EXCEPT ![c].calls = @ - 1]
    /\ UNCHANGED <<holder, sdk>>

ToolTold(c) == broker[c].told
TakeResult(c) ==
    /\ Api(c, "wait") /\ ToolTold(c)
    /\ single' = Moves(c, "tools")
    /\ UNCHANGED <<holder, broker, sdk>>

SingleNext ==
    \E c \in Contacts :
        \/ AbortRun(c) \/ AdmitRun(c) \/ SettleRun(c) \/ RevokeBroker(c) \/ RecoverRun(c)
        \/ DispatchCall(c) \/ HandlerSettles(c)
        \/ PreflightSdk(c) \/ StageSdk(c) \/ SpawnSdk(c) \/ SdkToolCall(c) \/ SdkEvent(c)
        \/ SdkExits(c) \/ CloseSdk(c) \/ LeaveSdk(c)
        \/ ChooseModel(c) \/ SendTurn(c) \/ ReadReply(c) \/ AskTool(c) \/ TakeResult(c)

SingleSpec == SingleInit /\ [][SingleNext]_singleVars

\* What a run started is not left behind when the account is given back: a live
\* provider process has the account and its directory, whatever failed on the
\* way; the tool handlers of an API run are over (runtime.ts: runAdmitted).
\* One of an SDK run may go on: run revokes the broker and does not wait for it.
AccountCoversRun ==
    \A c \in Contacts :
        /\ sdk[c] = "alive" => holder = c /\ single[c].dir
        /\ broker[c].running /\ holder # c =>
             single[c].via = "sdk" /\ single[c].at \in {"settled", "returned"}

\* What the stores promise of an account, these runs promise of theirs: one run
\* at a time has it, once, its process lives only while it has it, and only when
\* that is gone is the account given back (runtime.ts: runAdmitted; recover).
WasAdmitted(c) == single[c].at # "asked" /\ single[c].outcome # "refused"
Custody == INSTANCE AccountCustody WITH
    Accounts <- {"account"},
    Runs     <- Contacts,
    NoRun    <- Vacant,
    holder   <- [a \in {"account"} |-> holder],
    live     <- {c \in Contacts : sdk[c] = "alive"},
    used     <- {c \in Contacts : WasAdmitted(c)}
SingleCustody == Custody!CustodySpec
=============================================================================
