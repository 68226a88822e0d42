----------------------------- MODULE DevinTask ------------------------------
(* The Devin task adapter (src/src/devin-adapter.ts), the ACP client that     *)
(* speaks to its devin (devin-client.ts, codec devin-acp.ts), the tool relay  *)
(* (devin-mcp.ts) and the process the devin runs in (provider-process.ts).    *)
(* A frame is a kind; a delta is counted, its text is not.  The devin is      *)
(* free: it may answer, refuse, send nonsense, stay silent, exit or survive   *)
(* its signals.  Calls of the relay into the broker are joined by the broker  *)
(* and are modelled there.                                                    *)
EXTENDS Naturals, Sequences

CONSTANTS
    Runs,           \* execution requests given to the adapter
    NoRun,           \* no active run
    OutputLimit,    \* deltas that fit maxOutputBytes
    MaxFrames       \* bound: deltas and bad frames one child sends

ASSUME DevinAssumption ==
    /\ NoRun \notin Runs
    /\ OutputLimit \in Nat
    /\ MaxFrames \in Nat

VARIABLES
    active,     \* the run the adapter serves, or NoRun
    turn,       \* what the adapter and its client keep of each run
    devin       \* the provider of each run: its process and what it sent

devinVars == <<active, turn, devin>>

\* The requests execute() makes of the client, in order; prompt is the last.
Requests == <<"initialize", "session/new", "configure", "session/prompt">>

DevinInit ==
    /\ active = NoRun
    /\ turn = [r \in Runs |->
         [stage |-> "none", busy |-> FALSE, aborted |-> FALSE, relay |-> "down",
          launched |-> FALSE, stopped |-> FALSE, step |-> 1, answered |-> FALSE,
          out |-> 0, cut |-> FALSE, returns |-> FALSE, result |-> "none", stop |-> "none"]]
    /\ devin = [r \in Runs |->
         [process |-> "none", pipe |-> <<>>, sent |-> 0, said |-> 0, replied |-> 0]]

In(r, l) == turn[r].stage = l

\* run: the second run of a busy adapter gets a slot too, and fails in it.
RunDevin(r) ==
    /\ In(r, "none")
    /\ turn' = [turn EXCEPT ![r].stage = "admitted", ![r].busy = active # NoRun]
    /\ active' = IF active = NoRun THEN r ELSE active
    /\ UNCHANGED devin

\* execute: the lease and the signal are checked once, then the relay listens,
\* if the profile has tools; without a lease, a bridge or a port the run fails.
StartRelay(r) ==
    /\ In(r, "admitted")
    /\ \/ turn' = [turn EXCEPT ![r].stage = "done", ![r].result = "failed"]
       \/ /\ ~turn[r].busy /\ ~turn[r].aborted
          /\ \E relay \in {"up", "down"} :
               turn' = [turn EXCEPT ![r].stage = "relay", ![r].relay = relay]
    /\ UNCHANGED <<active, devin>>

\* The factory spawns the child, or throws without one.
LaunchDevin(r) ==
    /\ In(r, "relay")
    /\ \/ /\ turn' = [turn EXCEPT ![r].stage = "request", ![r].launched = TRUE]
          /\ devin' = [devin EXCEPT ![r].process = "alive"]
       \/ /\ turn' = [turn EXCEPT ![r].stage = "relayStop"]
          /\ UNCHANGED devin
    /\ UNCHANGED active

\* The child sends a delta, or the one reply to the request it has, or a frame
\* that fails the client: an error reply or one the codec refuses.
DevinSends(r) ==
    /\ devin[r].process = "alive"
    /\ \E f \in {"delta", "ok", "bad"} :
        /\ IF f = "ok" THEN In(r, "request") /\ devin[r].replied < turn[r].step
                       ELSE devin[r].sent < MaxFrames
        /\ devin' = [devin EXCEPT
             ![r].pipe = Append(@, f),
             ![r].sent = IF f = "ok" THEN @ ELSE @ + 1,
             ![r].replied = IF f = "ok" THEN turn[r].step ELSE @,
             ![r].said = IF f = "delta" /\ devin[r].replied < Len(Requests) THEN @ + 1 ELSE @]
    /\ UNCHANGED <<active, turn>>

\* appendDelta: text past the limit ends the run instead of being clipped.
DeltaFits(r) == ~turn[r].cut /\ turn[r].out < OutputLimit

TakeDelta(r) ==
    IF DeltaFits(r) THEN [turn EXCEPT ![r].out = @ + 1]
                    ELSE [turn EXCEPT ![r].cut = TRUE, ![r].aborted = TRUE]

\* A reply settles the pending request; the reply to the prompt ends the work.
TakeReply(r) ==
    IF ~In(r, "request") THEN turn
    ELSE IF turn[r].step = Len(Requests)
         THEN [turn EXCEPT ![r].stage = "close", ![r].answered = TRUE]
         ELSE [turn EXCEPT ![r].step = @ + 1]

\* #fail: every pending request is rejected, so the workflow goes to its finally.
ClientFails(r) == IF In(r, "request") THEN [turn EXCEPT ![r].stage = "close"] ELSE turn

\* #readLoop and #dispatch.  The reader also runs while the client closes.
Read(r) ==
    /\ In(r, "request") \/ In(r, "close")
    /\ devin[r].pipe # <<>>
    /\ devin' = [devin EXCEPT ![r].pipe = Tail(@)]
    /\ LET f == Head(devin[r].pipe) IN
         turn' = CASE f = "delta" -> TakeDelta(r)
                   [] f = "ok"    -> TakeReply(r)
                   [] OTHER       -> ClientFails(r)
    /\ UNCHANGED active

\* The child exits; the exit event rejects the pending request at once, even if
\* its answer is still unread in the pipe.
DevinExits(r) ==
    /\ devin[r].process = "alive"
    /\ devin' = [devin EXCEPT ![r].process = "gone"]
    /\ UNCHANGED <<active, turn>>

ExitSeen(r) ==
    /\ In(r, "request") /\ devin[r].process = "gone"
    /\ turn' = ClientFails(r)
    /\ UNCHANGED <<active, devin>>

\* The signal of the request, the output limit or stop() aborts the run; the
\* request in flight is rejected when that is noticed.
AbortDevin(r) ==
    /\ turn[r].stage \notin {"none", "done"} /\ ~turn[r].aborted
    /\ turn' = [turn EXCEPT ![r].aborted = TRUE]
    /\ UNCHANGED <<active, devin>>

AbortSeen(r) ==
    /\ turn[r].aborted /\ In(r, "request")
    /\ turn' = ClientFails(r)
    /\ UNCHANGED <<active, devin>>

\* client.close: SIGTERM, a grace, then stopAndJoin.  It proves that the group
\* is gone, or throws and processStopped stays false.
GroupGone(r) == devin'[r].process = "gone"

\* Right after it, and before the relay is stopped, it is settled whether the
\* run completes: an abort that comes later finds it settled.
Succeeded(r) ==
    /\ turn[r].answered /\ GroupGone(r)
    /\ ~turn[r].cut /\ ~turn[r].aborted

CloseClient(r) ==
    /\ In(r, "close")
    /\ \E after \in {devin[r].process, "gone"} : devin' = [devin EXCEPT ![r].process = after, ![r].pipe = <<>>]
    /\ turn' = [turn EXCEPT ![r].stage = "relayStop", ![r].stopped = GroupGone(r),
                            ![r].returns = Succeeded(r)]
    /\ UNCHANGED active

\* The relay is stopped whatever happened; then the run returns.
StopRelay(r) ==
    /\ In(r, "relayStop")
    /\ turn' = [turn EXCEPT ![r].stage = "done",
                            ![r].relay = IF @ = "up" THEN "closed" ELSE @,
                            ![r].result = IF turn[r].returns THEN "completed" ELSE "failed"]
    /\ UNCHANGED <<active, devin>>

\* stop: abort, wait for the run, and give evidence or refuse it.
StopDevin(r) ==
    /\ turn[r].stage # "none" /\ turn[r].stop = "none"
    /\ turn' = [turn EXCEPT ![r].stop = "asked", ![r].aborted = TRUE]
    /\ UNCHANGED <<active, devin>>

\* Mutant: a run that is over is evidence enough.
StopAssumed(r) == TRUE

StopProven(r) == turn[r].launched => turn[r].stopped

StopAnswers(r) ==
    /\ turn[r].stop = "asked" /\ In(r, "done")
    /\ turn' = [turn EXCEPT ![r].stop = IF StopProven(r) THEN "evidence" ELSE "unproven"]
    /\ active' = IF StopProven(r) /\ active = r THEN NoRun ELSE active
    /\ UNCHANGED devin

DevinHost(r) ==
    \/ StartRelay(r) \/ LaunchDevin(r) \/ Read(r) \/ ExitSeen(r) \/ AbortSeen(r)
    \/ CloseClient(r) \/ StopRelay(r) \/ StopAnswers(r)

DevinNext == \E r \in Runs :
    DevinHost(r) \/ RunDevin(r) \/ DevinSends(r) \/ DevinExits(r) \/ AbortDevin(r) \/ StopDevin(r)

DevinSpec == DevinInit /\ [][DevinNext]_devinVars

-----------------------------------------------------------------------------
\* A run is reported completed only when its prompt was answered, every delta
\* the provider sent before that answer is in the output, and its process and
\* relay are gone.  Evidence of a stop is given only when the provider of the
\* run is gone; one whose stop was refused keeps the adapter, so two providers
\* never run at once.
DevinKeepsItsWord ==
    /\ \A r \in Runs : turn[r].result = "completed" =>
         /\ devin[r].replied = Len(Requests) /\ turn[r].out >= devin[r].said
         /\ devin[r].process = "gone" /\ turn[r].relay # "up"
    /\ \A r \in Runs : turn[r].stop = "evidence" => devin[r].process # "alive"
    /\ \A r, q \in Runs : devin[r].process = "alive" /\ devin[q].process = "alive" => r = q
=============================================================================
