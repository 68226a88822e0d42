---------------------------- MODULE CodexRelay ----------------------------
(* One Codex turn with its loopback relay: runCodexSession (codex-session.ts)   *)
(* and startCodexRelay (codex-relay.ts).  The native child talks to the session *)
(* over its stdout and stdin, and to the relay over HTTP; the relay asks the    *)
(* upstream model.  Nothing orders a frame on one channel against a request on  *)
(* the other: native may post its first request before the reply that binds the *)
(* turn was read, and its next one before the write of a tool answer settled.   *)
(*                                                                              *)
(* A frame is its kind and the call it names (0 for none).  Request validation  *)
(* is one Boolean, "the body is the exact history".  Every deadline, cancel,    *)
(* premature exit, failed write or bad upstream answer sets the history         *)
(* variable fault; a frame or a post outside the protocol counts in nat.wild.   *)
EXTENDS Naturals, Sequences

CONSTANTS MaxIssued, \* limits.maxRequests - 1: calls the model may issue
          MaxRelayWild    \* bound: frames and posts of native outside the protocol

ASSUME RelayBounds == MaxIssued \in Nat /\ MaxRelayWild \in Nat

VARIABLES run,    \* the session: workflow, message handler and cleanup
          relay,  \* the relay's fields that its requests and close() share
          post,   \* the HTTP operation in progress and whether its body is exact
          up,     \* the upstream promise: "none" or "asked"
          call,   \* the Call records, in the order they were issued
          nat,    \* native: where it is, what it still has to emit
          out,    \* frames native wrote that the session has not handled
          fault   \* history: somebody other than native broke the turn

relayVars == <<run, relay, post, up, call, nat, out, fault>>

RelayCalls == 1..MaxIssued
RelayFrame(k, c) == [k |-> k, c |-> c]
RelayKinds == {"initialize", "thread", "turn", "turnstarted", "started", "call",
          "completed", "final", "turncompleted", "forbidden"}
RelayIdle == [at |-> "none", exact |-> FALSE]
FreshCall == [claimed |-> FALSE, ran |-> 0, started |-> FALSE, completed |-> FALSE,
              output |-> FALSE, write |-> "none", observed |-> FALSE]

RelayInit ==
  /\ run = [at |-> "run", stage |-> "ready", pend |-> "none", thread |-> FALSE, turn |-> FALSE,
            step |-> 0, done |-> FALSE, aborted |-> FALSE, failed |-> FALSE,
            process |-> "up", handlers |-> "open"]
  /\ relay = [closed |-> FALSE, failure |-> FALSE, requests |-> 0, initial |-> FALSE,
              final |-> FALSE, finalObserved |-> FALSE, bodyFailed |-> FALSE, close |-> "open"]
  /\ post = RelayIdle
  /\ up = "none"
  /\ call = <<>>
  /\ nat = [at |-> "boot", todo |-> {}, wild |-> 0]
  /\ out = <<>>
  /\ fault = FALSE

Issued == DOMAIN call
\* fail of the session aborts the signal the relay was given; fail of the relay
\* calls fail of the session.
Fail(r) == [r EXCEPT !.failed = TRUE, !.aborted = TRUE]
RelayFail == /\ run' = Fail(run)
             /\ relay' = [relay EXCEPT !.failure = TRUE]
----------------------------------------------------------------------------
(* The workflow: three RPCs, each written after the reply to the one before.    *)
NextRelayRpc == [ready |-> "initialize", initialize |-> "thread", thread |-> "turn"]

WriteRpc ==
  /\ run.at = "run" /\ ~run.aborted /\ run.pend = "none" /\ run.stage \in DOMAIN NextRelayRpc
  /\ run' = [run EXCEPT !.stage = NextRelayRpc[@], !.pend = NextRelayRpc[run.stage]]
  /\ UNCHANGED <<relay, post, up, call, nat, out, fault>>

(* message(): one frame at a time; a tool call keeps the queue until its write   *)
(* settled.                                                                     *)
Take(kinds) ==
  /\ run.at \in {"run", "drain"} /\ ~run.aborted /\ run.step = 0
  /\ out # <<>> /\ Head(out).k \in kinds
  /\ out' = Tail(out)
  /\ UNCHANGED <<post, up, nat, fault>>

RelayReply ==
  /\ Take({"initialize", "thread", "turn"})
  /\ LET k == Head(out).k IN
     IF run.pend = k
       THEN run' = [run EXCEPT !.pend = "none", !.thread = @ \/ k = "thread", !.turn = @ \/ k = "turn"]
       ELSE run' = Fail(run)
  /\ UNCHANGED <<relay, call>>

\* Mutant: a turn/started that comes before the reply to turn/start is refused.
NoEarlyTurn == FALSE
\* turn/started before the reply to turn/start is kept, and replayed after it.
EarlyTurnOK == run.pend = "turn" /\ run.thread
TurnStarted ==
  /\ Take({"turnstarted"})
  /\ run' = IF run.turn \/ EarlyTurnOK THEN run ELSE Fail(run)
  /\ UNCHANGED <<relay, call>>

\* Mutant: a call already claimed is claimed again.
ClaimRelayAgain(c) == ~run.done /\ run.turn /\ c \in Issued
\* claimTaskCall: bound to this turn, issued by the model, not yet claimed.
ClaimTaskCallOK(c) == ~run.done /\ run.turn /\ c \in Issued /\ ~call[c].claimed
ToolCall ==
  /\ Take({"call"})
  /\ LET c == Head(out).c IN
     IF ClaimTaskCallOK(c)
       THEN /\ call' = [call EXCEPT ![c].claimed = TRUE, ![c].ran = @ + 1]
            /\ run' = [run EXCEPT !.step = c]
       ELSE run' = Fail(run) /\ UNCHANGED call
  /\ UNCHANGED relay

\* broker.invoke settled: an aborted handler throws, the other one publishes the
\* write before its bytes can be consumed (completeCall).
CompleteCall ==
  /\ run.step # 0 /\ ~call[run.step].output
  /\ IF run.aborted
       THEN run' = [Fail(run) EXCEPT !.step = 0] /\ UNCHANGED call
       ELSE call' = [call EXCEPT ![run.step].output = TRUE, ![run.step].write = "sent"] /\ UNCHANGED run
  /\ UNCHANGED <<relay, post, up, nat, out, fault>>

RelayWriteSettles ==
  /\ run.step # 0 /\ call[run.step].write = "sent"
  /\ call' = [call EXCEPT ![run.step].write = "settled"]
  /\ run' = [run EXCEPT !.step = 0]
  /\ UNCHANGED <<relay, post, up, nat, out, fault>>

ObserveStarted ==
  /\ Take({"started"})
  /\ LET c == Head(out).c IN
     IF run.turn /\ c \in Issued /\ (c \in Issued => ~call[c].started)
       THEN call' = [call EXCEPT ![c].started = TRUE] /\ UNCHANGED run
       ELSE run' = Fail(run) /\ UNCHANGED call
  /\ UNCHANGED relay

ObserveCompletedOK(x) == x.started /\ x.claimed /\ ~x.completed /\ x.output
ObserveCompleted ==
  /\ Take({"completed"})
  /\ LET c == Head(out).c IN
     IF run.turn /\ c \in Issued /\ (c \in Issued => ObserveCompletedOK(call[c]))
       THEN call' = [call EXCEPT ![c].completed = TRUE] /\ UNCHANGED run
       ELSE run' = Fail(run) /\ UNCHANGED call
  /\ UNCHANGED relay

ObserveFinal ==
  /\ Take({"final"})
  /\ IF run.turn /\ relay.final /\ ~relay.finalObserved
       THEN relay' = [relay EXCEPT !.finalObserved = TRUE] /\ UNCHANGED run
       ELSE run' = Fail(run) /\ UNCHANGED relay
  /\ UNCHANGED call

\* result(): the relay never failed and every call made the whole round trip.
ResultOK == /\ ~relay.failure /\ relay.finalObserved
            /\ \A c \in Issued : call[c].claimed /\ call[c].started /\ call[c].completed /\ call[c].observed
TurnCompleted ==
  /\ Take({"turncompleted"})
  /\ run' = IF run.turn /\ ~run.done /\ ResultOK THEN [run EXCEPT !.done = TRUE] ELSE Fail(run)
  /\ UNCHANGED <<relay, call>>

Forbidden == Take({"forbidden"}) /\ run' = Fail(run) /\ UNCHANGED <<relay, call>>
----------------------------------------------------------------------------
(* The relay: one request at a time, from native's body to the upstream answer. *)
RequestOK == /\ ~relay.closed /\ ~relay.failure /\ post.at = "none"
             /\ relay.requests <= MaxIssued /\ ~relay.final
Post(exact) ==
  IF RequestOK
    THEN /\ post' = [at |-> "body", exact |-> exact]
         /\ relay' = [relay EXCEPT !.requests = @ + 1]
         /\ UNCHANGED run
    ELSE RelayFail /\ UNCHANGED post

\* validateInput: the first body fixes the prefix, a later one repeats it with
\* exactly the calls the broker answered.
HistoryOK == IF relay.initial THEN Issued # {} /\ \A c \in Issued : call[c].claimed /\ call[c].write # "none"
                              ELSE Issued = {}
ValidateInput ==
  /\ post.at = "body"
  /\ IF ~run.aborted /\ post.exact /\ HistoryOK
       THEN /\ post' = [post EXCEPT !.at = "write"]
            /\ relay' = [relay EXCEPT !.initial = TRUE]
            /\ UNCHANGED run
       ELSE RelayFail /\ post' = RelayIdle
  /\ UNCHANGED <<up, call, nat, out, fault>>

\* The request waits for the write of every answer before it trusts the history.
AwaitWrites ==
  /\ post.at = "write"
  /\ \A c \in Issued : call[c].write = "settled"
  /\ IF run.aborted /\ Issued # {}
       THEN RelayFail /\ post' = RelayIdle /\ UNCHANGED call
       ELSE /\ call' = [c \in Issued |-> [call[c] EXCEPT !.observed = TRUE]]
            /\ post' = [post EXCEPT !.at = "bind"]
            /\ UNCHANGED <<run, relay>>
  /\ UNCHANGED <<up, nat, out, fault>>

\* turnReady, then the upstream request, with no await in between.
AskUpstream ==
  /\ post.at = "bind" /\ run.turn
  /\ IF run.aborted
       THEN RelayFail /\ post' = RelayIdle /\ UNCHANGED up
       ELSE up' = "asked" /\ post' = [post EXCEPT !.at = "up"] /\ UNCHANGED <<run, relay>>
  /\ UNCHANGED <<call, nat, out, fault>>

\* upstreamResponse: it owns an answer that comes after the abort and cancels its
\* body; the cancel may itself fail.  An answer that the expired operation no
\* longer waits for is owned and cancelled in the same way.
UpstreamAnswers ==
  /\ up = "asked"
  /\ up' = "none"
  /\ \/ /\ ~run.aborted /\ post.at = "up"
        /\ post' = [post EXCEPT !.at = "read"]
        /\ UNCHANGED <<run, relay, fault>>
     \/ /\ run.aborted
        /\ \E bad \in BOOLEAN :
             relay' = [relay EXCEPT !.bodyFailed = @ \/ bad, !.failure = @ \/ post.at = "up"]
        /\ post' = IF post.at = "up" THEN RelayIdle ELSE post
        /\ run' = IF post.at = "up" THEN Fail(run) ELSE run
        /\ UNCHANGED fault
     \/ /\ post.at = "up" /\ fault' = TRUE \* the upstream request was rejected
        /\ RelayFail /\ post' = RelayIdle
  /\ UNCHANGED <<call, nat, out>>

\* responseEvents: exactly one item, a new call within the bound or the final
\* message; anything else fails the turn.
ResponseEvents ==
  /\ post.at = "read"
  /\ post' = RelayIdle
  /\ \/ /\ ~run.aborted /\ Len(call) < MaxIssued
        /\ call' = Append(call, FreshCall)
        /\ nat' = [nat EXCEPT !.at = "called"]
        /\ UNCHANGED <<run, relay, fault>>
     \/ /\ ~run.aborted
        /\ relay' = [relay EXCEPT !.final = TRUE]
        /\ nat' = [nat EXCEPT !.at = "answered"]
        /\ UNCHANGED <<run, call, fault>>
     \/ /\ RelayFail /\ fault' = TRUE
        /\ UNCHANGED <<call, nat>>
  /\ UNCHANGED <<up, out>>

\* A bounded wait of the operation ends: the upstream promise stays an activity.
OperationExpires ==
  /\ post.at # "none"
  /\ RelayFail /\ fault' = TRUE
  /\ post' = RelayIdle
  /\ UNCHANGED <<up, call, nat, out>>
----------------------------------------------------------------------------
(* Native.  Honest native emits what its protocol says, in an order the two      *)
(* channels leave open.                                                         *)
NativeStarts ==
  /\ nat.at = [initialize |-> "boot", thread |-> "initialize", turn |-> "thread", none |-> "never"][run.pend]
  /\ nat' = [nat EXCEPT !.at = IF run.pend = "turn" THEN "turning" ELSE run.pend,
                        !.todo = IF run.pend = "turn" THEN {"turn", "turnstarted"} ELSE {run.pend}]
  /\ UNCHANGED <<run, relay, post, up, call, out, fault>>

NativeEmits ==
  /\ \E k \in nat.todo :
       /\ out' = Append(out, RelayFrame(k, IF k # "completed" THEN 0
                                     ELSE IF nat.at = "called" THEN Len(call) - 1 ELSE Len(call)))
       /\ nat' = [nat EXCEPT !.todo = @ \ {k}]
  /\ UNCHANGED <<run, relay, post, up, call, fault>>

NativePosts ==
  /\ nat.at = "turning" /\ relay.close = "open"
  /\ Post(TRUE)
  /\ nat' = [nat EXCEPT !.at = "waiting"]
  /\ UNCHANGED <<up, call, out, fault>>

NativeCalls ==
  /\ nat.at = "called" /\ "completed" \notin nat.todo
  /\ out' = out \o <<RelayFrame("started", Len(call)), RelayFrame("call", Len(call))>>
  /\ nat' = [nat EXCEPT !.at = "calling"]
  /\ UNCHANGED <<run, relay, post, up, call, fault>>

NativeGetsAnswer ==
  /\ nat.at = "calling" /\ call[Len(call)].write # "none"
  /\ nat' = [nat EXCEPT !.at = "turning", !.todo = @ \cup {"completed"}]
  /\ UNCHANGED <<run, relay, post, up, call, out, fault>>

NativeFinishes ==
  /\ nat.at = "answered" /\ nat.todo = {}
  /\ out' = out \o <<RelayFrame("final", 0), RelayFrame("turncompleted", 0)>>
  /\ nat' = [nat EXCEPT !.at = "over"]
  /\ UNCHANGED <<run, relay, post, up, call, fault>>

NativeWild ==
  /\ nat.wild < MaxRelayWild /\ run.at # "ended"
  /\ nat' = [nat EXCEPT !.wild = @ + 1]
  /\ \/ /\ \E k \in RelayKinds, c \in RelayCalls :
             out' = Append(out, RelayFrame(k, IF k \in {"started", "call", "completed"} THEN c ELSE 0))
        /\ UNCHANGED <<run, relay, post>>
     \/ /\ relay.close = "open" /\ (\E exact \in BOOLEAN : Post(exact))
        /\ UNCHANGED out
  /\ UNCHANGED <<up, call, fault>>

\* cancel, session deadline, an RPC that is not answered in time, a premature exit
\* or a failed stdin write: all of them fail the session.
Breaks ==
  /\ run.at \in {"run", "drain"}
  /\ run' = Fail(run) /\ fault' = TRUE
  /\ UNCHANGED <<relay, post, up, call, nat, out>>
----------------------------------------------------------------------------
(* The end: drain what was received, then three cleanups side by side.          *)
(* Part of out has reached the session's queue when the drain begins and part   *)
(* is still in the pipe: Take goes on meanwhile, and Cleanup may come after any *)
(* of its frames.  A drain past its deadline is one of Breaks.                  *)
Drain ==
  /\ run.at = "run" /\ run.done /\ ~run.aborted
  /\ run' = [run EXCEPT !.at = "drain"]
  /\ UNCHANGED <<relay, post, up, call, nat, out, fault>>

Cleanup ==
  /\ (run.at = "drain" /\ run.step = 0) \/ (run.at \in {"run", "drain"} /\ run.aborted)
  /\ run' = [run EXCEPT !.at = "clean", !.aborted = TRUE, !.pend = "none"]
  /\ relay' = [relay EXCEPT !.closed = TRUE, !.close = "closing"]
  /\ UNCHANGED <<post, up, call, nat, out, fault>>

StopProcess ==
  /\ run.at = "clean" /\ run.process = "up"
  /\ \E p \in {"gone", "unproven"} :
       /\ run' = [run EXCEPT !.process = p]
       /\ fault' = (fault \/ p = "unproven")
  /\ UNCHANGED <<relay, post, up, call, nat, out>>

\* close(): joined only when the operation, the upstream promise and every owned
\* body are gone; otherwise its deadline ends the wait without the claim.
ActivitiesJoined == post.at = "none" /\ up = "none"
RelayJoin ==
  /\ relay.close = "closing"
  /\ \/ /\ ActivitiesJoined
        /\ relay' = [relay EXCEPT !.close = IF relay.bodyFailed THEN "unproven" ELSE "joined"]
        /\ fault' = (fault \/ relay.bodyFailed)
     \/ relay' = [relay EXCEPT !.close = "unproven"] /\ fault' = TRUE
  /\ UNCHANGED <<run, post, up, call, nat, out>>

\* A frame already queued when closing is set still runs, and is refused.
LateFrame ==
  /\ run.at = "clean" /\ run.handlers = "open" /\ out # <<>> /\ run.step = 0
  /\ out' = <<>> /\ run' = Fail(run)
  /\ UNCHANGED <<relay, post, up, call, nat, fault>>

HandlersIdle == run.step = 0
HandlersJoin ==
  /\ run.at = "clean" /\ run.handlers = "open"
  /\ \/ HandlersIdle /\ run' = [run EXCEPT !.handlers = "joined"] /\ UNCHANGED fault
     \/ run' = [Fail(run) EXCEPT !.handlers = "deadline"] /\ fault' = TRUE
  /\ UNCHANGED <<relay, post, up, call, nat, out>>

Finish ==
  /\ run.at = "clean" /\ run.process # "up" /\ run.handlers # "open" /\ relay.close \in {"joined", "unproven"}
  /\ run' = [run EXCEPT !.at = "ended",
               !.failed = @ \/ run.process # "gone" \/ relay.close # "joined" \/ run.handlers # "joined"]
  /\ UNCHANGED <<relay, post, up, call, nat, out, fault>>

CodexStep == \/ WriteRpc \/ RelayReply \/ TurnStarted \/ ToolCall \/ ObserveStarted \/ ObserveCompleted
               \/ ObserveFinal \/ TurnCompleted \/ Forbidden \/ Drain \/ Cleanup \/ Finish
RelayStep == ValidateInput \/ AwaitWrites \/ AskUpstream
NativeStep == NativeStarts \/ NativeEmits \/ NativePosts \/ NativeCalls \/ NativeGetsAnswer \/ NativeFinishes \/ NativeWild
RelayNext == \/ CodexStep \/ RelayStep \/ NativeStep \/ CompleteCall \/ RelayWriteSettles \/ UpstreamAnswers
             \/ ResponseEvents \/ OperationExpires \/ Breaks \/ StopProcess \/ RelayJoin \/ LateFrame \/ HandlersJoin

\* The session's own steps run, and every wait it makes is bounded: the session
\* timer, stopAndJoin, the handler join and the relay's close.  Neither native
\* nor the upstream nor the broker owes it anything.
RelayFairness == /\ WF_relayVars(CodexStep) /\ WF_relayVars(Breaks) /\ WF_relayVars(StopProcess)
                 /\ WF_relayVars(RelayJoin) /\ WF_relayVars(HandlersJoin)
RelaySpec == RelayInit /\ [][RelayNext]_relayVars /\ RelayFairness
----------------------------------------------------------------------------
\* A native child that keeps to the protocol is never refused, in whatever order
\* its frames and its requests reach the host: a failure has a fault or a wild
\* act behind it.
HonestRoundTrip == run.failed => fault \/ nat.wild > 0

\* Whatever native emits, the broker runs a call at most once, and only one that ran
\* comes back to the model; a relay that says joined has no operation reading a body
\* and no upstream request that can still answer; and a completed session is a whole
\* one: the final text was delivered, every call the model issued ran, was answered
\* and came back, and the child, the relay and the handlers are gone.
CompletedIsWhole ==
  /\ \A c \in Issued : call[c].ran <= 1 /\ (call[c].observed => call[c].ran = 1)
  /\ relay.close = "joined" => post.at = "none" /\ up = "none" /\ ~relay.bodyFailed
  /\ run.at = "ended" /\ ~run.failed =>
       /\ relay.final /\ relay.finalObserved /\ run.step = 0 /\ run.process = "gone"
       /\ \A c \in Issued : call[c].ran = 1 /\ call[c].observed /\ call[c].started /\ call[c].completed
       /\ relay.close = "joined"

=============================================================================
