--------------------------- MODULE ManagedSession ---------------------------
(***************************************************************************)
(* One turn of a managed Codex task: the adapter that owns it              *)
(* (codex-managed-task-adapter.ts), the session that drives the native     *)
(* app-server over stdio (codex-managed-session.ts) with its ledger of     *)
(* tool calls (codex-managed-ledger.ts) and its queue of writes            *)
(* (process-write.ts), and the native process, seen through its pipe.      *)
(*                                                                         *)
(* Messages are handled one after another, and a tool call's handler       *)
(* awaits the broker and the write of its answer before the next message.  *)
(* The native process is one that keeps the protocol (honest) or one that  *)
(* sends what it likes.  A frame whose content a check refuses, whatever   *)
(* its kind, is the frame "denied".                                        *)
(***************************************************************************)
EXTENDS Naturals, Sequences

CONSTANTS
  Calls,        \* the ids of dynamic tool calls
  None,         \* no call
  MaxWild,      \* bound: frames of a native process that is not honest
  MaxNotices    \* bound: notifications about a turn that is not yet known (8)

ASSUME SessionAssumption == None \notin Calls /\ MaxWild \in Nat /\ MaxNotices \in Nat \ {0}

VARIABLES
  ses,      \* the session's locals
  calls,    \* the ledger: how far each call is
  inbox,    \* frames read and not yet handled
  wr,       \* the queue of writes
  native,   \* the native process: what it received and what it sent
  fin,      \* the joins of the session's end
  slot,     \* the adapter's slot for this request
  ran       \* observer: how often the broker ran each call

sessionVars == <<ses, calls, inbox, wr, native, fin, slot, ran>>

Rpcs == <<"initialize", "account", "config", "thread", "turn">>
Frame(kind, call) == [kind |-> kind, call |-> call]
Kinds == {"reply", "notice", "turnStarted", "started", "call", "completed",
          "final", "turnCompleted", "denied"}

SessionInit ==
  /\ ses = [at |-> 0, pending |-> FALSE, thread |-> FALSE, turn |-> FALSE,
            early |-> 0, out |-> FALSE, completed |-> FALSE, failure |-> "none",
            closing |-> FALSE, handler |-> None, step |-> "idle"]
  /\ calls = [c \in Calls |-> "unknown"]
  /\ inbox = <<>>
  /\ wr = [queue |-> <<>>, sending |-> FALSE, closed |-> FALSE]
  /\ native \in {[up |-> FALSE, honest |-> h, asked |-> 0, answered |-> 0,
                  begun |-> FALSE, final |-> FALSE, ended |-> FALSE,
                  tools |-> [c \in Calls |-> "unknown"], wild |-> 0] : h \in BOOLEAN}
  /\ fin = [process |-> "no", handlers |-> "no", broker |-> "no", running |-> None]
  /\ slot = [run |-> "none", aborted |-> FALSE, stop |-> "none"]
  /\ ran = [c \in Calls |-> 0]
-----------------------------------------------------------------------------
(* Failure.                                                                *)

\* fail: the first code is kept, and the signal is aborted for good.
Failed(s, code) == [s EXCEPT !.failure = IF @ = "none" THEN code ELSE @]

\* active: the signal is not aborted and the deadline has not passed.
Active == ses.failure = "none"

Fails(code) ==
  /\ ses.failure = "none" /\ ~ses.closing
  /\ ses' = Failed(ses, code)

\* The deadline, a stream that breaks off, a reply that does not come in time,
\* a native process that exits before its turn is complete.
Interrupted ==
  /\ slot.run = "session"
  /\ Fails("interrupted")
  /\ UNCHANGED <<calls, inbox, wr, native, fin, slot, ran>>

NativeExits ==
  /\ native.up
  /\ native' = [native EXCEPT !.up = FALSE]
  /\ ses' = IF ses.completed \/ ses.closing THEN ses ELSE Failed(ses, "interrupted")
  /\ UNCHANGED <<calls, inbox, wr, fin, slot, ran>>
-----------------------------------------------------------------------------
(* The queue of writes.                                                    *)

Queued(what) == wr' = [wr EXCEPT !.queue = Append(@, what)]

BeginWrite ==
  /\ wr.queue # <<>> /\ ~wr.sending /\ ~wr.closed /\ Active
  /\ wr' = [wr EXCEPT !.sending = TRUE]
  /\ UNCHANGED <<ses, calls, inbox, native, fin, slot, ran>>

\* A write that is still queued when the queue closes is refused.
DropWrite ==
  /\ wr.queue # <<>> /\ ~wr.sending /\ (wr.closed \/ ~Active)
  /\ wr' = [wr EXCEPT !.queue = Tail(@), !.closed = TRUE]
  /\ ses' = IF ses.closing THEN ses ELSE Failed(ses, "write")
  /\ UNCHANGED <<calls, inbox, native, fin, slot, ran>>

\* The process has the bytes. A tool's answer is then written in the ledger.
WriteArrives ==
  /\ wr.sending /\ native.up /\ Head(wr.queue).kind # "done"
  /\ native' = IF Head(wr.queue).kind = "rpc" THEN [native EXCEPT !.asked = @ + 1]
               ELSE [native EXCEPT !.tools[Head(wr.queue).call] = "answered"]
  /\ wr' = [wr EXCEPT !.queue = <<Frame("done", Head(@).call)>> \o Tail(@)]
  /\ UNCHANGED <<ses, calls, inbox, fin, slot, ran>>

WriteSettles ==
  /\ wr.sending
  /\ wr' = [wr EXCEPT !.queue = Tail(@), !.sending = FALSE,
                      !.closed = @ \/ Head(wr.queue).kind # "done"]
  /\ LET c == Head(wr.queue).call IN
       IF Head(wr.queue).kind = "done"
       THEN /\ calls' = IF c # None /\ Active THEN [calls EXCEPT ![c] = "written"] ELSE calls
            /\ ses' = IF c # None THEN [ses EXCEPT !.handler = None, !.step = "idle"] ELSE ses
       ELSE ses' = Failed(ses, "write") /\ UNCHANGED calls
  /\ UNCHANGED <<inbox, native, fin, slot, ran>>
-----------------------------------------------------------------------------
(* The workflow: one request after the other, each behind its reply.       *)

Launch ==
  /\ slot.run = "session" /\ ~native.up /\ ses.at = 0 /\ Active /\ ~ses.closing
  /\ native' = [native EXCEPT !.up = TRUE]
  /\ ses' = [ses EXCEPT !.at = 1, !.pending = TRUE]
  /\ Queued(Frame("rpc", None))
  /\ UNCHANGED <<calls, inbox, fin, slot, ran>>

NextRpc ==
  /\ ses.at \in 1..4 /\ ~ses.pending /\ Active /\ ~ses.closing
  /\ ses' = [ses EXCEPT !.at = @ + 1, !.pending = TRUE]
  /\ Queued(Frame("rpc", None))
  /\ UNCHANGED <<calls, inbox, native, fin, slot, ran>>
-----------------------------------------------------------------------------
(* Messages. What a message may do, given where the session is.            *)

Pending(rpc) == ses.pending /\ Rpcs[ses.at] = rpc

ReplyOK == ses.pending /\ (Rpcs[ses.at] = "thread" => ~ses.thread)
           /\ (Rpcs[ses.at] = "turn" => ses.thread /\ ~ses.turn)

\* The reply to turn/start binds the turn, which early notices only announced.
Reply ==
  ses' = [ses EXCEPT !.pending = FALSE, !.thread = @ \/ Rpcs[ses.at] = "thread",
                     !.turn = @ \/ Rpcs[ses.at] = "turn"]

\* Mutant: a turn is not announced before the reply that names it.
TurnStartedLate == ses.thread /\ ~ses.completed /\ ses.turn

TurnStartedOK ==
  /\ ses.thread /\ ~ses.completed
  /\ ses.turn \/ (Pending("turn") /\ ses.early < MaxNotices)

StartedOK(c) == ses.turn /\ ~ses.completed /\ ~ses.out /\ calls[c] = "unknown"
ClaimOK(c) == ses.turn /\ ~ses.completed /\ ~ses.out /\ calls[c] = "started"
CompletedOK(c) == ses.turn /\ ~ses.completed /\ ~ses.out /\ calls[c] = "written"
FinalOK == ses.turn /\ ~ses.completed /\ ~ses.out

FinishOK ==
  ses.turn /\ ~ses.completed /\ ses.out /\ \A c \in Calls : calls[c] \in {"unknown", "completed"}

\* A notice stands for the notifications that leave nothing behind which a later
\* message depends on: thread/started, deltas, settings, usage, status.  A wild
\* one that their own checks refuse comes as a denied message.
Accepted(f) ==
  /\ Active /\ ~ses.closing
  /\ CASE f.kind = "reply" -> ReplyOK
       [] f.kind = "notice" -> ses.thread
       [] f.kind = "turnStarted" -> TurnStartedOK
       [] f.kind = "started" -> StartedOK(f.call)
       [] f.kind = "call" -> ClaimOK(f.call)
       [] f.kind = "completed" -> CompletedOK(f.call)
       [] f.kind = "final" -> FinalOK
       [] f.kind = "turnCompleted" -> FinishOK
       [] OTHER -> FALSE

Stage == [started |-> "started", call |-> "claimed", completed |-> "completed"]

Handle(f) ==
  /\ calls' = IF f.kind \in DOMAIN Stage THEN [calls EXCEPT ![f.call] = Stage[f.kind]] ELSE calls
  /\ CASE f.kind = "reply" -> Reply
       [] f.kind = "turnStarted" -> ses' = [ses EXCEPT !.early = IF ses.turn THEN @ ELSE @ + 1]
       [] f.kind = "call" -> ses' = [ses EXCEPT !.handler = f.call, !.step = "claimed"]
       [] f.kind = "final" -> ses' = [ses EXCEPT !.out = TRUE]
       [] f.kind = "turnCompleted" -> ses' = [ses EXCEPT !.completed = TRUE]
       [] OTHER -> UNCHANGED ses

Message ==
  /\ inbox # <<>> /\ ses.step = "idle"
  /\ inbox' = Tail(inbox)
  /\ IF Accepted(Head(inbox)) THEN Handle(Head(inbox))
     ELSE ses' = Failed(ses, "protocol") /\ UNCHANGED calls
  /\ UNCHANGED <<wr, native, fin, slot, ran>>

\* broker.invoke runs the call, unless the broker was revoked, which denies it.
Invoke ==
  /\ ses.step = "claimed" /\ ~ses.closing
  /\ ses' = [ses EXCEPT !.step = "invoking"]
  /\ fin' = [fin EXCEPT !.running = ses.handler]
  /\ ran' = [ran EXCEPT ![ses.handler] = @ + 1]
  /\ UNCHANGED <<calls, inbox, wr, native, slot>>

Invoked ==
  /\ fin.running # None
  /\ fin' = [fin EXCEPT !.running = None]
  /\ ses' = [ses EXCEPT !.step = "invoked"]
  /\ UNCHANGED <<calls, inbox, wr, native, slot, ran>>

\* After the broker, the handler is still wanted or it ends without an answer.
Respond ==
  /\ ses.step = "invoked" \/ (ses.step = "claimed" /\ ses.closing)
  /\ IF Active /\ ~wr.closed
     THEN /\ ses' = [ses EXCEPT !.step = "writing"]
          /\ Queued(Frame("answer", ses.handler))
     ELSE /\ ses' = [Failed(ses, "interrupted") EXCEPT !.step = "idle", !.handler = None]
          /\ UNCHANGED wr
  /\ UNCHANGED <<calls, inbox, native, fin, slot, ran>>

\* The write of its answer was refused, and so is what follows it.
AnswerRefused ==
  /\ ses.step = "writing" /\ wr.queue = <<>>
  /\ ses' = [Failed(ses, "write") EXCEPT !.step = "idle", !.handler = None]
  /\ UNCHANGED <<calls, inbox, wr, native, fin, slot, ran>>
-----------------------------------------------------------------------------
(* The end: what was received is drained, then everything is joined.       *)

Close ==
  /\ slot.run = "session" /\ ~ses.closing
  /\ ~Active \/ (ses.completed /\ ses.step = "idle" /\ inbox = <<>>)
  /\ ses' = [ses EXCEPT !.closing = TRUE, !.pending = FALSE]
  /\ wr' = [wr EXCEPT !.closed = TRUE]
  /\ fin' = [fin EXCEPT !.process = "waiting", !.handlers = "waiting", !.broker = "waiting"]
  /\ UNCHANGED <<calls, inbox, native, slot, ran>>

\* The three joins run side by side, each with a deadline.
JoinProcess ==
  /\ fin.process = "waiting"
  /\ \/ fin' = [fin EXCEPT !.process = "joined"] /\ native' = [native EXCEPT !.up = FALSE]
     \/ fin' = [fin EXCEPT !.process = "unproven"] /\ UNCHANGED native
  /\ UNCHANGED <<ses, calls, inbox, wr, slot, ran>>

\* Mutant: the messages being handled are not joined.
JoinWritesOnly ==
  /\ fin.handlers = "waiting"
  /\ \/ wr.queue = <<>> /\ fin' = [fin EXCEPT !.handlers = "joined"]
     \/ fin' = [fin EXCEPT !.handlers = "unproven"]
  /\ UNCHANGED <<ses, calls, inbox, wr, native, slot, ran>>

\* Mutant: the join of the handlers has no deadline.
JoinWithoutDeadline ==
  /\ fin.handlers = "waiting"
  /\ ses.step = "idle" /\ inbox = <<>> /\ wr.queue = <<>>
  /\ fin' = [fin EXCEPT !.handlers = "joined"]
  /\ UNCHANGED <<ses, calls, inbox, wr, native, slot, ran>>

JoinHandlers ==
  /\ fin.handlers = "waiting"
  /\ \/ /\ ses.step = "idle" /\ inbox = <<>> /\ wr.queue = <<>>
        /\ fin' = [fin EXCEPT !.handlers = "joined"]
     \/ fin' = [fin EXCEPT !.handlers = "unproven"]
  /\ UNCHANGED <<ses, calls, inbox, wr, native, slot, ran>>

JoinBroker ==
  /\ fin.broker = "waiting"
  /\ \/ fin.running = None /\ fin' = [fin EXCEPT !.broker = "joined"]
     \/ fin' = [fin EXCEPT !.broker = "unproven"]
  /\ UNCHANGED <<ses, calls, inbox, wr, native, slot, ran>>

AllJoined == fin.process = "joined" /\ fin.handlers = "joined" /\ fin.broker = "joined"

\* Mutant: whatever ended it, a session whose joins are proven has completed.
ReturnJoined ==
  /\ slot.run = "session"
  /\ "waiting" \notin {fin.process, fin.handlers, fin.broker} /\ ses.closing
  /\ ses' = IF AllJoined THEN ses ELSE Failed(ses, "custody")
  /\ slot' = [slot EXCEPT !.run = IF AllJoined THEN "completed" ELSE "failed"]
  /\ UNCHANGED <<calls, inbox, wr, native, fin, ran>>

Return ==
  /\ slot.run = "session"
  /\ "waiting" \notin {fin.process, fin.handlers, fin.broker} /\ ses.closing
  /\ ses' = IF AllJoined THEN ses ELSE Failed(ses, "custody")
  /\ slot' = [slot EXCEPT !.run = IF ses'.failure = "none" THEN "completed" ELSE "failed"]
  /\ UNCHANGED <<calls, inbox, wr, native, fin, ran>>
-----------------------------------------------------------------------------
(* The adapter.                                                            *)

\* run publishes its slot, then the preflight admits it or refuses it.
Run ==
  /\ slot.run = "none"
  /\ slot' = [slot EXCEPT !.run = "admitted"]
  /\ UNCHANGED <<ses, calls, inbox, wr, native, fin, ran>>

Execute ==
  /\ slot.run = "admitted"
  /\ \/ ~slot.aborted /\ slot' = [slot EXCEPT !.run = "session"]
     \/ slot' = [slot EXCEPT !.run = "refused"]
  /\ UNCHANGED <<ses, calls, inbox, wr, native, fin, ran>>

\* stop: one promise, which aborts, waits for run and reads the receipt. The
\* session listens to the abort until its joins have ended.
Stop ==
  /\ slot.run # "none" /\ slot.stop = "none"
  /\ slot' = [slot EXCEPT !.stop = "waiting", !.aborted = TRUE]
  /\ ses' = IF slot.run = "session" THEN Failed(ses, "interrupted") ELSE ses
  /\ UNCHANGED <<calls, inbox, wr, native, fin, ran>>

Stopped ==
  /\ slot.stop = "waiting" /\ slot.run \in {"refused", "completed", "failed"}
  /\ slot' = [slot EXCEPT !.stop =
       IF slot.run = "refused" \/ AllJoined THEN "proven" ELSE "unproven"]
  /\ UNCHANGED <<ses, calls, inbox, wr, native, fin, ran>>
-----------------------------------------------------------------------------
(* The native process.                                                     *)

Sends(frame) == inbox' = Append(inbox, frame)
CanSend == native.up /\ ses.failure = "none" /\ ~ses.closing /\ Len(inbox) < 2

\* A turn is announced before or after the reply; calls run one at a time.
HonestFrame ==
  \/ /\ native.answered < native.asked
     /\ Sends(Frame("reply", None))
     /\ native' = [native EXCEPT !.answered = @ + 1]
  \/ /\ native.asked = 5 /\ ~native.begun
     /\ Sends(Frame("turnStarted", None))
     /\ native' = [native EXCEPT !.begun = TRUE]
  \/ /\ native.answered >= 4 /\ native.wild < MaxWild
     /\ Sends(Frame("notice", None))
     /\ native' = [native EXCEPT !.wild = @ + 1]
  \/ \E c \in Calls, step \in {<<"unknown", "started">>, <<"started", "call">>,
                               <<"answered", "completed">>} :
       /\ native.answered = 5 /\ native.begun /\ ~native.final
       /\ native.tools[c] = step[1]
       /\ Sends(Frame(step[2], c))
       /\ native' = [native EXCEPT !.tools[c] = step[2]]
  \/ /\ native.answered = 5 /\ native.begun /\ ~native.final
     /\ \A c \in Calls : native.tools[c] \in {"unknown", "completed"}
     /\ Sends(Frame("final", None))
     /\ native' = [native EXCEPT !.final = TRUE]
  \/ /\ native.final /\ ~native.ended
     /\ Sends(Frame("turnCompleted", None))
     /\ native' = [native EXCEPT !.ended = TRUE]

WildFrame ==
  /\ native.wild < MaxWild
  /\ \E kind \in Kinds, c \in Calls : Sends(Frame(kind, c))
  /\ native' = [native EXCEPT !.wild = @ + 1]

NativeSends ==
  /\ CanSend
  /\ HonestFrame \/ (~native.honest /\ WildFrame)
  /\ UNCHANGED <<ses, calls, wr, fin, slot, ran>>
-----------------------------------------------------------------------------
SessionStep == Execute \/ Launch \/ NextRpc \/ Message \/ Invoke \/ Respond
               \/ AnswerRefused \/ BeginWrite \/ DropWrite \/ WriteSettles
               \/ Close \/ JoinProcess \/ JoinHandlers \/ JoinBroker \/ Return \/ Stopped

SessionNext == SessionStep \/ Run \/ Stop \/ Interrupted \/ NativeExits
               \/ WriteArrives \/ Invoked \/ NativeSends

\* The host runs, and the execution deadline passes.
SessionFairness == WF_sessionVars(SessionStep) /\ WF_sessionVars(Interrupted)
SessionSpec == SessionInit /\ [][SessionNext]_sessionVars /\ SessionFairness
-----------------------------------------------------------------------------
(* Properties.                                                             *)

\* A native process that keeps the protocol is never accused of breaking it,
\* however its frames interleave with the session's own writes and handlers.
HonestNotAccused == native.honest => ses.failure # "protocol"

\* A stop that is proven leaves nothing behind: no process, no handler of a
\* tool, no write and no message still to be handled.
ProvenStopIsQuiet ==
  slot.stop = "proven" =>
    ~native.up /\ fin.running = None /\ ses.step = "idle" /\ ~wr.sending /\ inbox = <<>>

\* A turn is reported complete only with its output, all its calls answered and
\* everything joined, also when it is cancelled at the last moment.  The broker
\* runs a call at most once, and only one that was announced in the turn, which
\* cannot complete before the call was answered.
CompletionIsWhole ==
  /\ slot.run = "completed" => ses.completed /\ AllJoined /\ wr.queue = <<>>
  /\ ses.completed => \A c \in Calls : calls[c] \in {"unknown", "completed"}
  /\ \A c \in Calls : ran[c] <= 1 /\ (ran[c] = 1 => calls[c] \notin {"unknown", "started"})
=============================================================================
