--------------------------- MODULE ManagedAccount ---------------------------
(***************************************************************************)
(* A managed provider account: the controller that serialises operations   *)
(* on it (managed-account.ts, and codex-account.ts where Codex adds its    *)
(* own steps), over the stdio transport that carries its requests          *)
(* (codex-account-transport.ts), over the provider's process, seen only    *)
(* through its port: it answers when it likes or never, signs its account  *)
(* in and out on its own, and may exit at any time.                        *)
(*                                                                         *)
(* A stdout pipe is a FIFO, so answers and notifications keep their order. *)
(* A promise is resolved in one step and its continuation runs in another. *)
(* A login id is the id of the request that started the login.             *)
(***************************************************************************)
EXTENDS Naturals, Sequences, FiniteSets

CONSTANTS
  MaxEarly,     \* completions kept while login/start is unanswered (8)
  MaxCalls,     \* requests of one transport (256)
  MaxGen,       \* bound: generations at which an operation may start
  MaxVersion,   \* bound: changes of the provider's account
  MaxPipe,      \* bound: frames not yet read
  MaxCloses     \* bound: calls of close, each after an unproven one

ASSUME AccountAssumption ==
  {MaxEarly, MaxCalls, MaxGen, MaxVersion, MaxPipe, MaxCloses} \subseteq Nat

VARIABLES
  ctl,      \* the controller's locals and its published snapshot
  task,     \* the one operation that run admits
  lease,    \* the account lease
  tr,       \* the transport's locals
  wire,     \* requests being written, and frames not yet read
  prov,     \* the provider's process
  told      \* observer: what the controller was told, for the properties

accountVars == <<ctl, task, lease, tr, wire, prov, told>>

NoLogin == 0
NoTask == [kind |-> "none"]

\* What an operation remembers: the generation it was admitted at, how far it
\* is, and whether its promise settled and its caller was answered.
Operation(kind, gen) ==
  [kind |-> kind, gen |-> gen, step |-> "queued", aborted |-> FALSE,
   returned |-> FALSE, settled |-> FALSE, dispatched |-> FALSE,
   completed |-> FALSE, login |-> NoLogin, signed |-> FALSE, ver |-> 0]

AccountInit ==
  /\ ctl = [gen |-> 1, pending |-> NoLogin, state |-> "unchecked", basis |-> 0,
            dispatch |-> FALSE, unresolved |-> FALSE, early |-> {},
            closing |-> FALSE, close |-> "none", closes |-> 0]
  /\ task = NoTask
  /\ lease = "none"
  /\ tr = [made |-> FALSE, ready |-> FALSE, failed |-> FALSE, closing |-> FALSE,
           next |-> 0, pending |-> 0, retired |-> {}, attempt |-> "none",
           stop |-> "none"]
  /\ wire = [queue |-> <<>>, writing |-> 0, kinds |-> <<>>, pipe |-> <<>>]
  /\ \E signed \in BOOLEAN : \* the provider may have kept a sign-in
       prov = [alive |-> FALSE, ver |-> 0, signed |-> signed, asked |-> {}, logins |-> {}]
  /\ told = [ver |-> 0, done |-> {}, full |-> FALSE, lost |-> FALSE, at |-> 0, closes |-> 0]
-----------------------------------------------------------------------------
(* The controller's state machine, as functions on its locals.             *)

Invalidate(c, s) == [c EXCEPT !.gen = @ + 1, !.state = s]

\* The catch of run.
RunFailed(c, t) ==
  IF t.gen = c.gen /\ ~c.closing /\ c.state # "recovery-required"
  THEN [c EXCEPT !.state = "unavailable"] ELSE c

\* Mutant: a login whose answer is lost is forgotten.
LoginForgotten(c, t) == c

\* The catch of startLogin: the outcome of the login stays unknown.
LoginFailed(c, t) ==
  IF t.dispatched /\ ~t.completed /\ ~c.closing
  THEN Invalidate([c EXCEPT !.unresolved = TRUE, !.pending = NoLogin],
                  "recovery-required")
  ELSE c

\* The finally of startLogin.
LoginReturned(c, t) ==
  IF t.dispatched THEN [c EXCEPT !.dispatch = FALSE, !.early = {}] ELSE c

\* Mutant: the fence looks at the close alone.
CurrentUnlessClosing(c, t) == ~c.closing

\* assertCurrent: the operation is still the one the controller wants.
Current(c, t) == ~c.closing /\ ~t.aborted /\ t.gen = c.gen

\* onEvent: invalidation is synchronous.
OnEvent(c, e) ==
  IF c.closing \/ c.unresolved THEN c
  ELSE IF e.type = "completed" /\ c.pending = NoLogin /\ c.dispatch
  THEN IF Cardinality(c.early) < MaxEarly
       THEN [c EXCEPT !.early = @ \cup {e.login}] ELSE c
  ELSE IF e.type = "completed" /\ c.pending # e.login THEN c
  ELSE Invalidate([c EXCEPT !.pending = NoLogin],
                  IF e.type = "disconnected" THEN "unavailable" ELSE "unchecked")

\* The operation holds `active` until its promise settles.
CallActive == task # NoTask /\ ~task.settled
Aborted(t) == IF t = NoTask \/ t.settled THEN t ELSE [t EXCEPT !.aborted = TRUE]

\* Mutant: a request that is given up is forgotten.
Forgotten(t) == [t EXCEPT !.pending = 0]

\* abort: the transport retires the request, and drops its answer later.
Retired(t) == [t EXCEPT !.retired = IF t.pending = 0 THEN @ ELSE @ \cup {t.pending},
                        !.pending = 0]
-----------------------------------------------------------------------------
(* Operations.                                                             *)

CanRun ==
  /\ ~ctl.closing /\ ctl.state \notin {"closed", "recovery-required"}
  /\ ~CallActive /\ ~ctl.dispatch
  /\ ctl.gen < MaxGen

RunCall(kind) ==
  /\ CanRun
  /\ kind = "login" => ctl.pending = NoLogin
  /\ kind = "cancel" => ctl.pending # NoLogin
  /\ ctl' = Invalidate(ctl, "unchecked")
  /\ task' = Operation(kind, ctl.gen + 1)
  /\ \/ tr.made /\ UNCHANGED <<lease, tr, prov>>
     \/ /\ lease = "none" /\ lease' = "held"
        /\ tr' = [tr EXCEPT !.made = TRUE]
        /\ prov' = [prov EXCEPT !.alive = TRUE]
  /\ UNCHANGED <<wire, told>>

\* ensureTransport throws: the lease is taken elsewhere, or the factory fails
\* and leaves the lease held with no transport that could prove a stop.
RunRefused ==
  /\ CanRun /\ lease = "none"
  /\ \/ ctl' = Invalidate(ctl, "unavailable") /\ UNCHANGED lease
     \/ ctl' = Invalidate(ctl, "recovery-required") /\ lease' = "held"
  /\ UNCHANGED <<task, tr, wire, prov, told>>

\* The operation starts, if it is still wanted.
Dispatch ==
  /\ CallActive /\ task.step = "queued" /\ Current(ctl, task)
  /\ ctl' = [ctl EXCEPT !.dispatch = task.kind = "login"]
  /\ task' = [task EXCEPT !.step = "waiting", !.dispatched = task.kind = "login"]
  /\ UNCHANGED <<lease, tr, wire, prov, told>>

\* rpc: a new id is pending, and its bytes join the queue of writes.
Listening == ~tr.failed /\ ~tr.closing

Request(kind) ==
  /\ tr.ready /\ Listening /\ tr.next < MaxCalls
  /\ tr' = [tr EXCEPT !.next = @ + 1, !.pending = tr.next + 1]
  /\ wire' = [wire EXCEPT !.queue = Append(@, tr.next + 1),
                          !.kinds = Append(@, kind)]

Send ==
  /\ CallActive /\ task.step = "waiting" /\ ~task.aborted
  /\ Request(task.kind)
  /\ task' = [task EXCEPT !.step = "called"]
  /\ UNCHANGED <<ctl, lease, prov, told>>

\* read: without an account, or with one this controller cannot serve, that is
\* published at once; else the model catalog is fetched first.
ReadAccount ==
  \/ /\ task.signed /\ Request("models")
     /\ task' = [task EXCEPT !.step = "called"] /\ UNCHANGED ctl
  \/ /\ \E s \in {"signed-out", "signing-in", "unavailable"} :
          /\ s # "unavailable" => ~task.signed
          /\ (s = "signing-in") => (ctl.pending # NoLogin)
          /\ (s = "signed-out") => (ctl.pending = NoLogin)
          /\ ctl' = [ctl EXCEPT !.state = s]
     /\ task' = NoTask /\ UNCHANGED <<tr, wire>>

ReadModels ==
  /\ ctl' = [ctl EXCEPT !.state = "signed-in", !.basis = task.ver]
  /\ task' = NoTask /\ UNCHANGED <<tr, wire>>

\* A completion may have come before the answer that carries its login id.
StartLogin ==
  /\ IF task.login \in ctl.early
     THEN /\ ctl' = Invalidate(ctl, "unchecked")
          /\ task' = [task EXCEPT !.settled = TRUE, !.completed = TRUE]
     ELSE /\ ctl' = LoginReturned([ctl EXCEPT !.pending = task.login,
                                              !.state = "signing-in"], task)
          /\ task' = NoTask
  /\ UNCHANGED <<tr, wire>>

CancelLogin ==
  /\ ctl' = [ctl EXCEPT !.pending = NoLogin, !.state = "unchecked"]
  /\ task' = NoTask /\ UNCHANGED <<tr, wire>>

\* logout reads the account again before it answers.
Logout ==
  /\ ctl' = [ctl EXCEPT !.pending = NoLogin]
  /\ Request("check") /\ task' = [task EXCEPT !.step = "called"]

\* The continuation of an answered request, behind the fence of response().
Continue ==
  /\ CallActive /\ task.step = "answered" /\ Current(ctl, task)
  /\ CASE wire.kinds[tr.next] = "check" -> ReadAccount
       [] wire.kinds[tr.next] = "models" -> ReadModels
       [] wire.kinds[tr.next] = "login" -> StartLogin
       [] wire.kinds[tr.next] = "cancel" -> CancelLogin
       [] wire.kinds[tr.next] = "logout" -> Logout
  /\ UNCHANGED <<lease, prov, told>>

\* The promise of the operation rejects: the fence refuses its answer, the
\* provider answered with an error, or the transport will not answer.
FailTransport ==
  /\ CallActive
  /\ \/ task.step \in {"queued", "answered"}
     \/ task.step = "called" /\ tr.pending = 0
     \/ task.step = "waiting" /\ (task.aborted \/ ~Listening \/ tr.next = MaxCalls)
  /\ task.step = "queued" => ~Current(ctl, task)
  /\ \/ UNCHANGED ctl
     \/ /\ task.step = "answered" /\ Current(ctl, task) /\ wire.kinds[tr.next] = "logout"
        /\ ctl' = [ctl EXCEPT !.pending = NoLogin]   \* the read after it fails
  /\ task' = IF task.returned THEN NoTask ELSE [task EXCEPT !.settled = TRUE]
  /\ UNCHANGED <<lease, tr, wire, prov, told>>

\* bounded rejects: the caller hears of the error, and of it alone.
AnswerCaller ==
  /\ task # NoTask /\ ~task.returned /\ (task.settled \/ task.aborted)
  /\ ctl' = LoginReturned(LoginFailed(RunFailed(ctl, task), task), task)
  /\ task' = IF task.settled THEN NoTask ELSE [task EXCEPT !.returned = TRUE]
  /\ told' = IF task.dispatched /\ ~task.completed
             THEN [told EXCEPT !.lost = TRUE, !.at = tr.next] ELSE told
  /\ UNCHANGED <<lease, tr, wire, prov>>

\* Mutant: a caller that gives up fails the request and keeps the operation.
TimeOutRequest ==
  /\ CallActive /\ ~task.aborted
  /\ tr' = Retired(tr)
  /\ UNCHANGED <<ctl, task, lease, wire, prov, told>>

\* The deadline passes or the caller gives up. The transport's own timer may
\* be the first to fire, and then only the request fails.
TimeOut ==
  /\ CallActive /\ ~task.aborted
  /\ tr' = Retired(tr)
  /\ \/ task' = Aborted(task)
     \/ tr.pending # 0 /\ UNCHANGED task
  /\ UNCHANGED <<ctl, lease, wire, prov, told>>
-----------------------------------------------------------------------------
(* The transport: writes, frames, failure and the join.                    *)

Initialize ==
  /\ tr.made /\ ~tr.ready /\ Listening /\ prov.alive
  /\ tr' = [tr EXCEPT !.ready = TRUE]
  /\ UNCHANGED <<ctl, task, lease, wire, prov, told>>

\* A queued write starts if its request is still wanted, else it is dropped.
AccountWrite ==
  /\ wire.writing = 0 /\ wire.queue # <<>>
  /\ wire' = [wire EXCEPT !.queue = Tail(@), !.writing =
       IF Listening /\ tr.pending = Head(wire.queue) THEN Head(wire.queue) ELSE 0]
  /\ UNCHANGED <<ctl, task, lease, tr, prov, told>>

\* The provider has the request; the write settles as accepted in full.
FinishWrite ==
  /\ wire.writing # 0 /\ prov.alive
  /\ wire' = [wire EXCEPT !.writing = 0]
  /\ prov' = [prov EXCEPT !.asked = @ \cup {wire.writing},
       !.logins = IF wire.kinds[wire.writing] = "login" THEN @ \cup {wire.writing} ELSE @]
  /\ UNCHANGED <<ctl, task, lease, tr, told>>

\* closeBound: one attempt at a time, and none after a complete one. The
\* process port shares a stop that is still running.
JoinTransport(t) == [t EXCEPT !.closing = TRUE, !.pending = 0,
              !.attempt = IF @ = "none" THEN "stopping" ELSE @,
              !.stop = IF @ = "none" THEN "running" ELSE @]

\* fail: requests settle, the controller is told unless the transport is
\* closing, and a join begins.
TransportFails ==
  /\ ~tr.failed
  /\ tr' = [JoinTransport(tr) EXCEPT !.failed = TRUE]
  /\ ctl' = IF tr.closing THEN ctl ELSE OnEvent(ctl, [type |-> "disconnected"])
  /\ task' = IF ctl'.gen # ctl.gen THEN Aborted(task) ELSE task

\* stdout ends, the process exits, or a write is not accepted in full.
Disconnect ==
  /\ tr.made
  /\ ~prov.alive \/ wire.writing # 0
  /\ TransportFails
  /\ wire' = [wire EXCEPT !.writing = 0, !.pipe = <<>>]
  /\ UNCHANGED <<lease, prov, told>>

\* receive, for a notification: the controller hears of it synchronously.
ReceiveEvent(e) ==
  /\ ctl' = OnEvent(ctl, e)
  /\ IF ctl'.gen # ctl.gen THEN task' = Aborted(task) /\ tr' = Retired(tr)
                           ELSE UNCHANGED <<task, tr>>
  /\ told' = IF e.type = "updated" THEN [told EXCEPT !.ver = e.ver]
                                   ELSE [told EXCEPT !.done = @ \cup {e.login},
                                          !.full = @ \/ ~(Cardinality(ctl.early) < MaxEarly)]

\* receive, for an answer: it settles the request with its id, or is dropped
\* when that request was retired.
ReceiveAnswer(a) ==
  /\ IF a.id \in tr.retired
     THEN tr' = [tr EXCEPT !.retired = @ \ {a.id}] /\ UNCHANGED <<ctl, task>>
     ELSE IF a.id = tr.pending
     THEN /\ tr' = [tr EXCEPT !.pending = 0]
          /\ task' = [task EXCEPT !.step = "answered", !.login = a.login,
                        !.signed = a.signed, !.ver = IF a.signed THEN a.ver ELSE @]
          /\ UNCHANGED ctl
     ELSE TransportFails
  /\ UNCHANGED told

Receive ==
  /\ wire.pipe # <<>>
  /\ wire' = [wire EXCEPT !.pipe = Tail(@)]
  /\ IF Head(wire.pipe).type = "answer" THEN ReceiveAnswer(Head(wire.pipe))
                                        ELSE ReceiveEvent(Head(wire.pipe))
  /\ UNCHANGED <<lease, prov>>

\* stopAndJoin of the process answers, with proof or without.
StopSettles ==
  /\ tr.stop = "running"
  /\ \/ ~prov.alive /\ tr' = [tr EXCEPT !.stop = "proven"]
     \/ tr' = [tr EXCEPT !.stop = "none"]
  /\ UNCHANGED <<ctl, task, lease, wire, prov, told>>

\* Mutant: the receipt does not wait for the proof of the process.
JoinAssumed ==
  /\ tr.pending = 0 /\ wire.queue = <<>> /\ wire.writing = 0
  /\ ~(CallActive /\ task.step = "called")

\* The receipt of an attempt, from what can be seen when it is written.
JoinComplete ==
  /\ tr.stop = "proven" /\ tr.pending = 0
  /\ wire.queue = <<>> /\ wire.writing = 0
  /\ ~(CallActive /\ task.step = "called")

AttemptEnds ==
  /\ tr.attempt = "stopping"
  /\ tr' = [tr EXCEPT !.attempt = IF JoinComplete THEN "complete" ELSE "none"]
  /\ ctl' = [ctl EXCEPT !.closes = 0, !.close =
       IF @ # "asking" THEN @ ELSE IF JoinComplete THEN "joined" ELSE "refused"]
  /\ UNCHANGED <<task, lease, wire, prov, told>>
-----------------------------------------------------------------------------
(* Closing the account.                                                    *)

\* close publishes the shared attempt and revokes the operation at once.
CloseAccount ==
  /\ ctl.close = "none" /\ told.closes < MaxCloses
  /\ ctl' = Invalidate([ctl EXCEPT !.closing = TRUE, !.pending = NoLogin,
                                   !.close = "starting"], "unchecked")
  /\ task' = Aborted(task)
  /\ tr' = IF CallActive THEN Retired(tr) ELSE tr
  /\ told' = [told EXCEPT !.closes = @ + 1]
  /\ UNCHANGED <<lease, wire, prov>>

\* Nothing was ever held, or the transport is asked to join.
CloseStarts ==
  /\ ctl.close = "starting"
  /\ \/ /\ lease = "none"
        /\ ctl' = [ctl EXCEPT !.state = "closed", !.close = "closed"]
        /\ UNCHANGED <<tr, wire>>
     \/ /\ tr.made
        /\ tr' = JoinTransport(tr)
        /\ wire' = [wire EXCEPT !.pipe = <<>>]
        /\ ctl' = IF tr.attempt = "complete" THEN [ctl EXCEPT !.close = "joined"]
                  ELSE [ctl EXCEPT !.close = "asking", !.closes = @ + 1]
  /\ UNCHANGED <<task, lease, prov, told>>

\* The receipt is complete and everything the controller started has settled.
CloseReleases ==
  /\ ctl.close = "joined" /\ ~CallActive /\ ctl.closes = 0
  /\ lease' = "released"
  /\ ctl' = [ctl EXCEPT !.state = "closed", !.close = "closed"]
  /\ UNCHANGED <<task, tr, wire, prov, told>>

\* Anything else is unproven, and close may be called again.
CloseUnproven ==
  /\ \/ ctl.close \in {"asking", "joined", "refused"}
     \/ ctl.close = "starting" /\ lease # "none" /\ ~tr.made
  /\ ctl' = [ctl EXCEPT !.state = "recovery-required", !.close = "none"]
  /\ UNCHANGED <<task, lease, tr, wire, prov, told>>
-----------------------------------------------------------------------------
(* The provider, as far as its pipe shows it.                              *)

\* Frames a transport that no longer listens would drop are not modelled.
CanPrint == prov.alive /\ Listening /\ Len(wire.pipe) < MaxPipe
Prints(frame) == wire' = [wire EXCEPT !.pipe = Append(@, frame)]

ProviderAnswers(id) ==
  /\ CanPrint /\ id \in prov.asked
  /\ Prints([type |-> "answer", id |-> id,
             login |-> IF wire.kinds[id] = "login" THEN id ELSE NoLogin,
             signed |-> wire.kinds[id] = "check" /\ prov.signed, ver |-> prov.ver])
  /\ prov' = [prov EXCEPT !.asked = @ \ {id}]
  /\ UNCHANGED <<ctl, task, lease, tr, told>>

ProviderCompletes(login) ==
  /\ CanPrint /\ login \in prov.logins
  /\ Prints([type |-> "completed", login |-> login])
  /\ prov' = [prov EXCEPT !.logins = @ \ {login}]
  /\ UNCHANGED <<ctl, task, lease, tr, told>>

ProviderChanges ==
  /\ CanPrint /\ prov.ver < MaxVersion
  /\ Prints([type |-> "updated", ver |-> prov.ver + 1])
  /\ prov' = [prov EXCEPT !.ver = @ + 1, !.signed = ~@]
  /\ UNCHANGED <<ctl, task, lease, tr, told>>

ProviderExits ==
  /\ prov.alive
  /\ prov' = [prov EXCEPT !.alive = FALSE, !.asked = {}, !.logins = {}]
  /\ UNCHANGED <<ctl, task, lease, tr, wire, told>>
-----------------------------------------------------------------------------
ControllerStep == Dispatch \/ Send \/ Continue \/ FailTransport \/ AnswerCaller
TransportStep == Initialize \/ AccountWrite \/ Receive \/ AttemptEnds \/ StopSettles
CloseStep == CloseStarts \/ CloseReleases \/ CloseUnproven

AccountNext ==
  \/ \E kind \in {"check", "login", "cancel", "logout"} : RunCall(kind)
  \/ RunRefused \/ TimeOut \/ CloseAccount
  \/ ControllerStep \/ TransportStep \/ CloseStep
  \/ FinishWrite \/ Disconnect
  \/ \E id \in 1..tr.next : ProviderAnswers(id) \/ ProviderCompletes(id)
  \/ ProviderChanges \/ ProviderExits

\* Timers fire and microtasks run; the provider owes nothing.
AccountFairness ==
  /\ WF_accountVars(ControllerStep) /\ WF_accountVars(TimeOut)
  /\ WF_accountVars(CloseStep)

AccountSpec == AccountInit /\ [][AccountNext]_accountVars /\ AccountFairness
-----------------------------------------------------------------------------
(* Properties.                                                             *)

\* A signed-in snapshot rests on an answer no older than the last change the
\* controller was told of: an answer that was on its way when the account
\* changed is never published.
SignedInIsCurrent == ctl.state = "signed-in" => ctl.basis >= told.ver

\* After a login whose outcome the controller lost, no further request of any
\* kind reaches the provider: neither a second login nor an account check.  And
\* a login is never left pending once its completion was delivered, even when
\* that came before the answer with its id, unless more completions came first
\* than the controller keeps.
LoginsTracked ==
  /\ told.lost => \A id \in prov.asked : id <= told.at
  /\ ctl.pending # NoLogin /\ ~told.full => ctl.pending \notin told.done

\* The account is released only when its process is gone, nothing is being
\* written or awaited, and no close of the transport is still running.
ReleaseMeansGone ==
  lease = "released" =>
    ~prov.alive /\ ~CallActive /\ ctl.closes = 0 /\ wire.queue = <<>> /\ wire.writing = 0

\* A late answer is recognised: a transport that still listens never takes
\* the answer to a request it gave up for a protocol violation.
LateAnswersKnown ==
  (Listening /\ wire.pipe # <<>> /\ Head(wire.pipe).type = "answer")
    => Head(wire.pipe).id \in tr.retired \cup {tr.pending}

\* Every operation answers its caller, and every close ends.
AccountAnswers ==
  /\ (task # NoTask) ~> (task = NoTask \/ task.returned)
  /\ (ctl.close \in {"starting", "asking"}) ~> (ctl.close \in {"none", "closed"})
=============================================================================
