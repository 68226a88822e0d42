------------------------------ MODULE XcbKernel ------------------------------
(***************************************************************************)
(* The native kernel (kernel.rs) between a terminal's display and the      *)
(* runner: the service that takes intents, starts and cancels tasks and    *)
(* publishes, with its outbox and the bounded channel to the display; and  *)
(* the loop of a task, which continues a turn that met a limit and moves   *)
(* to another route when a quota is spent.  Runs, accounts and tools are   *)
(* XcbRunner's; here a run is the session that holds its account.          *)
(*                                                                         *)
(* What lies between two awaits is one step; a tick takes at most one      *)
(* intent.  A sibling terminal may move a session; an account that one     *)
(* holds shows as a refusal.                                               *)
(***************************************************************************)
EXTENDS Naturals, Sequences, FiniteSets, FiniteSetsExt, SequencesExt

CONSTANTS
  Threads,          \* the sessions that exist or may be created
  Existing,         \* those that exist when the terminal opens
  Selectable,       \* the accounts that may be selected
  Models,           \* the models each of them offers
  NoThread,         \* no session selected, or no run on an account
  MaxConsecutive,   \* automatic continuations of a task (3)
  MaxRoutes,        \* routes a task may have tried (16)
  MaxActive,        \* tasks of one terminal (16)
  MaxQueued,        \* updates in the outbox (1024)
  ChannelLimit,     \* updates in the channel (256)
  MaxIntents        \* bound: intents of the user, and moves of siblings

ASSUME KernelAssumption ==
  /\ Existing \subseteq Threads /\ NoThread \notin Threads
  /\ {MaxConsecutive, MaxRoutes, MaxActive, MaxIntents} \subseteq Nat
  /\ {MaxQueued, ChannelLimit} \subseteq Nat \ {0}

VARIABLES
  loop,      \* the entry of each session in `active`, with its task's locals
  stored,    \* the sessions of the store, their routes and the unsettled runs
  service,   \* the locals of serve
  outbox,    \* queued updates and buffered text
  channel,   \* updates sent, not yet read
  display    \* the terminal user interface

kernelVars == <<loop, stored, service, outbox, channel, display>>

Routes == Selectable \X Models
AccountOf(route) == route[1]
Default == CHOOSE route \in Routes : TRUE   \* of the configuration
NoActive == [at |-> "none"]
NoRoute == <<>>

\* What a turn comes to, as the policies see it: it is clear when it was joined,
\* its effects are certain and no attention is pending; and a failed turn, and only
\* that, has a failure; one that is not clear is not asked for it.
TurnFacts ==
  {facts \in [terminal : {"Completed", "TurnLimit", "Failed"}, clear : BOOLEAN,
              failure : {"none", "AccountQuota", "ModelQuota", "Unknown"}] :
     /\ facts.terminal = "Failed" <=> facts.failure # "none"
     /\ facts.clear \/ facts.failure \in {"none", "Unknown"}}
NoFacts == [terminal |-> "Failed", clear |-> FALSE, failure |-> "Unknown"]

Running == {s \in Threads : loop[s].at # "none"}
HasOpenRun(s) == \E a \in Selectable : stored.run[a] = s

View(s, busy) == [type |-> "view", of |-> s, working |-> busy]
Snapshot(s, active) == View(s, s \in active)
Notice == [type |-> "notice"]
ClearStream(s) == [type |-> "clear", of |-> s]

KernelInit ==
  /\ loop = [s \in Threads |-> NoActive]
  /\ \E route \in [Existing -> Routes] :
       stored = [made |-> Existing, run |-> [a \in Selectable |-> NoThread],
                 route |-> [s \in Threads |-> IF s \in Existing THEN route[s] ELSE NoRoute]]
  /\ \E s \in Existing \cup {NoThread} :
       /\ service = [at |-> "select", current |-> s, pending |-> NoThread, quit |-> FALSE,
                     done |-> <<>>, intents |-> 0, started |-> 0]
       /\ channel = <<View(s, FALSE)>>
  /\ outbox = [updates |-> <<>>, deltas |-> {}, lost |-> FALSE]
  /\ display = [open |-> TRUE, of |-> NoThread, working |-> FALSE, stream |-> {}]
-----------------------------------------------------------------------------
(* The outbox.                                                             *)

\* The element of a singleton: TLC evaluates an outbox named in one only once.
The(S) == CHOOSE x \in S : TRUE

\* The update that a full outbox drops: its oldest view, or else its oldest.
Dropped(q) ==
  LET views == {i \in DOMAIN q : q[i].type = "view"}
  IN IF views = {} THEN 1 ELSE Min(views)

\* queue.
Enqueued(box, update) ==
  IF Len(box.updates) < MaxQueued
  THEN [box EXCEPT !.updates = Append(@, update)]
  ELSE LET d == Dropped(box.updates)
       IN [box EXCEPT !.updates = Append(RemoveAt(@, d), update),
                      !.lost = @ \/ box.updates[d].type = "clear"]

\* The outbox after `updates`, with the text in `deltas`.
Queued(updates, deltas) ==
  LET box[i \in 0..Len(updates)] ==
        IF i = 0 THEN [outbox EXCEPT !.deltas = deltas]
        ELSE The({Enqueued(b, updates[i]) : b \in {box[i - 1]}})
  IN box[Len(updates)]

\* The channel's room, and how many of these updates it takes.
Room == ChannelLimit - Len(channel)
Fitting(updates) == IF Len(updates) < Room THEN Len(updates) ELSE Room

\* flush: updates while the channel has room, then the text that still fits.
Flush(box) ==
  IF ~display.open
  THEN /\ outbox' = IF box.updates = <<>> THEN box ELSE [box EXCEPT !.updates = <<>>, !.deltas = {}]
       /\ UNCHANGED channel
  ELSE \E sent \in SUBSET box.deltas :
       LET n == Fitting(box.updates)
           left == IF n = Len(box.updates) THEN Room - n ELSE 0
       IN /\ Cardinality(sent) = IF Cardinality(box.deltas) < left THEN Cardinality(box.deltas) ELSE left
          /\ channel' = channel \o SubSeq(box.updates, 1, n) \o SetToSeq(sent)
          /\ outbox' = [box EXCEPT !.updates = SubSeq(@, n + 1, Len(@)), !.deltas = @ \ sent]
-----------------------------------------------------------------------------
(* The policies (xcb-core/src/policy.rs).                                  *)

ShouldContinue(t, late, repeated) ==
  /\ t.consecutive < MaxConsecutive /\ ~late /\ ~repeated
  /\ t.facts.clear /\ t.facts.failure = "none"
  /\ t.facts.terminal = "TurnLimit"

\* next_route, over the candidates of a view; the judge orders them.
NextRoutes(t) ==
  IF t.facts.clear /\ Cardinality(t.tried) < MaxRoutes
     /\ t.facts.terminal = "Failed" /\ t.facts.failure \in {"AccountQuota", "ModelQuota"}
  THEN {r \in t.candidates : /\ r \notin t.tried /\ r # t.source
                             /\ t.facts.failure = "AccountQuota" => AccountOf(r) # AccountOf(t.source)}
  ELSE {}
-----------------------------------------------------------------------------
(* The loop of a task: execute_inner.                                      *)

Started(n, pane) ==
  [at |-> "top", pane |-> pane, n |-> n, cancelled |-> FALSE, consecutive |-> 0, tried |-> {},
   source |-> NoRoute, candidates |-> {}, facts |-> NoFacts]

\* The process of the terminal, with its tasks, ends with its service.
Serving == service.at \notin {"stopped", "failed"}

Stands(s, step) == loop[s].at = step
Moves(s, step) == loop' = [loop EXCEPT ![s].at = step] /\ UNCHANGED service

\* The task sends its result and stays in `active` until that is received.
Finishes(s, result) ==
  /\ loop' = [loop EXCEPT ![s] = [Started(0, loop[s].pane) EXCEPT !.at = "finished"]]
  /\ service' = [service EXCEPT !.done = Append(@, [of |-> s, result |-> result])]
Returns(s) == Finishes(s, IF loop[s].facts.terminal = "Completed" THEN "completed" ELSE "stopped")

AccountReady(s) == stored.run[AccountOf(stored.route[s])] = NoThread

\* Mutant: a route that was left may be taken again.
StartsTurnAgain(s) ==
  /\ Stands(s, "top")
  /\ \/ Finishes(s, "error")
     \/ /\ ~loop[s].cancelled /\ AccountReady(s)
        /\ loop' = [loop EXCEPT ![s].at = "appended", ![s].source = stored.route[s]]
        /\ UNCHANGED service
  /\ UNCHANGED <<stored, outbox, channel, display>>

\* The next turn, unless the task is cancelled or its account is not ready; a
\* sibling may have changed or removed the session.
StartsTurn(s) ==
  /\ Stands(s, "top")
  /\ \/ Finishes(s, "error")
     \/ /\ ~loop[s].cancelled /\ AccountReady(s)
        /\ loop' = [loop EXCEPT ![s].at = "appended", ![s].source = stored.route[s],
                                ![s].tried = @ \cup {stored.route[s]}]
        /\ UNCHANGED service
  /\ UNCHANGED <<stored, outbox, channel, display>>

\* runner::run takes the account, or refuses.
RunsTurn(s) ==
  /\ Stands(s, "appended")
  /\ \/ Finishes(s, "error") /\ UNCHANGED stored
     \/ /\ ~loop[s].cancelled /\ stored.route[s] = loop[s].source /\ AccountReady(s)
        /\ stored' = [stored EXCEPT !.run[AccountOf(loop[s].source)] = s]
        /\ Moves(s, "running")
  /\ UNCHANGED <<outbox, channel, display>>

Streams(s) ==
  /\ Serving /\ Stands(s, "running") /\ ~loop[s].pane
  /\ outbox' = [outbox EXCEPT !.deltas = @ \cup {[type |-> "delta", of |-> s, n |-> loop[s].n]}]
  /\ UNCHANGED <<loop, stored, service, channel, display>>

\* A turn that is not clear may leave its run unsettled.  An error ends the task.
TurnEnds(s) ==
  /\ Stands(s, "running")
  /\ \E facts \in TurnFacts, settled \in BOOLEAN :
       /\ facts.clear => settled
       /\ stored' = IF settled THEN [stored EXCEPT !.run[AccountOf(loop[s].source)] = NoThread] ELSE stored
       /\ \/ loop' = [loop EXCEPT ![s].at = "ended", ![s].facts = facts] /\ UNCHANGED service
          \/ Finishes(s, "error")
  /\ UNCHANGED <<outbox, channel, display>>

\* Back to the top, with what outlives a turn, and with a notice to the user.
Loops(s, n) ==
  /\ outbox' = Queued(<<Notice>>, outbox.deltas)
  /\ loop' = [loop EXCEPT ![s].at = "top", ![s].consecutive = @ + n, ![s].source = NoRoute,
                          ![s].candidates = {}, ![s].facts = NoFacts]
  /\ UNCHANGED service
Continues(s) == Loops(s, 1)

\* Failover on, and there is time: the candidates are those of a view taken now.
FailsOver(s, late) ==
  /\ UNCHANGED outbox
  /\ \/ Returns(s)
     \/ /\ ~late
        /\ loop' = [loop EXCEPT ![s].at = "routing",
             ![s].candidates = {r \in Routes : stored.run[AccountOf(r)] = NoThread}]
        /\ UNCHANGED service

\* After the hooks: return, continue, ask the judge, or look for a route.
Decides(s) ==
  /\ Stands(s, "ended")
  /\ IF loop[s].pane \/ loop[s].cancelled \/ stored.route[s] # loop[s].source
     THEN Returns(s) /\ UNCHANGED outbox
     ELSE \E late, repeated \in BOOLEAN :
          IF ShouldContinue(loop[s], late, repeated)
          THEN Continues(s) \/ (Moves(s, "judging") /\ UNCHANGED outbox)
          ELSE FailsOver(s, late)
  /\ UNCHANGED <<stored, channel, display>>

Judged(s) ==
  /\ Stands(s, "judging")
  /\ Continues(s) \/ \E late \in BOOLEAN : FailsOver(s, late)
  /\ UNCHANGED <<stored, channel, display>>

\* rebind refuses a session that is busy or that a sibling changed.
Reroutes(s) ==
  /\ Stands(s, "routing")
  /\ \/ /\ IF NextRoutes(loop[s]) = {} THEN Returns(s) ELSE Finishes(s, "error")
        /\ UNCHANGED <<stored, outbox>>
     \/ \E r \in NextRoutes(loop[s]) :
          /\ ~HasOpenRun(s) /\ stored.route[s] = loop[s].source
          /\ stored' = [stored EXCEPT !.route[s] = r]
          /\ Loops(s, 0)
  /\ UNCHANGED <<channel, display>>

TaskStep(s) ==
  /\ Serving
  /\ StartsTurn(s) \/ RunsTurn(s) \/ TurnEnds(s) \/ Decides(s) \/ Judged(s) \/ Reroutes(s)
-----------------------------------------------------------------------------
(* The service: serve.                                                     *)

Cancelled(s) == [loop[s] EXCEPT !.cancelled = TRUE]
Starts(s, pane) == [loop EXCEPT ![s] = Started(IF pane THEN 0 ELSE service.started + 1, pane)]
Creates(s, route) == [stored EXCEPT !.made = @ \cup {s}, !.route[s] = route]

\* An arm of select ends and the loop comes round: it flushes and waits again,
\* or, when it should quit and nothing runs, says so in a last flush that may find
\* the channel full.
Serves(sv, active, updates, deltas) ==
  \E box \in {Queued(updates, deltas)} :
     IF sv.quit /\ active = {}
     THEN /\ service' = [sv EXCEPT !.at = "stopped"]
          /\ outbox' = [box EXCEPT !.updates = <<>>, !.deltas = {}]
          /\ channel' = LET out == Enqueued(box, [type |-> "stopped"]).updates
                        IN IF display.open THEN channel \o SubSeq(out, 1, Fitting(out)) ELSE channel
     ELSE service' = sv /\ Flush(box)

\* Mutant: the text that is still buffered is kept.
TextKept(s) == outbox.deltas
TextOfOthers(s) == {d \in outbox.deltas : d.of # s}

\* A task's end is received: its text and its stream are dropped, a queued pane
\* generation starts, whichever task ended, and a view is published.
Completes ==
  /\ service.at = "select" /\ service.done # <<>>
  /\ LET s == Head(service.done).of
         gone == [loop EXCEPT ![s] = NoActive]
         rest == [service EXCEPT !.done = Tail(@), !.pending = NoThread]
     IN \E notices \in IF Head(service.done).result = "completed" /\ ~loop[s].pane THEN {<<>>} ELSE {<<Notice>>} :
        \/ /\ service.pending = NoThread \/ service.quit
           /\ loop' = gone /\ UNCHANGED stored
           /\ Serves(rest, Running \ {s},
                     <<ClearStream(s)>> \o notices \o <<Snapshot(service.current, Running \ {s})>>, TextOfOthers(s))
        \/ /\ service.pending # NoThread /\ ~service.quit /\ AccountReady(service.pending)
           /\ \E p \in Threads \ stored.made :
                /\ stored' = Creates(p, stored.route[service.pending])
                /\ loop' = [gone EXCEPT ![p] = Started(0, TRUE)]
                /\ Serves(rest, {p}, <<ClearStream(s)>> \o notices \o
                          <<Snapshot(service.current, (Running \ {s}) \cup {p})>>, TextOfOthers(s))
        \/ \* The generation's error is serve's own; the process ends with its tasks.
           /\ service.pending # NoThread /\ ~service.quit
           /\ loop' = [t \in Threads |-> NoActive] /\ UNCHANGED stored
           /\ service' = [rest EXCEPT !.at = "failed", !.done = <<>>]
           /\ outbox' = Queued(<<ClearStream(s)>> \o notices, TextOfOthers(s)) /\ UNCHANGED channel
  /\ UNCHANGED display

\* One intent of the user; each ends in a view.
Takes == service.at = "select" /\ display.open /\ service.intents < MaxIntents
Handles(sv, active, notices) ==
  /\ Serves([sv EXCEPT !.intents = @ + 1], active, notices \o <<Snapshot(sv.current, active)>>, outbox.deltas)
  /\ UNCHANGED display

\* A submitted text starts a loop, in a new session if none is selected; if that
\* session is not ready it stays, and the text comes back to the composer.
Submit ==
  /\ Takes
  /\ \E s \in Threads :
       /\ \/ service.current = s /\ UNCHANGED stored
          \/ /\ service.current = NoThread /\ s \notin stored.made
             /\ stored' = Creates(s, Default)
       /\ \/ /\ s \notin Running /\ Cardinality(Running) < MaxActive
             /\ stored'.run[AccountOf(stored'.route[s])] = NoThread
             /\ loop' = Starts(s, FALSE)
             /\ Handles([service EXCEPT !.current = s, !.started = @ + 1], Running \cup {s}, <<>>)
          \/ /\ UNCHANGED loop
             /\ Handles([service EXCEPT !.current = s], Running, <<Notice, Notice>>)

Cancel ==
  /\ Takes
  /\ loop' = IF service.current \in Running
             THEN [loop EXCEPT ![service.current] = Cancelled(service.current)] ELSE loop
  /\ Handles([service EXCEPT !.pending = NoThread], Running, <<>>)
  /\ UNCHANGED stored

\* Resume, or a new session, also for an account or a model without one.
Select ==
  /\ Takes
  /\ \E s \in Threads :
       /\ \/ s \in stored.made /\ UNCHANGED stored
          \/ /\ s \notin stored.made
             /\ \E r \in IF service.current = NoThread THEN Routes ELSE {Default} : stored' = Creates(s, r)
       /\ Handles([service EXCEPT !.current = s], Running, <<>>)
  /\ UNCHANGED loop

\* Another account or model for an idle session.
ChooseRoute(r) ==
  /\ Takes /\ service.current \in Threads \ Running /\ ~HasOpenRun(service.current)
  /\ stored' = [stored EXCEPT !.route[service.current] = r]
  /\ Handles(service, Running, <<>>)
  /\ UNCHANGED loop

\* A pane generation starts in a session of its own, or waits.
GeneratePane ==
  /\ Takes /\ service.current \in Threads
  /\ \A s \in Running : ~loop[s].pane
  /\ Cardinality(Running) < MaxActive
  /\ \/ /\ service.current \in Running
        /\ UNCHANGED <<loop, stored>>
        /\ Handles([service EXCEPT !.pending = service.current], Running, <<Notice>>)
     \/ /\ service.current \notin Running /\ AccountReady(service.current)
        /\ \E p \in Threads \ stored.made :
             /\ stored' = Creates(p, stored.route[service.current])
             /\ loop' = Starts(p, TRUE)
             /\ Handles(service, Running \cup {p}, <<>>)

\* Configuration, panes and images; and any intent that is refused.
OtherIntent ==
  /\ Takes
  /\ \E notices \in {<<>>, <<Notice>>} : Handles(service, Running, notices)
  /\ UNCHANGED <<loop, stored>>

\* Quit, from the user or because the display is gone: every task is cancelled.
Quit ==
  /\ service.at = "select"
  /\ ~display.open \/ service.intents < MaxIntents
  /\ loop' = [s \in Threads |-> IF s \in Running THEN Cancelled(s) ELSE NoActive]
  /\ Serves([service EXCEPT !.quit = TRUE, !.pending = NoThread,
                            !.intents = IF display.open THEN @ + 1 ELSE @], Running, <<>>, outbox.deltas)
  /\ UNCHANGED <<stored, display>>

\* The rest of a tick: while tasks are active it publishes a view at times.
Tick ==
  /\ service.at = "select" /\ display.open
  /\ \E views \in {<<>>} \cup IF Running = {} THEN {} ELSE {<<Snapshot(service.current, Running)>>} :
       Serves(service, Running, views, outbox.deltas)
  /\ UNCHANGED <<loop, stored, display>>
-----------------------------------------------------------------------------
(* The display (xcb-tui/src/lib.rs: apply) and the sibling terminals.      *)

Closed == [open |-> FALSE, of |-> NoThread, working |-> FALSE, stream |-> {}]

\* Text and resets of a session that is not shown are ignored; a view of
\* another session clears what is shown.
Reads ==
  /\ display.open /\ channel # <<>>
  /\ channel' = Tail(channel)
  /\ LET u == Head(channel)
     IN display' =
        CASE u.type = "view" -> [display EXCEPT !.of = u.of, !.working = u.working,
                                   !.stream = IF display.of = u.of THEN @ ELSE {}]
          [] u.type = "delta" /\ u.of = display.of -> [display EXCEPT !.stream = @ \cup {u.n}]
          [] u.type = "clear" /\ u.of = display.of -> [display EXCEPT !.stream = {}]
          [] u.type = "stopped" -> Closed
          [] OTHER -> display
  /\ UNCHANGED <<loop, stored, service, outbox>>

Leaves ==
  /\ display.open
  /\ display' = Closed /\ channel' = <<>>
  /\ UNCHANGED <<loop, stored, service, outbox>>

SiblingMoves(s, r) ==
  /\ Serving /\ service.intents < MaxIntents
  /\ s \in stored.made /\ ~HasOpenRun(s)
  /\ stored' = [stored EXCEPT !.route[s] = r]
  /\ service' = [service EXCEPT !.intents = @ + 1]
  /\ UNCHANGED <<loop, outbox, channel, display>>
-----------------------------------------------------------------------------
KernelNext ==
  \/ Completes \/ Tick \/ Quit
  \/ Submit \/ Cancel \/ Select \/ GeneratePane \/ OtherIntent
  \/ \E r \in Routes : ChooseRoute(r)
  \/ \E s \in Threads : TaskStep(s) \/ Streams(s)
  \/ Reads \/ Leaves
  \/ \E s \in Threads, r \in Routes : SiblingMoves(s, r)

\* Every await of a task is answered (the turn, the judge and the hooks have
\* deadlines), and select! picks among its ready arms at random, so that neither
\* is passed over for ever.
KernelFairness ==
  /\ \A s \in Threads : WF_kernelVars(TaskStep(s))
  /\ WF_kernelVars(Completes) /\ WF_kernelVars(Quit /\ ~display.open)

KernelSpec == KernelInit /\ [][KernelNext]_kernelVars /\ KernelFairness
-----------------------------------------------------------------------------
(* Properties.                                                             *)

\* The text on the screen never runs two tasks of a session together, and when
\* all is quiet the screen shows the selected session at rest, with no text of a
\* task that ended: the session's transcript has it then.  Only an outbox that
\* is full of updates other than views loses the reset of a stream (a display
\* that has not read for a long time; "stream resets must arrive", says the
\* comment on Outbox).
DisplayTellsTruth ==
  /\ ~outbox.lost => Cardinality(display.stream) <= 1
  /\ /\ service.at = "select" /\ Running = {}
     /\ outbox.updates = <<>> /\ outbox.deltas = {} /\ channel = <<>> /\ display.open
     => /\ display.of = service.current /\ ~display.working
        /\ ~outbox.lost => display.stream = {}

\* The terminal comes to rest: the loop of a task stops even if time stands
\* still, by its continuations and the routes it tried, siblings moving it
\* only so often; and when the display is gone the service ends, whatever was
\* running or waiting.
KernelRests ==
  []<>(~Serving \/ (Running = {} /\ display.open))
=============================================================================
