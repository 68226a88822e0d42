---------------------------- MODULE CodexCustody ----------------------------
(* The launcher of a pinned codex (src/src/codex-process.ts): it writes its    *)
(* intent into an append-only custody journal, spawns the detached process,    *)
(* proves the process group, and on a stop signals, joins, removes the scratch *)
(* and records what it saw.  The host may die between any two steps; the       *)
(* process goes on, and the journal and the directory are all that is left.    *)
(* A record is what later readers tell apart; digests stand for themselves.    *)
EXTENDS Naturals, Sequences

CONSTANTS
    MaxRecords,     \* lines a journal may have
    CanCrash        \* the host may die

ASSUME CustodyAssumption == MaxRecords \in Nat /\ CanCrash \in BOOLEAN

VARIABLES
    launch,     \* the launcher: its step and the value its receipts show
    world,      \* the codex: its root, other members of its group, its pipes
    shelf       \* the directory of the run: journal, scratch, is it there

custodyVars == <<launch, world, shelf>>

CodexCustodyInit ==
    /\ launch = [at |-> "prepare", up |-> TRUE, asked |-> FALSE,
                 pid |-> FALSE, pgid |-> FALSE, spawnError |-> FALSE,
                 rootExited |-> FALSE, groupAbsent |-> FALSE, stdioJoined |-> FALSE,
                 retained |-> TRUE, errors |-> FALSE, runtimeErrors |-> FALSE,
                 sequence |-> 0, journalFailed |-> FALSE]
    /\ world = [root |-> "none", members |-> FALSE, pipes |-> FALSE]
    /\ shelf = [dir |-> FALSE, scratch |-> FALSE, journal |-> <<>>]

Here(step) == launch.up /\ launch.at = step

(***************************************************************************)
(* The journal.                                                            *)
(***************************************************************************)
\* The snapshot of a record, of the record it chains to, and its line.
Snapshot(l) == [pid |-> l.pid, pgid |-> l.pgid, rootExited |-> l.rootExited,
                groupAbsent |-> l.groupAbsent, stdioJoined |-> l.stdioJoined, retained |-> l.retained]
Line(l) == [whole |-> TRUE, sequence |-> l.sequence, previous |-> l.sequence - 1, snapshot |-> Snapshot(l)]
Torn == [whole |-> FALSE]

\* A line that follows a torn one on the disk is part of the torn one.
Written(line) ==
    IF shelf.journal # <<>> /\ ~shelf.journal[Len(shelf.journal)].whole
    THEN [shelf EXCEPT !.journal[Len(shelf.journal)] = Torn]
    ELSE [shelf EXCEPT !.journal = Append(@, line)]

\* persist: refused once a write has failed; a write may fail with part of the
\* line on the disk, or with all of it when only the fsync fails.
Persistable(l) == ~l.journalFailed /\ l.sequence < MaxRecords
Persisted(l) ==
    /\ Persistable(l)
    /\ shelf' = Written(Line(l))
    /\ launch' = [l EXCEPT !.sequence = @ + 1]
PersistFails(l) ==
    \/ /\ ~Persistable(l)
       /\ launch' = l /\ UNCHANGED shelf
    \/ /\ Persistable(l)
       /\ launch' = [l EXCEPT !.journalFailed = TRUE]
       /\ shelf' \in {shelf, Written(Torn), Written(Line(l))}

\* parseCodexCustodyJournal: what a later reader gets, or nothing.
Wholes(j) == IF j # <<>> /\ ~j[Len(j)].whole THEN SubSeq(j, 1, Len(j) - 1) ELSE j
InOrder(s) == /\ s.groupAbsent => s.rootExited
              /\ s.retained \/ (s.rootExited /\ s.groupAbsent /\ s.stdioJoined)
Follows(s, prior) ==
    /\ prior.pid => s.pid
    /\ prior.pgid => s.pgid
    /\ prior.rootExited => s.rootExited
    /\ prior.groupAbsent => s.groupAbsent
    /\ prior.stdioJoined => s.stdioJoined
Decodes(j) ==
    LET lines == Wholes(j) IN
    /\ Len(lines) \in 1..MaxRecords
    /\ \A i \in 1..Len(lines) :
         /\ lines[i].whole
         /\ lines[i].sequence = i - 1 /\ lines[i].previous = i - 2
         /\ InOrder(lines[i].snapshot)
         /\ i > 1 => Follows(lines[i].snapshot, lines[i - 1].snapshot)
Evidence(j) == Wholes(j)[Len(Wholes(j))].snapshot

(***************************************************************************)
(* Launch.                                                                 *)
(***************************************************************************)
\* mkdtemp, the scratch, the runtime snapshot, the policy and their checks: any
\* of them fails with nothing spawned, and the directory is removed.
PrepareCodex ==
    /\ Here("prepare")
    /\ \/ /\ launch' = [launch EXCEPT !.at = "intent"]
          /\ shelf' = [shelf EXCEPT !.dir = TRUE, !.scratch = TRUE]
       \/ /\ launch' = [launch EXCEPT !.at = "refused"]
          /\ UNCHANGED shelf
    /\ UNCHANGED world

Discarded == [shelf EXCEPT !.dir = FALSE, !.scratch = FALSE, !.journal = <<>>]

\* The first record is the intent: without it, or when the signal was aborted,
\* nothing is spawned and the directory goes.
RecordIntent ==
    /\ Here("intent")
    /\ \/ Persisted([launch EXCEPT !.at = "spawn"])
       \/ PersistFails([launch EXCEPT !.at = "discard"])
       \/ Persisted([launch EXCEPT !.at = "discard"])
    /\ UNCHANGED world

DiscardLaunch ==
    /\ Here("discard")
    /\ launch' = [launch EXCEPT !.at = "refused"]
    /\ shelf' \in {Discarded, shelf, [shelf EXCEPT !.scratch = FALSE]}
    /\ UNCHANGED world

\* spawn throws, or gives a child; a child without a pid is an error to come.
SpawnCodex ==
    /\ Here("spawn")
    /\ \/ /\ launch' = [launch EXCEPT !.at = "spawned", !.pid = TRUE]
          /\ world' = [root |-> "alive", members |-> FALSE, pipes |-> TRUE]
       \/ /\ launch' = [launch EXCEPT !.at = "spawned", !.spawnError = TRUE]
          /\ UNCHANGED world
       \/ /\ launch' = [launch EXCEPT !.at = "discard"]
          /\ UNCHANGED world
    /\ UNCHANGED shelf

\* The same turn of the event loop records the pid; a failure is kept, not thrown.
RecordSpawn ==
    /\ Here("spawned")
    /\ \/ Persisted([launch EXCEPT !.at = "starting"])
       \/ PersistFails([launch EXCEPT !.at = "starting", !.errors = TRUE])
    /\ UNCHANGED world

\* ready: ps names the group of the pid, or fails; then the third record.
Ready ==
    /\ Here("starting")
    /\ LET running == [launch EXCEPT !.at = "running"]
           failed  == [running EXCEPT !.runtimeErrors = TRUE] IN
       IF launch.errors \/ launch.runtimeErrors \/ ~launch.pid
       THEN launch' = failed /\ UNCHANGED shelf
       ELSE \/ Persisted([running EXCEPT !.pgid = TRUE])
            \/ Persisted([failed EXCEPT !.pgid = TRUE])      \* aborted meanwhile
            \/ Persisted(failed)                             \* ps failed
            \/ \E p \in BOOLEAN : PersistFails([failed EXCEPT !.pgid = p])
    /\ UNCHANGED world

(***************************************************************************)
(* The codex, and what its events tell the launcher.                       *)
(***************************************************************************)
CodexForks ==
    /\ world.root = "alive" /\ ~world.members
    /\ world' = [world EXCEPT !.members = TRUE]
    /\ UNCHANGED <<launch, shelf>>

CodexExits ==
    /\ \/ /\ world.root = "alive" /\ world' = [world EXCEPT !.root = "gone"]
       \/ /\ world.members /\ world' = [world EXCEPT !.members = FALSE]
    /\ UNCHANGED <<launch, shelf>>

\* The events come from the event loop, hence only after ready has run once.
Listens == launch.up /\ launch.at \notin {"prepare", "intent", "discard", "spawn", "spawned", "starting", "refused", "closed"}

ExitEvent ==
    /\ Listens /\ world.root = "gone" /\ ~launch.rootExited
    /\ launch' = [launch EXCEPT !.rootExited = TRUE]
    /\ UNCHANGED <<world, shelf>>

SpawnErrorEvent ==
    /\ Listens /\ launch.spawnError /\ ~launch.rootExited
    /\ launch' = [launch EXCEPT !.rootExited = TRUE, !.groupAbsent = TRUE, !.runtimeErrors = TRUE]
    /\ UNCHANGED <<world, shelf>>

\* "close" comes after the exit, when nothing holds the pipes any more.
CloseEvent ==
    /\ Listens /\ launch.rootExited /\ ~launch.stdioJoined
    /\ world.pipes => ~world.members
    /\ launch' = [launch EXCEPT !.stdioJoined = TRUE]
    /\ UNCHANGED <<world, shelf>>

\* A stream fails or passes its bound.
StreamError ==
    /\ Listens /\ ~launch.stdioJoined /\ ~launch.runtimeErrors
    /\ launch' = [launch EXCEPT !.runtimeErrors = TRUE]
    /\ UNCHANGED <<world, shelf>>

(***************************************************************************)
(* stopAndJoin.                                                            *)
(***************************************************************************)
\* Asked at any time after launch returned; it waits for ready, then closes
\* stdin and gives the process a while.
AskStop ==
    /\ launch.up /\ launch.at \in {"starting", "running"} /\ ~launch.asked
    /\ launch' = [launch EXCEPT !.asked = TRUE]
    /\ UNCHANGED <<world, shelf>>

BeginStop ==
    /\ Here("running") /\ launch.asked
    /\ \E e \in BOOLEAN : launch' = [launch EXCEPT !.at = "SIGTERM", !.errors = @ \/ e]
    /\ UNCHANGED <<world, shelf>>

\* observeAbsent: signal 0 to the group.  It may find the number in use again by
\* another group, or fail; only a group that is gone answers ESRCH.
GroupGone == world.root # "alive" /\ ~world.members
ObservedByRoot(l) == {[l EXCEPT !.groupAbsent = l.rootExited]}
Observed(l) ==
    IF ~l.rootExited \/ l.groupAbsent THEN {l}
    ELSE IF ~l.pgid THEN {[l EXCEPT !.errors = TRUE]}
    ELSE {l, [l EXCEPT !.errors = TRUE]} \cup (IF GroupGone THEN {[l EXCEPT !.groupAbsent = TRUE]} ELSE {})

Proven(l) == l.rootExited /\ l.groupAbsent

\* One round of the signal loop: nothing more when the stop is proven, else the
\* signal goes to the group, or to the child when its group is not known.
Signalled ==
    IF launch.pgid THEN [world EXCEPT !.root = IF @ = "alive" THEN "gone" ELSE @, !.members = FALSE]
    ELSE IF launch.pid /\ ~launch.rootExited THEN [world EXCEPT !.root = IF @ = "alive" THEN "gone" ELSE @]
    ELSE world
SignalCodex(sig, next) ==
    /\ Here(sig)
    /\ \E l \in Observed(launch) :
         IF Proven(l) THEN launch' = [l EXCEPT !.at = "join"] /\ UNCHANGED world
         ELSE \E e \in BOOLEAN :
                /\ launch' = [l EXCEPT !.at = next, !.errors = @ \/ e]
                /\ world' \in {world, Signalled}
    /\ UNCHANGED shelf

\* The waits of a round: for the exit, then for the group, each with a deadline.
AwaitSignal(step, next) ==
    /\ Here(step)
    /\ \E l \in (IF launch.pgid THEN Observed(launch) ELSE {launch}) : launch' = [l EXCEPT !.at = next]
    /\ UNCHANGED <<world, shelf>>

JoinCodex ==
    /\ Here("join")
    /\ \E l \in (IF launch.pgid THEN Observed(launch) ELSE {launch}) :
         launch' = [l EXCEPT !.at = "streams", !.errors = @ \/ ~Proven(l)]
    /\ UNCHANGED <<world, shelf>>

\* The streams close by themselves, or are destroyed; then they still may not.
JoinStreams ==
    /\ Here("streams")
    /\ \/ /\ launch.stdioJoined
          /\ launch' = [launch EXCEPT !.at = "recheck"] /\ UNCHANGED world
       \/ /\ ~launch.stdioJoined /\ world.pipes
          /\ world' = [world EXCEPT !.pipes = FALSE] /\ UNCHANGED launch
       \/ /\ ~launch.stdioJoined /\ ~world.pipes
          /\ launch' = [launch EXCEPT !.at = "recheck", !.errors = TRUE] /\ UNCHANGED world
    /\ UNCHANGED shelf

AllStopped(l) == Proven(l) /\ l.stdioJoined

\* The runtime snapshot and the parent runtime are read again.
Recheck ==
    /\ Here("recheck")
    /\ \E e, d \in (IF AllStopped(launch) THEN BOOLEAN ELSE {FALSE}) :
         launch' = [launch EXCEPT !.at = "remove", !.errors = @ \/ e, !.runtimeErrors = @ \/ d]
    /\ UNCHANGED <<world, shelf>>

\* Only a stop without any failure gives the scratch up; rm may fail half way.
MayRemove == ~launch.errors /\ ~launch.runtimeErrors /\ AllStopped(launch)
RemoveScratch ==
    /\ Here("remove")
    /\ IF MayRemove
       THEN \/ /\ launch' = [launch EXCEPT !.at = "record", !.retained = FALSE]
               /\ shelf' = [shelf EXCEPT !.scratch = FALSE]
            \/ /\ launch' = [launch EXCEPT !.at = "record", !.errors = TRUE]
               /\ shelf' \in {shelf, [shelf EXCEPT !.scratch = FALSE]}
       ELSE launch' = [launch EXCEPT !.at = "record"] /\ UNCHANGED shelf
    /\ UNCHANGED world

RecordStop ==
    /\ Here("record")
    /\ \/ Persisted([launch EXCEPT !.at = "closed"])
       \/ PersistFails([launch EXCEPT !.at = "closed", !.errors = TRUE])
    /\ UNCHANGED world

\* The host dies, also in the middle of a write.
HostDiesInLaunch ==
    /\ CanCrash /\ launch.up /\ launch.at \notin {"refused", "closed"}
    /\ launch' = [launch EXCEPT !.up = FALSE]
    /\ \/ UNCHANGED shelf
       \/ /\ launch.at \in {"intent", "spawned", "starting", "record"}
          /\ Persistable(launch)
          /\ shelf' = Written(Torn)
       \/ /\ launch.at = "discard" \/ (launch.at = "remove" /\ MayRemove)
          /\ shelf' = [shelf EXCEPT !.scratch = FALSE]
    /\ UNCHANGED world

LaunchStep == PrepareCodex \/ RecordIntent \/ DiscardLaunch \/ SpawnCodex \/ RecordSpawn \/ Ready
StopCodexStep ==
    \/ BeginStop
    \/ SignalCodex("SIGTERM", "termed") \/ AwaitSignal("termed", "SIGKILL")
    \/ SignalCodex("SIGKILL", "killed") \/ AwaitSignal("killed", "join")
    \/ JoinCodex \/ JoinStreams \/ Recheck \/ RemoveScratch \/ RecordStop
CodexEvents == ExitEvent \/ SpawnErrorEvent \/ CloseEvent \/ StreamError
CodexCustodyNext ==
    \/ LaunchStep \/ StopCodexStep \/ CodexEvents \/ AskStop
    \/ CodexForks \/ CodexExits \/ HostDiesInLaunch

CodexCustodyFairness == WF_custodyVars(LaunchStep) /\ WF_custodyVars(StopCodexStep)
CodexCustodySpec == CodexCustodyInit /\ [][CodexCustodyNext]_custodyVars /\ CodexCustodyFairness

\* Whenever the host dies, what it left is evidence for a recovery: while any
\* process of the codex lives, its scratch is there and its journal decodes; and
\* whatever a journal claims (the root exited, the group is absent, the scratch
\* is removed) is true, torn tails, failed writes, reused group numbers and
\* failing removals included (codex-process.ts: persist, stopAndJoin,
\* parseCodexCustodyJournal).
JournalIsEvidence ==
    /\ ~GroupGone => shelf.dir /\ shelf.scratch /\ Decodes(shelf.journal)
    /\ Decodes(shelf.journal) =>
         LET s == Evidence(shelf.journal) IN
         /\ s.rootExited => world.root # "alive"
         /\ s.groupAbsent => GroupGone
         /\ ~s.retained => ~shelf.scratch /\ GroupGone
=============================================================================
