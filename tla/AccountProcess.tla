--------------------------- MODULE AccountProcess ---------------------------
(***************************************************************************)
(* The launch and the join of a Codex account's process, by the two owners *)
(* that contend for it: account sign-in (codex-account-process.ts,         *)
(* createCodexAccountProcess) and a managed task                           *)
(* (codex-managed-process.ts, createOwnedCore).  Both take the account's   *)
(* lock file by exclusive creation, sync a custody journal before each     *)
(* step it describes, make a scratch and a runtime directory, start a      *)
(* child in a process group of its own, and stop it by a join that may be  *)
(* asked again for as long as it proves nothing.                           *)
(*                                                                         *)
(* A handle is one call of either.  All handles are for one account.  The  *)
(* host of a handle may die between any two steps; the files and the child *)
(* stay behind.  Where the two owners do the same, an action stands for    *)
(* both.                                                                   *)
(***************************************************************************)
EXTENDS Naturals

CONSTANTS
  Handles,      \* the owners' handles on one account
  Tasks,        \* those of managed tasks
  Nobody,       \* no handle
  MaxStops      \* bound: calls of stopAndJoin on a handle

ASSUME ProcessAssumption ==
  Tasks \subseteq Handles /\ Nobody \notin Handles /\ MaxStops \in Nat

VARIABLES
  handle,       \* the locals of each handle; had observes that it made the lock
  lock,         \* the account's lock file: the handle whose binding it holds
  journal,      \* the last durable phase in each custody journal
  scratch,      \* the handles whose scratch and runtime directories exist
  child,        \* each handle's process group
  reused,       \* the handles whose group id the kernel gave to others
  strangers     \* observer: a signal reached another program's group

processVars == <<handle, lock, journal, scratch, child, reused, strangers>>

\* "root": the child runs. "orphans": it was reaped, others of its group run.
Groups == {"none", "root", "orphans", "gone"}
Phases == {"none", "empty", "preparing", "launch-pending", "running", "release-pending",
           "recovery-required", "closed"}
Stops == {"none", "waiting", "killing", "probing", "joining", "removing",
          "recording", "unlinking", "syncing", "closed"}

Alive(h) == child[h] \in {"root", "orphans"}

NewHandle ==
  [up |-> TRUE, prep |-> "new", closing |-> FALSE, attempted |-> FALSE,
   spawned |-> FALSE, group |-> FALSE, exited |-> FALSE, absent |-> FALSE,
   drained |-> FALSE, owned |-> FALSE, broken |-> FALSE, unsynced |-> FALSE,
   released |-> FALSE, had |-> FALSE, stop |-> "none", stops |-> 0]

ProcessInit ==
  /\ handle = [h \in Handles |-> NewHandle]
  /\ lock = Nobody
  /\ journal = [h \in Handles |-> "none"]
  /\ scratch = {}
  /\ child = [h \in Handles |-> "none"]
  /\ reused = {} /\ strangers = FALSE
-----------------------------------------------------------------------------
(* Preparation.                                                            *)

\* alivePreparation, admitted: no stop has been asked and, for a task, its
\* lease and its signals still stand (a cancelled task asks for a stop).
Admitted(h) == handle[h].up /\ ~handle[h].closing

At(h, stage) == handle[h].up /\ handle[h].prep = stage

\* The runtime, the directories and an empty journal.
Inspect(h) ==
  /\ At(h, "new") /\ Admitted(h)
  /\ handle' = [handle EXCEPT ![h].prep = "inspected"]
  /\ journal' = [journal EXCEPT ![h] = "empty"]
  /\ UNCHANGED <<lock, scratch, child, reused, strangers>>

\* Mutant: a lock file that is there is taken over.
TakeLockOver(h) ==
  /\ At(h, "inspected")
  /\ lock' = h
  /\ handle' = [handle EXCEPT ![h].prep = "locked", ![h].owned = TRUE, ![h].had = TRUE]
  /\ UNCHANGED <<journal, scratch, child, reused, strangers>>

\* The exclusive create of the lock file. It is owned from here on, also if
\* its bytes or its directory cannot be synced.
TakeLock(h) ==
  /\ At(h, "inspected") /\ lock = Nobody
  /\ lock' = h
  /\ handle' = [handle EXCEPT ![h].prep = "locked", ![h].owned = TRUE, ![h].had = TRUE]
  /\ UNCHANGED <<journal, scratch, child, reused, strangers>>

\* The first record, and the account's home with its configuration.
RecordLock(h) ==
  /\ At(h, "locked")
  /\ journal' = [journal EXCEPT ![h] = "preparing"]
  /\ handle' = [handle EXCEPT ![h].prep = "recorded"]
  /\ UNCHANGED <<lock, scratch, child, reused, strangers>>

MakeScratch(h) ==
  /\ At(h, "recorded") /\ Admitted(h)
  /\ scratch' = scratch \cup {h}
  /\ handle' = [handle EXCEPT ![h].prep = "ready"]
  /\ UNCHANGED <<lock, journal, child, reused, strangers>>

\* The catch of the preparation, before a launch: nothing can have started.
PrepareFails(h) ==
  /\ \E stage \in {"new", "inspected", "locked", "recorded", "ready"} : At(h, stage)
  /\ \E broke \in BOOLEAN :
       /\ broke => handle[h].prep = "locked"
       /\ handle' = [handle EXCEPT ![h].prep = "failed", ![h].exited = TRUE,
                       ![h].absent = TRUE, ![h].broken = broke]
  /\ UNCHANGED <<lock, journal, scratch, child, reused, strangers>>

\* From the last admission to "running" the host does not yield. The pending
\* record is durable before the spawn, and the group is proven after it.
LaunchChild(h) ==
  /\ At(h, "ready") /\ Admitted(h)
  /\ journal' = [journal EXCEPT ![h] = "running"]
  /\ child' = [child EXCEPT ![h] = "root"]
  /\ handle' = [handle EXCEPT ![h].prep = "done", ![h].attempted = TRUE,
                  ![h].spawned = TRUE, ![h].group = TRUE]
  /\ UNCHANGED <<lock, scratch, reused, strangers>>

\* The pending record cannot be written; spawn throws, which proves nothing; it
\* will report an error, without a pid; ps does not prove the child's group; or
\* the group is proven, but the lease or the time is gone by then ("refused"),
\* or the record of the running child cannot be written ("running").
LaunchFails(h) ==
  /\ At(h, "ready") /\ Admitted(h)
  /\ \E how \in {"record", "throws", "error", "group", "refused", "running"} :
       /\ journal' = IF how = "record" THEN journal
                     ELSE [journal EXCEPT ![h] = "launch-pending"]
       /\ child' = IF how \in {"group", "refused", "running"}
                   THEN [child EXCEPT ![h] = "root"] ELSE child
       /\ handle' = [handle EXCEPT ![h].prep = "failed", ![h].attempted = TRUE,
                       ![h].broken = how \in {"record", "running"},
                       ![h].spawned = how \in {"error", "group", "refused", "running"},
                       ![h].group = how \in {"refused", "running"}]
  /\ UNCHANGED <<lock, scratch, reused, strangers>>

\* The host dies in the middle of it, before or after the spawn.
LaunchCutShort(h) ==
  /\ At(h, "ready") /\ Admitted(h)
  /\ journal' = [journal EXCEPT ![h] = "launch-pending"]
  /\ child' \in {child, [child EXCEPT ![h] = "root"]}
  /\ handle' = [handle EXCEPT ![h].up = FALSE, ![h].attempted = TRUE]
  /\ UNCHANGED <<lock, scratch, reused, strangers>>
-----------------------------------------------------------------------------
(* The child, and what its handle hears of it.                             *)

RootExits(h) ==
  /\ child[h] = "root"
  /\ \E left \in {"orphans", "gone"} : child' = [child EXCEPT ![h] = left]
  /\ handle' = [handle EXCEPT ![h].exited = @ \/ handle[h].up]
  /\ UNCHANGED <<lock, journal, scratch, reused, strangers>>

OrphansExit(h) ==
  /\ child[h] = "orphans"
  /\ child' = [child EXCEPT ![h] = "gone"]
  /\ UNCHANGED <<handle, lock, journal, scratch, reused, strangers>>

GroupReused(h) ==
  /\ child[h] = "gone"
  /\ reused' = reused \cup {h}
  /\ UNCHANGED <<handle, lock, journal, scratch, child, strangers>>

\* The close events of the child and its streams: after its exit, once nobody
\* of its group holds a pipe; or after an error event of a spawn without a pid.
Drained(h) ==
  /\ handle[h].up /\ handle[h].spawned /\ ~handle[h].drained
  /\ handle[h].exited \/ child[h] = "none"
  /\ handle' = [handle EXCEPT ![h].drained = TRUE, ![h].exited = TRUE,
                  ![h].absent = @ \/ child[h] = "none"]
  /\ UNCHANGED <<lock, journal, scratch, child, reused, strangers>>

HostDies(h) ==
  /\ handle[h].up
  /\ handle' = [handle EXCEPT ![h].up = FALSE]
  /\ UNCHANGED <<lock, journal, scratch, child, reused, strangers>>
-----------------------------------------------------------------------------
(* stopAndJoin.                                                            *)

StopAt(h, step) == handle[h].up /\ handle[h].stop = step

\* Asked by the caller, a cancelled task, a deadline or a broken stream. A call
\* made while one runs, or after a proven one, gets that one's answer.
StopHandle(h) ==
  /\ StopAt(h, "none") /\ handle[h].stops < MaxStops
  /\ handle' = [handle EXCEPT ![h].closing = TRUE, ![h].stop = "waiting",
                  ![h].stops = @ + 1]
  /\ UNCHANGED <<lock, journal, scratch, child, reused, strangers>>

\* A signal, unless the child was reaped: then its number may be another's.
Signal(h) ==
  strangers' = (strangers \/ (~handle[h].exited /\ handle[h].group /\ h \in reused))

Terminate(h) ==
  /\ StopAt(h, "waiting") /\ handle[h].prep \in {"done", "failed"}
  /\ handle[h].spawned
  /\ Signal(h)
  /\ handle' = [handle EXCEPT ![h].stop = "killing"]
  /\ UNCHANGED <<lock, journal, scratch, child, reused>>

Kill(h) ==
  /\ StopAt(h, "killing")
  /\ Signal(h)
  /\ handle' = [handle EXCEPT ![h].stop = "probing"]
  /\ UNCHANGED <<lock, journal, scratch, child, reused>>

\* Signal 0 finds nobody of a proven group, after its root was reaped.
Probe(h) ==
  /\ StopAt(h, "probing")
  /\ handle' = [handle EXCEPT ![h].stop = "joining", ![h].absent =
       IF handle[h].exited /\ handle[h].group
       THEN child[h] = "gone" /\ h \notin reused ELSE @]
  /\ UNCHANGED <<lock, journal, scratch, child, reused, strangers>>

\* Mutant: the group is not looked for once its root was reaped.
JoinRootOnly(h) ==
  /\ \/ StopAt(h, "joining") /\ handle[h].exited
     \/ /\ StopAt(h, "waiting") /\ handle[h].prep = "failed"
        /\ ~handle[h].spawned /\ ~handle[h].attempted
  /\ ~handle[h].broken
  /\ handle[h].owned => lock = h
  /\ handle' = [handle EXCEPT
       ![h].stop = IF handle[h].owned THEN "removing"
                   ELSE IF handle[h].unsynced THEN "syncing" ELSE "closed",
       ![h].released = @ \/ (~handle[h].owned /\ ~handle[h].unsynced)]
  /\ UNCHANGED <<lock, journal, scratch, child, reused, strangers>>

\* Mutant: a retry after the unlink goes through the whole release again.
JoinAgain(h) ==
  /\ \/ StopAt(h, "joining") /\ handle[h].drained /\ handle[h].exited /\ handle[h].absent
     \/ /\ StopAt(h, "waiting") /\ handle[h].prep = "failed"
        /\ ~handle[h].spawned /\ ~handle[h].attempted
  /\ ~handle[h].broken
  /\ handle[h].owned => lock = h
  /\ handle' = [handle EXCEPT
       ![h].stop = IF handle[h].owned \/ handle[h].unsynced THEN "removing" ELSE "closed",
       ![h].released = @ \/ (~handle[h].owned /\ ~handle[h].unsynced)]
  /\ UNCHANGED <<lock, journal, scratch, child, reused, strangers>>

\* The streams end too. A launch that was attempted and left no child behind
\* stays uncertain, and so does a group that was not seen absent. A task that
\* never made the lock says closed in its journal all the same.
Join(h) ==
  /\ \/ StopAt(h, "joining") /\ handle[h].drained /\ handle[h].exited /\ handle[h].absent
     \/ /\ StopAt(h, "waiting") /\ handle[h].prep = "failed"
        /\ ~handle[h].spawned /\ ~handle[h].attempted
  /\ ~handle[h].broken
  /\ handle[h].owned => lock = h
  /\ LET nothing == ~handle[h].owned /\ ~handle[h].unsynced IN
     /\ handle' = [handle EXCEPT
          ![h].stop = IF handle[h].owned THEN "removing"
                      ELSE IF handle[h].unsynced THEN "syncing" ELSE "closed",
          ![h].released = @ \/ nothing]
     /\ journal' = IF nothing /\ h \in Tasks /\ journal[h] # "none"
                   THEN [journal EXCEPT ![h] = "closed"] ELSE journal
  /\ UNCHANGED <<lock, scratch, child, reused, strangers>>

RemoveFiles(h) ==
  /\ StopAt(h, "removing")
  /\ scratch' = scratch \ {h}
  /\ handle' = [handle EXCEPT ![h].stop = "recording"]
  /\ UNCHANGED <<lock, journal, child, reused, strangers>>

\* The proof is durable before the lock disappears.
RecordRelease(h) ==
  /\ StopAt(h, "recording")
  /\ journal' = [journal EXCEPT ![h] = IF h \in Tasks THEN "release-pending" ELSE "closed"]
  /\ handle' = [handle EXCEPT ![h].stop = "unlinking"]
  /\ UNCHANGED <<lock, scratch, child, reused, strangers>>

\* Sign-in takes the unlink for the release, whether or not it can be synced.
Unlink(h) ==
  /\ StopAt(h, "unlinking")
  /\ lock' = Nobody
  /\ handle' = [handle EXCEPT ![h].owned = FALSE,
                  ![h].unsynced = h \in Tasks, ![h].released = h \notin Tasks,
                  ![h].stop = IF h \in Tasks THEN "syncing" ELSE "closed"]
  /\ UNCHANGED <<journal, scratch, child, reused, strangers>>

\* A task waits for the directory and records the end. A retry after the unlink
\* comes back here alone: the lock may be another's by now.
SyncRelease(h) ==
  /\ StopAt(h, "syncing")
  /\ journal' = [journal EXCEPT ![h] = "closed"]
  /\ handle' = [handle EXCEPT ![h].unsynced = FALSE, ![h].released = TRUE,
                  ![h].stop = "closed"]
  /\ UNCHANGED <<lock, scratch, child, reused, strangers>>

\* Mutant: the wait for the end of the streams has no deadline.
StopFailsLater(h) ==
  /\ handle[h].up /\ handle[h].stop \in {"removing", "recording", "unlinking", "syncing"}
  /\ handle' = [handle EXCEPT ![h].stop = "none"]
  /\ UNCHANGED <<lock, journal, scratch, child, reused, strangers>>

\* A check, a deadline, a file operation or the journal fails; the failure is
\* recorded, if the journal still can.
StopFails(h) ==
  /\ handle[h].up /\ handle[h].stop \notin {"none", "closed", "killing", "probing"}
  /\ \E broke \in BOOLEAN :
       /\ broke => journal[h] # "none"
       /\ handle' = [handle EXCEPT ![h].stop = "none", ![h].broken = @ \/ broke]
       /\ journal' = IF journal[h] = "none" \/ handle'[h].broken THEN journal
                     ELSE [journal EXCEPT ![h] = "recovery-required"]
  /\ UNCHANGED <<lock, scratch, child, reused, strangers>>
-----------------------------------------------------------------------------
Prepare(h) == Inspect(h) \/ TakeLock(h) \/ RecordLock(h) \/ MakeScratch(h)
              \/ PrepareFails(h) \/ LaunchChild(h) \/ LaunchFails(h)
StopStep(h) == Terminate(h) \/ Kill(h) \/ Probe(h) \/ Join(h) \/ RemoveFiles(h)
               \/ RecordRelease(h) \/ Unlink(h) \/ SyncRelease(h) \/ StopFails(h)
ChildStep(h) == RootExits(h) \/ OrphansExit(h) \/ GroupReused(h)

ProcessNext ==
  \E h \in Handles : Prepare(h) \/ LaunchCutShort(h) \/ ChildStep(h) \/ Drained(h)
                     \/ StopHandle(h) \/ StopStep(h) \/ HostDies(h)

\* Every wait of a stop has a deadline.
ProcessFairness == \A h \in Handles : WF_processVars(StopStep(h))
ProcessSpec == ProcessInit /\ [][ProcessNext]_processVars /\ ProcessFairness
-----------------------------------------------------------------------------
(* Properties.                                                             *)

ProcessTypeOK ==
  /\ handle \in [Handles ->
       [up : BOOLEAN, closing : BOOLEAN, attempted : BOOLEAN, spawned : BOOLEAN,
        group : BOOLEAN, exited : BOOLEAN, absent : BOOLEAN, drained : BOOLEAN,
        owned : BOOLEAN, broken : BOOLEAN, unsynced : BOOLEAN, released : BOOLEAN,
        had : BOOLEAN, prep : {"new", "inspected", "locked", "recorded", "ready", "failed", "done"},
        stop : Stops, stops : Nat]]
  /\ lock \in Handles \cup {Nobody}
  /\ journal \in [Handles -> Phases]
  /\ scratch \subseteq Handles
  /\ child \in [Handles -> Groups]
  /\ reused \subseteq Handles /\ strangers \in BOOLEAN

\* A process group of the account lives only under its own lock file, with a
\* durable record of the launch and the directories it runs in, whoever died:
\* so no second owner can start another one, and a recovery finds the first.
\* And no signal reaches a group whose number was given to another program.
ProcessCustody ==
  /\ \A h \in Handles : Alive(h) =>
       /\ lock = h /\ h \in scratch
       /\ journal[h] \in {"launch-pending", "running", "recovery-required"}
  /\ ~strangers

\* A receipt that says closed means it: no process, no files, and a lock file
\* that is gone or belongs to somebody else.
ClosedMeansGone ==
  \A h \in Handles : handle[h].stop = "closed" =>
    ~Alive(h) /\ h \notin scratch /\ lock # h /\ handle[h].released

\* What the stores promise of an account, its lock file promises too: one handle
\* at a time has it, once, a process group of the account lives only under it,
\* and it is removed only when that group is gone (codex-account-process.ts,
\* codex-managed-process.ts: the lock and stopAndJoin).
Locking == INSTANCE AccountCustody WITH
  Accounts <- {"account"},
  Runs     <- Handles,
  NoRun    <- Nobody,
  holder   <- [a \in {"account"} |-> lock],
  live     <- {h \in Handles : Alive(h)},
  used     <- {h \in Handles : handle[h].had}
LockCustody == Locking!CustodySpec

\* Every stop comes to an answer, while its host lives.
StopsAnswer ==
  \A h \in Handles :
    (handle[h].stop \notin {"none", "closed"}) ~>
      (handle[h].stop \in {"none", "closed"} \/ ~handle[h].up)
=============================================================================
