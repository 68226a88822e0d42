-------------------------- MODULE OfflineDiagnostic --------------------------
(* The offline lifecycle diagnostic (src/src/codex-managed-process.ts:         *)
(* runCodexManagedOfflineDiagnostic): on a fresh account with real leases it   *)
(* starts and joins a sign-in process, then a task process driven by a fixed   *)
(* protocol, and gives each lease back only for a process it joined.  Every    *)
(* await may fail, the journal may fail, the caller may abort, a process may   *)
(* survive its stop or exit by itself, and the host may die.  What the two     *)
(* stops prove is AccountProcess.                                              *)
VARIABLES
    diag,       \* the call: its step, its lease, and what it has seen joined
    held,       \* the row of the lease table: the lease that holds it, or "none"
    owned       \* the process group of each of the two processes

offlineVars == <<diag, held, owned>>

Processes == {"bootstrap", "core"}
Joined(p) == IF p = "core" THEN diag.processJoined ELSE diag.bootstrapJoined
OfflineInit ==
    /\ diag = [at |-> "begin", aborted |-> FALSE, failed |-> FALSE, journal |-> TRUE,
               lease |-> "none", made |-> {}, bootstrapJoined |-> FALSE,
               processJoined |-> FALSE, protocol |-> "none", configured |-> FALSE,
               retained |-> FALSE, passed |-> FALSE]
    /\ held = "none"
    /\ owned = [p \in Processes |-> "none"]

OfflineAt(step) == diag.at = step
Goes(step) == [diag EXCEPT !.at = step]
Broken == [diag EXCEPT !.at = "cleanup", !.failed = TRUE]
JournalFails(d) == [d EXCEPT !.journal = FALSE, !.failed = TRUE]
OnlyDiag == UNCHANGED <<held, owned>>

\* Directories, an empty database and journal: what fails here leaves nothing.
OpenDiagnostic ==
    /\ OfflineAt("begin")
    /\ diag' \in {Goes("refused"), [diag EXCEPT !.at = "prepared", !.retained = TRUE]}
    /\ OnlyDiag

\* persist("prepared"), active, and the first lease with the process it is for,
\* which may not be made after all.
AcquireBootstrap ==
    /\ OfflineAt("prepared")
    /\ \/ diag' \in {Broken, JournalFails(Broken)} /\ OnlyDiag
       \/ /\ ~diag.aborted
          /\ diag' \in {[Broken EXCEPT !.lease = "bootstrap"],
                        [diag EXCEPT !.at = "ready", !.lease = "bootstrap", !.made = {"bootstrap"}]}
          /\ held' = "bootstrap" /\ UNCHANGED owned

\* A process the host made starts, however late, until it is joined; it may end
\* by itself.
ProcessStarts(p) ==
    /\ p \in diag.made /\ owned[p] = "none" /\ ~Joined(p) /\ diag.at # "dead"
    /\ owned' = [owned EXCEPT ![p] = "alive"]
    /\ UNCHANGED <<diag, held>>
ProcessEnds(p) ==
    /\ owned[p] = "alive"
    /\ owned' = [owned EXCEPT ![p] = "gone"]
    /\ UNCHANGED <<diag, held>>

AwaitReady ==
    /\ OfflineAt("ready")
    /\ diag' \in {Broken} \cup (IF diag.aborted \/ owned["bootstrap"] = "none" THEN {} ELSE {Goes("join")})
    /\ OnlyDiag

\* joinBootstrap, in the body and again in the finally: proven or not, and it
\* may report a failure of the runtime.
EndOf(p) == [owned EXCEPT ![p] = IF @ = "alive" THEN "gone" ELSE @]
JoinBootstrap(next) ==
    /\ \/ owned' = EndOf("bootstrap") /\ \E e \in BOOLEAN :
            diag' = [diag EXCEPT !.at = next, !.bootstrapJoined = TRUE, !.failed = @ \/ e]
       \/ /\ diag' = [diag EXCEPT !.at = IF next = "joined" THEN "cleanup" ELSE next, !.failed = TRUE]
          /\ UNCHANGED owned
    /\ UNCHANGED held
JoinFirst == OfflineAt("join") /\ JoinBootstrap("joined")

\* persist("bootstrap-joined"), the release of the first lease.
ReleaseBootstrap ==
    /\ OfflineAt("joined")
    /\ \/ diag' \in {Broken, JournalFails(Broken)} /\ OnlyDiag
       \/ /\ ~diag.failed
          /\ diag' = [diag EXCEPT !.at = "between", !.lease = "none"]
          /\ held' = "none" /\ UNCHANGED owned

\* The configuration and the missing auth.json are checked; then the second
\* lease, persist("diagnostic-admitted"), and createOwnedCore, which may throw.
AcquireCore ==
    /\ OfflineAt("between")
    /\ \/ diag' = Broken /\ OnlyDiag
       \/ /\ ~diag.aborted
          /\ held' = "core" /\ UNCHANGED owned
          /\ diag' \in {[Broken EXCEPT !.lease = "core"], JournalFails([Broken EXCEPT !.lease = "core"]),
                        [diag EXCEPT !.at = "result", !.lease = "core", !.made = @ \cup {"core"}, !.protocol = "running"]}

\* protocol.result, then the configuration is checked again.  A core whose
\* protocol cannot be made is a core without one.
AwaitResult ==
    /\ OfflineAt("result")
    /\ \/ owned["core"] # "none" /\ ~diag.aborted /\ diag' = [Goes("cleanup") EXCEPT !.configured = TRUE]
       \/ diag' \in {Broken, [Broken EXCEPT !.configured = TRUE], [Broken EXCEPT !.protocol = "none"]}
    /\ OnlyDiag

\* The finally: the core is stopped and its record written, or the sign-in
\* process is joined once more.
StopOwned ==
    /\ OfflineAt("cleanup")
    /\ IF "core" \in diag.made
       THEN /\ UNCHANGED held
            /\ \/ /\ owned' = EndOf("core")
                  /\ \E e \in BOOLEAN : LET d == [Goes("protocol") EXCEPT !.processJoined = TRUE, !.failed = @ \/ e] IN
                       diag' \in {d, JournalFails(d)}
               \/ diag' = [Goes("protocol") EXCEPT !.failed = TRUE] /\ UNCHANGED owned
       ELSE IF "bootstrap" \in diag.made THEN JoinBootstrap("protocol")
       ELSE diag' = Goes("protocol") /\ OnlyDiag

JoinProtocol ==
    /\ OfflineAt("protocol")
    /\ diag' \in IF diag.protocol = "none" THEN {Goes("release")}
                 ELSE {[Goes("release") EXCEPT !.protocol = "joined", !.failed = @ \/ f] : f \in BOOLEAN}
                      \cup {[Goes("release") EXCEPT !.protocol = "unjoined", !.failed = TRUE]}
    /\ OnlyDiag

\* The lease goes back only for joined processes and an unbroken journal.
ReleasesJoined == diag.lease # "none" /\ diag.journal /\ (diag.bootstrapJoined \/ diag.processJoined)
ReleasesLease ==
    /\ diag.lease # "none" /\ diag.journal
    /\ IF "core" \in diag.made THEN diag.processJoined /\ diag.protocol = "joined"
       ELSE diag.bootstrapJoined
ReleaseLease ==
    /\ OfflineAt("release")
    /\ IF ReleasesLease
       THEN \/ diag' \in {JournalFails(Goes("finish")), [Goes("finish") EXCEPT !.failed = TRUE]} /\ OnlyDiag
            \/ diag' = [Goes("finish") EXCEPT !.lease = "none"] /\ held' = "none" /\ UNCHANGED owned
       ELSE diag' = Goes("finish") /\ OnlyDiag

\* The receipt, its record, and the store is closed when nothing is left open.
LeaseReleased == diag.lease = "none" /\ held = "none"
Passed == ~diag.failed /\ diag.bootstrapJoined /\ diag.processJoined /\ LeaseReleased /\ diag.configured
NothingOpen == /\ LeaseReleased
               /\ "bootstrap" \in diag.made => diag.bootstrapJoined
               /\ "core" \in diag.made => diag.processJoined
               /\ diag.protocol \in {"none", "joined"}
FinishDiagnostic ==
    /\ OfflineAt("finish")
    /\ LET d == IF NothingOpen THEN [diag EXCEPT !.retained = FALSE] ELSE diag IN
       diag' \in {[d EXCEPT !.at = "returned", !.passed = Passed], [diag EXCEPT !.at = "thrown"],
                  [d EXCEPT !.at = "thrown"], [JournalFails(d) EXCEPT !.at = "thrown"]}
    /\ OnlyDiag

\* The caller's signal or the deadline; the death of the host.
DiagnosticOver == {"refused", "returned", "thrown", "dead"}
AbortDiagnostic ==
    /\ ~diag.aborted /\ diag.at \notin DiagnosticOver
    /\ diag' = [diag EXCEPT !.aborted = TRUE]
    /\ OnlyDiag
DiagnosticDies ==
    /\ diag.at \notin DiagnosticOver
    /\ diag' = Goes("dead")
    /\ OnlyDiag

OfflineNext ==
    \/ OpenDiagnostic \/ AcquireBootstrap \/ AwaitReady \/ JoinFirst \/ ReleaseBootstrap
    \/ AcquireCore \/ AwaitResult \/ StopOwned \/ JoinProtocol \/ ReleaseLease \/ FinishDiagnostic
    \/ AbortDiagnostic \/ DiagnosticDies
    \/ \E p \in Processes : ProcessStarts(p) \/ ProcessEnds(p)

OfflineSpec == OfflineInit /\ [][OfflineNext]_offlineVars

\* Whatever fails on the way, a process of the diagnostic lives only under the
\* lease that was taken for it, with the diagnostic's stores still open unless
\* its host died; and a receipt that says passed, as one whose stores were
\* closed, leaves no process and no lease (codex-managed-process.ts:
\* runCodexManagedOfflineDiagnostic).
DiagnosticKeepsCustody ==
    /\ \A p \in Processes : owned[p] = "alive" => held = p /\ diag.retained
    /\ diag.passed \/ (diag.at \in {"returned", "thrown"} /\ ~diag.retained) =>
         held = "none" /\ \A p \in Processes : owned[p] # "alive"
=============================================================================
