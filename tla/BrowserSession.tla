--------------------------- MODULE BrowserSession ---------------------------
(* The browser of one provider account (src/src/browser-session.ts): its      *)
(* profile directory, the launch lock in it, the sessions that want it, and   *)
(* the recovery and the purge that may remove what a dead host left.  A       *)
(* session is one createBrowserSession of one host process.                   *)
EXTENDS Naturals, FiniteSets

CONSTANTS
    Sessions,       \* launches of the account's browser
    Recoverers,     \* calls of recoverBrowserSession and purgeBrowserSession
    Unlocked        \* no lock.json

ASSUME BrowserAssumption == Unlocked \notin Sessions

VARIABLES
    lockFile,   \* whose binding lock.json holds
    phase,      \* where each session stands
    browser,    \* its process group: "none", "alive", "gone"
    signals,    \* what close has sent: 0 nothing, 1 SIGTERM, 2 SIGKILL
    journal,    \* FALSE once a line of the custody journal could not be written
    recovery,   \* where each recoverer stands
    saw,        \* the lock each recoverer read
    robbed      \* sessions at work whose lock another call removed

browserVars == <<lockFile, phase, browser, signals, journal, recovery, saw, robbed>>

BrowserInit ==
    /\ lockFile = Unlocked
    /\ phase = [s \in Sessions |-> "none"]
    /\ browser = [s \in Sessions |-> "none"]
    /\ signals = [s \in Sessions |-> 0]
    /\ journal = [s \in Sessions |-> TRUE]
    /\ recovery = [r \in Recoverers |-> "none"]
    /\ saw = [r \in Recoverers |-> Unlocked]
    /\ robbed = {}

Phase(s, p) == phase' = [phase EXCEPT ![s] = p]

\* preparation: an existing lock is a recovery requirement, never a takeover.
LookForLock(s) ==
    /\ phase[s] = "none"
    /\ Phase(s, IF lockFile = Unlocked THEN "checked" ELSE "refused")
    /\ UNCHANGED <<lockFile, browser, signals, journal, recovery, saw, robbed>>

\* The lock is created exclusively, after the look and before the profile.
NoLockNow == lockFile = Unlocked

TakeLock(s) ==
    /\ phase[s] = "checked"
    /\ IF NoLockNow THEN lockFile' = s /\ Phase(s, "preparing")
                    ELSE UNCHANGED lockFile /\ Phase(s, "refused")
    /\ UNCHANGED <<browser, signals, journal, recovery, saw, robbed>>

\* launch-pending is durable before the spawn; the spawn may fail, and what
\* follows it (pid, group, journal) may fail with the browser running.
SpawnBrowser(s) ==
    /\ phase[s] = "preparing"
    /\ \E b \in {"alive", "gone"}, p \in {"running", "close"} :
        /\ browser' = [browser EXCEPT ![s] = b]
        /\ Phase(s, p)
    /\ UNCHANGED <<lockFile, signals, journal, recovery, saw, robbed>>

\* The caller, a bound of the output, the session deadline or the end of the
\* startup asks to close; before the launch that cancels the preparation.
BeginClose(s) ==
    /\ phase[s] \in {"preparing", "running", "recovery-required"}
    /\ Phase(s, "close")
    /\ signals' = [signals EXCEPT ![s] = 0]
    /\ UNCHANGED <<lockFile, browser, journal, recovery, saw, robbed>>

\* SIGTERM, a grace, SIGKILL: each may end the group, and neither has to.
SignalBrowser(s) ==
    /\ phase[s] = "close" /\ browser[s] = "alive" /\ signals[s] < 2
    /\ signals' = [signals EXCEPT ![s] = @ + 1]
    /\ \E b \in {"alive", "gone"} : browser' = [browser EXCEPT ![s] = b]
    /\ UNCHANGED <<lockFile, phase, journal, recovery, saw, robbed>>

BrowserExits(s) ==
    /\ browser[s] = "alive"
    /\ browser' = [browser EXCEPT ![s] = "gone"]
    /\ UNCHANGED <<lockFile, phase, signals, journal, recovery, saw, robbed>>

\* Mutant: SIGKILL is taken for the end of the group.
KillIsProof(s) == browser[s] # "alive" \/ signals[s] = 2

\* The end of close: root, group and streams are proven gone, the lock is read
\* back as this session wrote it, and "closed" is durable before the unlink.
StopProvenFor(s) == browser[s] # "alive"
LockIsMine(s) == lockFile = s

JoinBrowser(s) ==
    /\ phase[s] = "close"
    /\ StopProvenFor(s) \/ signals[s] = 2
    /\ IF StopProvenFor(s) /\ LockIsMine(s) /\ journal[s]
       THEN Phase(s, "durable") ELSE Phase(s, "recovery-required")
    /\ UNCHANGED <<lockFile, browser, signals, journal, recovery, saw, robbed>>

ReleaseBrowserLock(s) ==
    /\ phase[s] = "durable"
    /\ Phase(s, "closed")
    /\ lockFile' = Unlocked
    /\ robbed' = IF lockFile \in Sessions \ {s} THEN robbed \cup {lockFile} ELSE robbed
    /\ UNCHANGED <<browser, signals, journal, recovery, saw>>

JournalFails(s) ==
    /\ phase[s] \in {"preparing", "running", "close"} /\ journal[s]
    /\ journal' = [journal EXCEPT ![s] = FALSE]
    /\ Phase(s, "close")
    /\ UNCHANGED <<lockFile, browser, signals, recovery, saw, robbed>>

\* The host process dies; its browser lives on in a group of its own.
HostDies(s) ==
    /\ phase[s] \notin {"none", "refused", "closed", "dead"}
    /\ Phase(s, "dead")
    /\ UNCHANGED <<lockFile, browser, signals, journal, recovery, saw, robbed>>

\* recoverBrowserSession reads the lock and refuses without one;
\* purgeBrowserSession has nothing to prove without one.
ReadLock(r) ==
    /\ recovery[r] = "none"
    /\ saw' = [saw EXCEPT ![r] = lockFile]
    /\ \/ lockFile # Unlocked /\ recovery' = [recovery EXCEPT ![r] = "read"]
       \/ lockFile = Unlocked /\ recovery' = [recovery EXCEPT ![r] = "proved"]
    /\ UNCHANGED <<lockFile, phase, browser, signals, journal, robbed>>

\* proveStopped: the caller is truthful about the binding it is shown.
HolderStopped(s) == phase[s] \in {"closed", "dead"} /\ browser[s] # "alive"

ProveHolder(r) ==
    /\ recovery[r] = "read"
    /\ recovery' = [recovery EXCEPT ![r] = IF HolderStopped(saw[r]) THEN "proved" ELSE "refused"]
    /\ UNCHANGED <<lockFile, phase, browser, signals, journal, saw, robbed>>

\* Then the lock at the path goes, whosever it is by now.
AtWork(s) == phase[s] \notin {"none", "refused", "closed", "dead"} \/ browser[s] = "alive"

RemoveLock(r) ==
    /\ recovery[r] = "proved"
    /\ recovery' = [recovery EXCEPT ![r] = "done"]
    /\ lockFile' = Unlocked
    /\ robbed' = IF lockFile # Unlocked /\ AtWork(lockFile) THEN robbed \cup {lockFile} ELSE robbed
    /\ UNCHANGED <<phase, browser, signals, journal, saw>>

BrowserNext ==
    \/ \E s \in Sessions :
        \/ LookForLock(s) \/ TakeLock(s) \/ SpawnBrowser(s) \/ BeginClose(s) \/ SignalBrowser(s)
        \/ BrowserExits(s) \/ JoinBrowser(s) \/ ReleaseBrowserLock(s) \/ JournalFails(s) \/ HostDies(s)
    \/ \E r \in Recoverers : ReadLock(r) \/ ProveHolder(r) \/ RemoveLock(r)

BrowserSpec == BrowserInit /\ [][BrowserNext]_browserVars

-----------------------------------------------------------------------------
\* A live browser keeps the lock of its profile, through closes that could not
\* prove a stop and hosts that died, so no two browsers share a profile; only a
\* recovery or a purge that removed a lock it had not proved can break that.
BrowserUnderLock ==
    /\ \A s \in Sessions : browser[s] = "alive" => lockFile = s \/ s \in robbed
    /\ robbed = {} => Cardinality({s \in Sessions : browser[s] = "alive"}) <= 1
    /\ \A s \in Sessions : phase[s] = "closed" => browser[s] # "alive"
=============================================================================
