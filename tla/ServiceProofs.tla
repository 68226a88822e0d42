----------------------------- MODULE ServiceProofs -----------------------------
(***************************************************************************)
(* The services of the host and the release, each for any value of its     *)
(* constants: no socket of the egress bridge outlives the connection it    *)
(* was dialed for, a browser lives under the lock of its profile, the      *)
(* authority of a release was true at one instant, no writer of the        *)
(* workspace loses the update of another one; and, in sections of their    *)
(* own, the Devin adapter, the release workflow, the chat sessions, the    *)
(* private files and the context editor.                                   *)
(***************************************************************************)
EXTENDS EgressTunnel, BrowserSession, ReleaseRefs, CliWorkspace, DevinTask, ReleaseJobs, CliChat, PrivateFile,
        ContextEditor, Integers, SequenceFacts, FiniteSetTheorems, WellFoundedInduction, TLAPS

-----------------------------------------------------------------------------
(* The egress bridge.                                                        *)

Held == {"head", "paused", "tunnel", "ending"}

EgressTypeOK ==
    /\ inbound \in [Conns -> {"none", "closed"} \cup Held]
    /\ upstream \in [Conns -> {"none", "dialing", "open", "closed"}]
    /\ served \subseteq Conns
    /\ accepted \in Nat
    /\ bridge \in {"open", "closing", "closed"}
    /\ receipt \in BOOLEAN
    /\ client \in [Conns -> {"idle", "connect", "request", "whole", "short", "failed"}]
    /\ got \in [Conns -> Nat]

\* A connection is served exactly while its inbound half is open; what was
\* dialed for it is dialed for an admitted host, and answers to a half that
\* waits for it or has closed.
ConnInv(c) ==
    /\ c \in served <=> inbound[c] \in Held
    /\ client[c] = "idle" => inbound[c] = "none" /\ upstream[c] = "none"
    /\ upstream[c] = "dialing" => inbound[c] \in {"paused", "closed"}
    /\ upstream[c] \in {"dialing", "open"} => c \in Admitted
    /\ upstream[c] = "open" => c \in served

\* The limit, and a receipt that is given once nothing is served or accepted.
BridgeInv ==
    /\ Cardinality(served) <= MaxConnections
    /\ receipt => bridge = "closed" /\ served = {}

EgressInv == EgressTypeOK /\ BridgeInv /\ \A c \in Conns : ConnInv(c)

LEMMA ServedFinite ==
  ASSUME EgressTypeOK
  PROVE  /\ IsFiniteSet(served) /\ Cardinality(served) \in Nat
         /\ \A c : IsFiniteSet(served \ {c}) /\ Cardinality(served \ {c}) <= Cardinality(served)
         /\ \A c : IsFiniteSet(served \cup {c}) /\ Cardinality(served \cup {c}) <= Cardinality(served) + 1
<1>1. IsFiniteSet(served)
  BY FS_Subset, EgressAssumption DEF EgressTypeOK
<1>2. Cardinality(served) \in Nat
  BY <1>1, FS_CardinalityType
<1>3. ASSUME NEW c PROVE IsFiniteSet(served \ {c}) /\ Cardinality(served \ {c}) <= Cardinality(served)
  BY <1>1, <1>2, FS_RemoveElement
<1>4. ASSUME NEW c PROVE IsFiniteSet(served \cup {c}) /\ Cardinality(served \cup {c}) <= Cardinality(served) + 1
  BY <1>1, <1>2, FS_AddElement
<1>. QED  BY <1>1, <1>2, <1>3, <1>4

LEMMA InitEgress == EgressInit => EgressInv
<1> SUFFICES ASSUME EgressInit PROVE EgressInv  OBVIOUS
<1>1. EgressTypeOK
  BY DEF EgressInit, EgressTypeOK, Held
<1>2. BridgeInv
  BY FS_EmptySet, EgressAssumption DEF EgressInit, BridgeInv
<1>3. ASSUME NEW c \in Conns PROVE ConnInv(c)
  BY DEF EgressInit, ConnInv, Held
<1>. QED  BY <1>1, <1>2, <1>3 DEF EgressInv

\* What every step does to the sets: it adds a connection when there is room
\* for it, or takes one away, or leaves them.
LEMMA StepEgressTypes ==
  ASSUME EgressInv, EgressNext
  PROVE  EgressTypeOK'
<1> USE DEF EgressInv, EgressTypeOK, Held
<1>1. ASSUME NEW c \in Conns, Accept(c) PROVE EgressTypeOK'  BY <1>1 DEF Accept
<1>2. ASSUME NEW c \in Conns, Handshake(c) PROVE EgressTypeOK'  BY <1>2 DEF Handshake
<1>3. ASSUME NEW c \in Conns, DialOK(c) PROVE EgressTypeOK'  BY <1>3 DEF DialOK
<1>4. ASSUME NEW c \in Conns, DialFailed(c) PROVE EgressTypeOK'  BY <1>4 DEF DialFailed
<1>5. ASSUME NEW c \in Conns, Drop(c) PROVE EgressTypeOK'  BY <1>5 DEF Drop, Settle
<1>6. ASSUME NEW c \in Conns, Connected(c) PROVE EgressTypeOK'  BY <1>6 DEF Connected
<1>7. ASSUME NEW c \in Conns, ReadPart(c) PROVE EgressTypeOK'  BY <1>7 DEF ReadPart
<1>8. ASSUME NEW c \in Conns, Finish(c) PROVE EgressTypeOK'  BY <1>8 DEF Finish
<1>9. ASSUME NEW c \in Conns, GiveUp(c) PROVE EgressTypeOK'  BY <1>9 DEF GiveUp
<1>10. CASE CloseBridge \/ BridgeReceipt  BY <1>10 DEF CloseBridge, BridgeReceipt, Joined
<1>. QED
  BY <1>1, <1>2, <1>3, <1>4, <1>5, <1>6, <1>7, <1>8, <1>9, <1>10 DEF EgressNext

LEMMA StepBridge ==
  ASSUME EgressInv, EgressNext
  PROVE  BridgeInv'
<1>0. EgressTypeOK  BY DEF EgressInv
<1>1. \/ served' = served
      \/ \E c \in Conns : served' = served \ {c}
      \/ \E c \in Conns : served' = served \cup {c} /\ RoomFor(c)
  <2>1. CASE \E c \in Conns : Accept(c) \/ Handshake(c) \/ DialOK(c) \/ DialFailed(c) \/ Drop(c)
    BY <2>1 DEF Accept, Handshake, DialOK, DialFailed, Drop, Settle
  <2>2. CASE \E c \in Conns : Connected(c) \/ ReadPart(c) \/ Finish(c) \/ GiveUp(c)
    BY <2>2 DEF Connected, ReadPart, Finish, GiveUp
  <2>3. CASE CloseBridge \/ BridgeReceipt
    BY <2>3 DEF CloseBridge, BridgeReceipt
  <2>. QED  BY <2>1, <2>2, <2>3 DEF EgressNext
<1>2. Cardinality(served') <= MaxConnections
  <2>1. Cardinality(served) \in Nat /\ Cardinality(served) <= MaxConnections /\ MaxConnections \in Nat
    BY <1>0, ServedFinite, EgressAssumption DEF EgressInv, BridgeInv
  <2>2. ASSUME NEW c \in Conns, served' = served \ {c}
        PROVE  Cardinality(served') <= MaxConnections
    <3>1. /\ Cardinality(served \ {c}) \in Nat
          /\ Cardinality(served \ {c}) <= Cardinality(served)
      BY <1>0, ServedFinite, FS_CardinalityType
    <3>. QED  BY <2>1, <2>2, <3>1
  <2>3. ASSUME NEW c \in Conns, served' = served \cup {c}, RoomFor(c)
        PROVE  Cardinality(served') <= MaxConnections
    <3>1. /\ Cardinality(served \cup {c}) \in Nat
          /\ Cardinality(served \cup {c}) <= Cardinality(served) + 1
      BY <1>0, ServedFinite, FS_CardinalityType
    <3>. QED  BY <2>1, <2>3, <3>1 DEF RoomFor
  <2>. QED  BY <1>1, <2>1, <2>2, <2>3
<1>3. receipt' => bridge' = "closed" /\ served' = {}
  BY <1>0 DEF EgressInv, BridgeInv, EgressNext, Accept, RoomFor, Closing, Handshake, Settle, DialOK,
         DialFailed, Drop, Connected, ReadPart, Finish, GiveUp, CloseBridge, BridgeReceipt, Joined
<1>. QED  BY <1>2, <1>3 DEF BridgeInv

LEMMA StepConns ==
  ASSUME EgressInv, EgressNext, NEW d \in Conns
  PROVE  ConnInv(d)'
<1> USE DEF EgressInv, EgressTypeOK, ConnInv, Held
<1>1. ASSUME NEW c \in Conns, Accept(c) PROVE ConnInv(d)'  BY <1>1 DEF Accept
<1>2. ASSUME NEW c \in Conns, Handshake(c) PROVE ConnInv(d)'  BY <1>2 DEF Handshake, HostAllowed
<1>3. ASSUME NEW c \in Conns, DialOK(c) PROVE ConnInv(d)'  BY <1>3 DEF DialOK, DialWanted
<1>4. ASSUME NEW c \in Conns, DialFailed(c) PROVE ConnInv(d)'  BY <1>4 DEF DialFailed
<1>5. ASSUME NEW c \in Conns, Drop(c) PROVE ConnInv(d)'  BY <1>5 DEF Drop, Settle
<1>6. ASSUME NEW c \in Conns, Connected(c) PROVE ConnInv(d)'  BY <1>6 DEF Connected
<1>7. ASSUME NEW c \in Conns, ReadPart(c) PROVE ConnInv(d)'  BY <1>7 DEF ReadPart
<1>8. ASSUME NEW c \in Conns, Finish(c) PROVE ConnInv(d)'  BY <1>8 DEF Finish
<1>9. ASSUME NEW c \in Conns, GiveUp(c) PROVE ConnInv(d)'  BY <1>9 DEF GiveUp
<1>10. CASE CloseBridge \/ BridgeReceipt  BY <1>10 DEF CloseBridge, BridgeReceipt
<1>. QED
  BY <1>1, <1>2, <1>3, <1>4, <1>5, <1>6, <1>7, <1>8, <1>9, <1>10 DEF EgressNext

\* The types and the invariant hold in every run of the bridge and its clients.
THEOREM EgressInvariant == EgressSpec => []EgressInv
<1>1. EgressInv /\ [EgressNext]_egressVars => EgressInv'
  <2> SUFFICES ASSUME EgressInv, [EgressNext]_egressVars PROVE EgressInv'
    OBVIOUS
  <2>1. CASE EgressNext
    BY <2>1, StepEgressTypes, StepBridge, StepConns DEF EgressInv
  <2>2. CASE UNCHANGED egressVars
    BY <2>2 DEF egressVars, EgressInv, EgressTypeOK, BridgeInv, ConnInv
  <2>. QED  BY <2>1, <2>2
<1>. QED  BY InitEgress, <1>1, PTL DEF EgressSpec

\* A host socket is open only for a served, admitted connection, the limit
\* holds, and a receipt that says joined leaves no socket open, then or later
\* (egress-bridge.ts: startEgressBridge and its close).
THEOREM NoTunnelOutlives == EgressSpec => []NoTunnelOutlivesItsEnd
<1>1. EgressInv => NoTunnelOutlivesItsEnd
  BY DEF EgressInv, BridgeInv, ConnInv, NoTunnelOutlivesItsEnd
<1>. QED  BY EgressInvariant, <1>1, PTL

-----------------------------------------------------------------------------
(* The browser session.                                                      *)

Phases == {"none", "checked", "refused", "preparing", "running", "close", "durable",
           "recovery-required", "closed", "dead"}

BrowserTypeOK ==
    /\ lockFile \in Sessions \cup {Unlocked}
    /\ phase \in [Sessions -> Phases]
    /\ browser \in [Sessions -> {"none", "alive", "gone"}]
    /\ signals \in [Sessions -> 0..2]
    /\ journal \in [Sessions -> BOOLEAN]
    /\ recovery \in [Recoverers -> {"none", "read", "proved", "refused", "done"}]
    /\ saw \in [Recoverers -> Sessions \cup {Unlocked}]
    /\ robbed \subseteq Sessions

\* A session that took the lock has it, and so has one whose browser lives,
\* until it gives it back or somebody else removes it; it gives it back, and is
\* closed, only without a browser.
LockInv(s) ==
    /\ AtWork(s) => phase[s] = "checked" \/ lockFile = s \/ s \in robbed
    /\ phase[s] \in {"none", "checked", "refused", "durable", "closed"} => browser[s] # "alive"

BrowserInv == BrowserTypeOK /\ \A s \in Sessions : LockInv(s)

LEMMA InitBrowser == BrowserInit => BrowserInv
BY DEF BrowserInit, BrowserInv, BrowserTypeOK, Phases, LockInv, AtWork

\* A step of one session leaves the phase and the browser of the others alone,
\* and the lock unless it is free, its own, or given away with a note of it.
LEMMA BrowserStep == BrowserInv /\ BrowserNext => BrowserInv'
<1> SUFFICES ASSUME BrowserInv, BrowserNext PROVE BrowserInv'
  OBVIOUS
<1> USE DEF BrowserInv, BrowserTypeOK, Phases, LockInv, AtWork, Phase
<1> USE BrowserAssumption
<1>1. ASSUME NEW s \in Sessions, LookForLock(s) PROVE BrowserInv'
  BY <1>1 DEF LookForLock
<1>2. ASSUME NEW s \in Sessions, TakeLock(s) PROVE BrowserInv'
  BY <1>2 DEF TakeLock, NoLockNow
<1>3. ASSUME NEW s \in Sessions, SpawnBrowser(s) PROVE BrowserInv'
  BY <1>3 DEF SpawnBrowser
<1>4. ASSUME NEW s \in Sessions, BeginClose(s) PROVE BrowserInv'
  BY <1>4 DEF BeginClose
<1>5. ASSUME NEW s \in Sessions, SignalBrowser(s) PROVE BrowserInv'
  BY <1>5 DEF SignalBrowser
<1>6. ASSUME NEW s \in Sessions, BrowserExits(s) PROVE BrowserInv'
  BY <1>6 DEF BrowserExits
<1>7. ASSUME NEW s \in Sessions, JoinBrowser(s) PROVE BrowserInv'
  BY <1>7 DEF JoinBrowser, StopProvenFor, LockIsMine
<1>8. ASSUME NEW s \in Sessions, ReleaseBrowserLock(s) PROVE BrowserInv'
  BY <1>8 DEF ReleaseBrowserLock
<1>9. ASSUME NEW s \in Sessions, JournalFails(s) PROVE BrowserInv'
  BY <1>9 DEF JournalFails
<1>10. ASSUME NEW s \in Sessions, HostDies(s) PROVE BrowserInv'
  BY <1>10 DEF HostDies
<1>11. ASSUME NEW r \in Recoverers, ReadLock(r) PROVE BrowserInv'
  BY <1>11 DEF ReadLock
<1>12. ASSUME NEW r \in Recoverers, ProveHolder(r) PROVE BrowserInv'
  BY <1>12 DEF ProveHolder
<1>13. ASSUME NEW r \in Recoverers, RemoveLock(r) PROVE BrowserInv'
  BY <1>13 DEF RemoveLock
<1>. QED
  BY <1>1, <1>2, <1>3, <1>4, <1>5, <1>6, <1>7, <1>8, <1>9, <1>10, <1>11, <1>12, <1>13 DEF BrowserNext

\* The types and the invariant hold in every run.
THEOREM BrowserInvariant == BrowserSpec => []BrowserInv
<1>1. BrowserInv /\ [BrowserNext]_browserVars => BrowserInv'
  <2>1. BrowserInv /\ UNCHANGED browserVars => BrowserInv'
    BY DEF browserVars, BrowserInv, BrowserTypeOK, LockInv, AtWork
  <2>. QED  BY <2>1, BrowserStep
<1>. QED  BY InitBrowser, <1>1, PTL DEF BrowserSpec

\* A live browser keeps the lock of its profile, unless another call removed
\* it; while none did, at most one browser lives; and a closed session has none
\* (browser-session.ts: createBrowserSession, recoverBrowserSession,
\* purgeBrowserSession).
THEOREM LocksHold == BrowserSpec => []BrowserUnderLock
<1>1. BrowserInv => BrowserUnderLock
  <2> SUFFICES ASSUME BrowserInv PROVE BrowserUnderLock
    OBVIOUS
  <2> DEFINE alive == {s \in Sessions : browser[s] = "alive"}
  <2>1. \A s \in Sessions : browser[s] = "alive" => lockFile = s \/ s \in robbed
    BY DEF BrowserInv, LockInv, AtWork
  <2>2. \A s \in Sessions : phase[s] = "closed" => browser[s] # "alive"
    BY DEF BrowserInv, LockInv
  <2>3. ASSUME robbed = {} PROVE Cardinality(alive) <= 1
    <3>1. alive \subseteq {lockFile}
      BY <2>1, <2>3
    <3>2. IsFiniteSet({lockFile}) /\ Cardinality({lockFile}) = 1
      BY FS_Singleton
    <3>3. Cardinality(alive) <= Cardinality({lockFile})
      BY <3>1, <3>2, FS_Subset
    <3>. QED  BY <3>2, <3>3
  <2>. QED  BY <2>1, <2>2, <2>3 DEF BrowserUnderLock
<1>. QED  BY BrowserInvariant, <1>1, PTL
-----------------------------------------------------------------------------
(* The authority of a release.                                               *)

Tags == TagObjects \cup {NoTag}
Reading == {"main", "tags", "fetch", "verify", "main2", "tags2", "authority", "refused"}

RefTypeOK ==
    /\ remote \in [main : Nat, tags : [Versions -> Tags]]
    /\ job \in [at : Reading, mode : {"release", "promotion"}, head : Nat, main : Nat,
                tags : [Versions -> Tags], imported : Nat, tag : Tags]

\* s is a state of the remote that had the tags which the job read, and a main
\* between the one it read before them and the one that is there now.
Witnesses(s) ==
    /\ s.main \in Nat /\ job.main <= s.main /\ s.main <= remote.main
    /\ s.tags = job.tags /\ Newest(s.tags)
    /\ job.at \in {"tags2", "authority"} => s.main = job.main

\* The state in which the tags were read first is still a witness when main is
\* read again: main moves forward only, so between two equal readings it stood.
RefInv ==
    /\ RefTypeOK
    /\ remote \in seen
    /\ job.at = "tags" => job.main <= remote.main
    /\ job.at \in {"fetch", "verify", "main2", "tags2", "authority"} => \E s \in seen : Witnesses(s)
    /\ job.at \in {"main2", "tags2", "authority"} =>
         /\ job.imported = job.main
         /\ job.tag = job.tags[Requested]
         /\ job.tag.kind = "tag" /\ job.tag.c \in 1..job.imported

LEMMA InitRefs == RefInit => RefInv
<1> SUFFICES ASSUME RefInit PROVE RefInv  OBVIOUS
<1>1. PICK t \in TagObjects \ {NoTag}, others \in BOOLEAN :
        remote = [main |-> 1, tags |-> [v \in Versions |->
          IF v = Requested THEN t ELSE IF others /\ v < Requested THEN [c |-> 1, kind |-> "tag"] ELSE NoTag]]
  BY DEF RefInit
<1>2. remote \in [main : Nat, tags : [Versions -> Tags]]
  BY <1>1, ReleaseRefsBounds DEF Tags, TagObjects
<1>3. remote.tags[Requested] \in TagObjects
  BY <1>1, ReleaseRefsBounds DEF Versions
<1>4. job \in [at : {"main"}, mode : {"release", "promotion"}, head : Nat, main : Nat,
             tags : [Versions -> Tags], imported : Nat, tag : Tags]
  BY <1>2, <1>3, ReleaseRefsBounds DEF RefInit, Tags, TagObjects
<1>. QED  BY <1>2, <1>4 DEF RefInit, RefInv, RefTypeOK, Reading

\* A step of the job changes nothing outside it.
LEMMA JobStep ==
  ASSUME RefInv, \/ ReadMain \/ ReadTags \/ Fetch \/ Verify \/ RereadMain \/ RereadTags
  PROVE  RefInv'
<1> USE DEF RefInv, RefTypeOK, Reading, Witnesses, Goes, Refuse
<1>1. CASE ReadMain
  <2>1. job' = [job EXCEPT !.at = "tags", !.main = remote.main] /\ UNCHANGED <<remote, seen>>
    BY <1>1 DEF ReadMain
  <2>2. RefTypeOK' /\ job'.at = "tags" /\ job'.main = remote.main
    BY <2>1
  <2>3. remote'.main = remote.main /\ remote.main \in Nat /\ remote' \in seen'
    BY <2>1
  <2>4. job'.main <= remote'.main
    BY <2>2, <2>3
  <2>. QED  BY <2>2, <2>3, <2>4
<1>2. CASE ReadTags
  <2>1. CASE Newest(remote.tags)
    <3>1. /\ job.at = "tags" /\ UNCHANGED <<remote, seen>>
          /\ job' = [job EXCEPT !.at = "fetch", !.tags = remote.tags]
      BY <1>2, <2>1 DEF ReadTags
    <3>2. RefTypeOK' /\ job'.at = "fetch"
      BY <3>1
    <3>3. Witnesses(remote)'
      BY <3>1, <2>1 DEF Newest
    <3>. QED  BY <3>1, <3>2, <3>3
  <2>2. CASE ~Newest(remote.tags)
    BY <1>2, <2>2 DEF ReadTags
  <2>. QED  BY <2>1, <2>2
<1>3. CASE Fetch
  <2>1. CASE job'.at = "refused"
    BY <1>3, <2>1 DEF Fetch
  <2>2. CASE job'.at # "refused"
    <3>1. /\ job.at = "fetch" /\ UNCHANGED <<remote, seen>>
          /\ job' = [job EXCEPT !.at = "verify", !.imported = remote.main, !.tag = remote.tags[Requested]]
      BY <1>3, <2>2 DEF Fetch
    <3>2. Requested \in Versions
      BY ReleaseRefsBounds DEF Versions
    <3>3. RefTypeOK' /\ job'.at = "verify" /\ job'.main = job.main /\ job'.tags = job.tags
      BY <3>1, <3>2
    <3>4. ASSUME NEW s, Witnesses(s) PROVE Witnesses(s)'
      BY <3>1, <3>3, <3>4 DEF Newest
    <3>. QED  BY <3>1, <3>3, <3>4
  <2>. QED  BY <2>1, <2>2
<1>4. CASE Verify
  BY <1>4 DEF Verify, ImportOK, Newest
<1>5. CASE RereadMain
  BY <1>5 DEF RereadMain, Newest
<1>6. CASE RereadTags
  BY <1>6 DEF RereadTags, Newest
<1>. QED  BY <1>1, <1>2, <1>3, <1>4, <1>5, <1>6

\* What others do moves main forward and adds to what was seen.
LEMMA OthersStep ==
  ASSUME RefInv, PushMain \/ ChangeTag
  PROVE  RefInv'
<1>1. /\ UNCHANGED job /\ seen \subseteq seen' /\ remote' \in seen'
      /\ remote' \in [main : Nat, tags : [Versions -> Tags]]
      /\ remote.main <= remote'.main
  BY DEF RefInv, RefTypeOK, PushMain, ChangeTag, Tags
<1>2. ASSUME NEW s, Witnesses(s) PROVE Witnesses(s)'
  BY <1>1, <1>2 DEF RefInv, RefTypeOK, Witnesses, Newest
<1>. QED  BY <1>1, <1>2 DEF RefInv, RefTypeOK

THEOREM RefInvariant == RefSpec => []RefInv
<1>1. RefInv /\ [RefNext]_refVars => RefInv'
  <2>1. RefInv /\ UNCHANGED refVars => RefInv'
    BY DEF refVars, RefInv, RefTypeOK, Witnesses, Newest
  <2>. QED  BY <2>1, JobStep, OthersStep DEF RefNext
<1>. QED  BY InitRefs, <1>1, PTL DEF RefSpec

\* The main and the tags that a release is allowed to act on were the remote's at
\* one instant, for any history of pushes and any number of moved tags
\* (scripts/release-ref-authority.ts: verifyReleaseRefAuthority).
THEOREM AuthorityWasTrue == RefSpec => []AuthorityHeld
<1>1. RefInv => AuthorityHeld
  BY DEF RefInv, RefTypeOK, Witnesses, AuthorityHeld
<1>. QED  BY RefInvariant, <1>1, PTL

-----------------------------------------------------------------------------
(* The writers of the workspace port.                                       *)

Window == {"locked", "staged", "checked", "linked", "placed"}
Stands == {"idle", "read", "queued", "done", "failed", "dead"} \cup Window

\* The types of what the proof is about.
WriterTypes ==
    /\ pc \in [Writers -> Stands]
    /\ file \in Nat /\ made \in Nat /\ foreign \subseteq Nat
    /\ wants \in [Writers -> Nat]
    /\ replaced \in [Writers -> SUBSET Nat]
    /\ temps \subseteq Writers

\* The lock is one writer's from its BEGIN to its end; between its checks and
\* its rename the file is the one it read or what an editor outside left; a
\* writer replaces once, and never reads a revision again.
WriterInv(w) ==
    /\ pc[w] \in Window => sqlite = w
    /\ pc[w] \in {"staged", "checked"} => file = wants[w] \/ file \in foreign
    /\ pc[w] \notin {"linked", "placed", "done", "failed", "dead"} => replaced[w] = {}
    /\ \A v \in replaced[w] : v # wants[w] => v \in foreign
    /\ w \in temps => pc[w] \in {"staged", "checked", "linked", "dead"}

WorkspaceInv == WriterTypes /\ \A w \in Writers : WriterInv(w)

LEMMA InitWorkspace == CliWorkspaceInit => WorkspaceInv
BY DEF CliWorkspaceInit, Absent, WorkspaceInv, WriterTypes, WriterInv, Window, Stands

\* One step: the lock, which one writer has, is what keeps the file still for
\* its window; an editor outside is not kept out, but what it leaves is foreign.
LEMMA WorkspaceStep == WorkspaceInv /\ CliWorkspaceNext => WorkspaceInv'
<1> SUFFICES ASSUME WorkspaceInv, CliWorkspaceNext PROVE WorkspaceInv'
  OBVIOUS
<1> USE DEF WorkspaceInv, WriterTypes, WriterInv, Window, Stands, Goto, targetVars
<1>1. ASSUME NEW w \in Writers, ReadRevision(w) PROVE WorkspaceInv'
  BY <1>1 DEF ReadRevision
<1>2. ASSUME NEW w \in Writers, TakeTicket(w) PROVE WorkspaceInv'
  BY <1>2 DEF TakeTicket
<1>3. ASSUME NEW w \in Writers, BeginImmediate(w) PROVE WorkspaceInv'
  BY <1>3, WorkspaceAssumption DEF BeginImmediate, LockFree
<1>4. ASSUME NEW w \in Writers, WriterBusy(w) PROVE WorkspaceInv'
  BY <1>4 DEF WriterBusy, Leave
<1>5. ASSUME NEW w \in Writers, Stage(w) PROVE WorkspaceInv'
  BY <1>5 DEF Stage, CheckOK, Leave
<1>6. ASSUME NEW w \in Writers, CheckAgain(w) PROVE WorkspaceInv'
  BY <1>6 DEF CheckAgain, CheckOK, Leave
<1>7. ASSUME NEW w \in Writers, Link(w) PROVE WorkspaceInv'
  <2>1. CASE LinkOK
    BY <1>7, <2>1 DEF Link
  <2>2. CASE ~LinkOK
    <3>1. /\ UNCHANGED <<file, made, foreign, wants, replaced>> /\ temps' = temps \ {w}
          /\ pc[w] = "checked" /\ pc' = [pc EXCEPT ![w] = "failed"]
          /\ sqlite' = IF sqlite = w THEN Free ELSE sqlite
      BY <1>7, <2>2 DEF Link, Leave
    <3>. QED  BY <3>1
  <2>. QED  BY <2>1, <2>2
<1>8. ASSUME NEW w \in Writers, Unlink(w) PROVE WorkspaceInv'
  BY <1>8 DEF Unlink
<1>9. ASSUME NEW w \in Writers, Rename(w) PROVE WorkspaceInv'
  <2>1. /\ UNCHANGED <<foreign, wants, sqlite>> /\ temps' = temps \ {w}
        /\ pc[w] = "checked" /\ pc' = [pc EXCEPT ![w] = "placed"]
        /\ replaced' = [replaced EXCEPT ![w] = {file}]
        /\ made' = made + 1 /\ file' = made + 1
    BY <1>9 DEF Rename
  <2>2. WriterTypes'
    BY <2>1
  <2>3. ASSUME NEW v \in Writers PROVE WriterInv(v)'
    BY <2>1
  <2>. QED  BY <2>2, <2>3
<1>10. ASSUME NEW w \in Writers, Answer(w) PROVE WorkspaceInv'
  <2>1. /\ UNCHANGED <<file, made, foreign, wants, temps, replaced>>
        /\ pc[w] = "placed" /\ sqlite' = IF sqlite = w THEN Free ELSE sqlite
        /\ \E l \in {"done", "failed"} : pc' = [pc EXCEPT ![w] = l]
    BY <1>10 DEF Answer, Leave
  <2>2. WriterTypes'
    BY <2>1
  <2>3. ASSUME NEW v \in Writers PROVE WriterInv(v)'
    BY <2>1
  <2>. QED  BY <2>2, <2>3
<1>11. ASSUME NEW p \in Processes, Crash(p) PROVE WorkspaceInv'
  BY <1>11 DEF Crash, Ends
<1>12. CASE EditOutside
  <2>1. UNCHANGED <<pc, wants, sqlite, temps, replaced>>
    BY <1>12 DEF EditOutside
  <2>2. /\ made' = made + 1
        /\ \/ file' = made + 1 /\ foreign' = foreign \cup {made + 1}
           \/ file' = 0 /\ foreign' = foreign \cup {0}
    BY <1>12 DEF EditOutside, Absent
  <2>3. made + 1 \in Nat /\ 0 \in Nat /\ foreign \subseteq Nat
    OBVIOUS
  <2>4. /\ made' \in Nat /\ file' \in Nat /\ foreign' \subseteq Nat
         /\ file' \in foreign' /\ foreign \subseteq foreign'
    BY <2>2, <2>3
  <2>5. WriterTypes'
    BY <2>1, <2>4
  <2>6. ASSUME NEW w \in Writers PROVE WriterInv(w)'
    BY <2>1, <2>4
  <2>. QED  BY <2>5, <2>6
<1>. QED
  BY <1>1, <1>2, <1>3, <1>4, <1>5, <1>6, <1>7, <1>8, <1>9, <1>10, <1>11, <1>12
  DEF CliWorkspaceNext, WriterStep

\* The types and the invariant hold in every run.
THEOREM WorkspaceInvariant == CliWorkspaceSpec => []WorkspaceInv
<1>1. WorkspaceInv /\ [CliWorkspaceNext]_workspaceVars => WorkspaceInv'
  <2>1. WorkspaceInv /\ UNCHANGED workspaceVars => WorkspaceInv'
    BY DEF workspaceVars, targetVars, WorkspaceInv, WriterTypes, WriterInv
  <2>. QED  BY <2>1, WorkspaceStep
<1>. QED  BY InitWorkspace, <1>1, PTL DEF CliWorkspaceSpec

\* The writers of a process that have a ticket and have not finished.
Unfinished(p) == {w \in Writers : Home[w] = p /\ pc[w] \in InLine}

\* Each of them is in the chain of its process, and all of them are counted.
CountInv ==
    /\ queue \in [Processes -> Seq(Writers)] /\ count \in [Processes -> Int]
    /\ \A w \in Writers : pc[w] \in InLine =>
         \E i \in 1 .. Len(queue[Home[w]]) : queue[Home[w]][i] = w
    /\ \A p \in Processes : count[p] = Cardinality(Unfinished(p))

LEMMA InitCount == CliWorkspaceInit => CountInv
<1> SUFFICES ASSUME CliWorkspaceInit PROVE CountInv
  OBVIOUS
<1>1. \A p \in Processes : Unfinished(p) = {}
  BY DEF CliWorkspaceInit, Unfinished, InLine
<1>2. \A w \in Writers : pc[w] \notin InLine
  BY DEF CliWorkspaceInit, InLine
<1>3. queue \in [Processes -> Seq(Writers)] /\ count \in [Processes -> Int]
      /\ \A p \in Processes : count[p] = 0
  BY DEF CliWorkspaceInit
<1>. QED  BY <1>1, <1>2, <1>3, FS_EmptySet DEF CountInv

LEMMA UnfinishedFinite == \A p : IsFiniteSet(Unfinished(p))
<1> SUFFICES ASSUME NEW p PROVE IsFiniteSet(Unfinished(p))
  OBVIOUS
<1>1. Unfinished(p) \subseteq Writers
  BY DEF Unfinished
<1>. QED  BY <1>1, WorkspaceAssumption, FS_Subset

\* A step that takes nobody in and lets nobody out.
LEMMA CountStays ==
  ASSUME CountInv, UNCHANGED ticketVars,
         \A w \in Writers : pc'[w] \in InLine <=> pc[w] \in InLine
  PROVE  CountInv'
<1>1. \A p \in Processes : Unfinished(p)' = Unfinished(p)
  BY DEF Unfinished
<1>. QED  BY <1>1 DEF CountInv, ticketVars

LEMMA LeaveCounts ==
  ASSUME CountInv, WriterTypes, NEW w \in Writers, pc[w] \in InLine, NEW l \in {"failed", "done"}, Leave(w, l)
  PROVE  CountInv'
<1> DEFINE p == Home[w]
           open == \A i \in 1 .. Len(queue[p]) : queue[p][i] = w \/ pc[queue[p][i]] \in Ends
<1>1. /\ p \in Processes /\ pc' = [pc EXCEPT ![w] = l] /\ l \notin InLine
      /\ queue' = [queue EXCEPT ![p] = IF open THEN <<>> ELSE @]
      /\ count' = [count EXCEPT ![p] = IF open THEN 0 ELSE @ - 1]
  BY DEF Leave, Goto, Processes, InLine
<1>2. queue' \in [Processes -> Seq(Writers)] /\ count' \in [Processes -> Int]
  <2>1. <<>> \in Seq(Writers) /\ queue[p] \in Seq(Writers) /\ count[p] \in Int /\ count[p] - 1 \in Int
    BY <1>1 DEF CountInv
  <2>. QED  BY <1>1, <2>1 DEF CountInv
<1>3. \A v \in Writers : pc'[v] \in InLine => v # w /\ pc[v] \in InLine
  BY <1>1 DEF WriterTypes
<1>4. ASSUME open, NEW v \in Writers, v # w, Home[v] = p PROVE pc[v] \notin InLine
  <2>1. \A i \in 1 .. Len(queue[p]) : queue[p][i] = v => pc[v] \in Ends
    BY <1>4
  <2>. QED  BY <1>4, <2>1 DEF CountInv, Ends, InLine
<1>5. ASSUME NEW v \in Writers, pc'[v] \in InLine
      PROVE  \E i \in 1 .. Len(queue'[Home[v]]) : queue'[Home[v]][i] = v
  <2>1. Home[v] \in Processes
    BY DEF Processes
  <2>2. queue'[Home[v]] = queue[Home[v]]
    BY <1>1, <1>3, <1>4, <1>5, <2>1 DEF CountInv
  <2>. QED  BY <1>3, <1>5, <2>2 DEF CountInv
<1>6. Unfinished(p)' = Unfinished(p) \ {w} /\ w \in Unfinished(p)
  BY <1>1 DEF Unfinished, WriterTypes
<1>7. Cardinality(Unfinished(p)') = Cardinality(Unfinished(p)) - 1
  BY <1>6, UnfinishedFinite, FS_RemoveElement
<1>8. ASSUME NEW q \in Processes PROVE count'[q] = Cardinality(Unfinished(q)')
  <2>1. CASE q # p
    <3>1. Unfinished(q)' = Unfinished(q)
      BY <1>1, <2>1 DEF Unfinished, WriterTypes
    <3>2. count'[q] = count[q]
      BY <1>1, <2>1 DEF CountInv
    <3>. QED  BY <3>1, <3>2 DEF CountInv
  <2>2. CASE q = p /\ ~open
    BY <1>1, <1>7, <2>2 DEF CountInv
  <2>3. CASE q = p /\ open
    <3>1. Unfinished(p)' = {}
      BY <1>3, <1>4, <2>3 DEF Unfinished
    <3>2. count'[p] = 0
      BY <1>1, <2>3 DEF CountInv
    <3>. QED  BY <2>3, <3>1, <3>2, FS_EmptySet
  <2>. QED  BY <2>1, <2>2, <2>3
<1>. QED  BY <1>2, <1>5, <1>8 DEF CountInv

LEMMA TicketCounts ==
  ASSUME CountInv, WriterTypes, NEW w \in Writers, TakeTicket(w)
  PROVE  CountInv'
<1> DEFINE p == Home[w]
<1>1. CASE count[p] >= QueueLimit
  <2>1. UNCHANGED ticketVars /\ \A v \in Writers : pc'[v] \in InLine <=> pc[v] \in InLine
    BY <1>1 DEF TakeTicket, Goto, InLine, WriterTypes
  <2>. QED  BY <2>1, CountStays
<1>2. CASE ~(count[p] >= QueueLimit)
  <2>1. /\ p \in Processes /\ pc' = [pc EXCEPT ![w] = "queued"] /\ pc[w] = "read"
        /\ queue' = [queue EXCEPT ![p] = Append(@, w)] /\ count' = [count EXCEPT ![p] = @ + 1]
    BY <1>2 DEF TakeTicket, Goto, Processes
  <2>2. queue[p] \in Seq(Writers) /\ count[p] \in Int
    BY <2>1 DEF CountInv
  <2>3. /\ Append(queue[p], w) \in Seq(Writers) /\ Len(Append(queue[p], w)) = Len(queue[p]) + 1
        /\ Append(queue[p], w)[Len(queue[p]) + 1] = w /\ Len(queue[p]) \in Nat
        /\ \A i \in 1 .. Len(queue[p]) : Append(queue[p], w)[i] = queue[p][i]
    BY <2>2
  <2>4. queue' \in [Processes -> Seq(Writers)] /\ count' \in [Processes -> Int]
    BY <2>1, <2>2, <2>3 DEF CountInv
  <2>5. ASSUME NEW v \in Writers, pc'[v] \in InLine
        PROVE  \E i \in 1 .. Len(queue'[Home[v]]) : queue'[Home[v]][i] = v
    <3>1. Home[v] \in Processes
      BY DEF Processes
    <3>2. CASE Home[v] # p
      <4>1. queue'[Home[v]] = queue[Home[v]] /\ pc[v] \in InLine
        BY <2>1, <2>5, <3>1, <3>2 DEF CountInv, WriterTypes
      <4>. QED  BY <4>1 DEF CountInv
    <3>3. CASE v = w
      <4>1. queue'[p] = Append(queue[p], w) /\ Len(queue[p]) + 1 \in 1 .. Len(queue'[p])
        BY <2>1, <2>3 DEF CountInv
      <4>. QED  BY <2>3, <3>3, <4>1
    <3>4. CASE Home[v] = p /\ v # w
      <4>1. queue'[p] = Append(queue[p], w) /\ pc[v] \in InLine
        BY <2>1, <2>5, <3>4 DEF CountInv, WriterTypes
      <4>2. PICK i \in 1 .. Len(queue[p]) : queue[p][i] = v
        BY <3>4, <4>1 DEF CountInv
      <4>3. i \in 1 .. Len(queue'[p]) /\ queue'[p][i] = v
        BY <2>3, <4>1, <4>2
      <4>. QED  BY <3>4, <4>3
    <3>. QED  BY <3>2, <3>3, <3>4
  <2>6. Unfinished(p)' = Unfinished(p) \cup {w} /\ w \notin Unfinished(p)
    BY <2>1 DEF Unfinished, WriterTypes, InLine
  <2>7. Cardinality(Unfinished(p)') = Cardinality(Unfinished(p)) + 1
    BY <2>6, UnfinishedFinite, FS_AddElement
  <2>8. ASSUME NEW q \in Processes PROVE count'[q] = Cardinality(Unfinished(q)')
    <3>1. CASE q # p
      <4>1. Unfinished(q)' = Unfinished(q) /\ count'[q] = count[q]
        BY <2>1, <3>1 DEF Unfinished, WriterTypes, CountInv
      <4>. QED  BY <4>1 DEF CountInv
    <3>2. CASE q = p
      BY <2>1, <2>7, <3>2 DEF CountInv
    <3>. QED  BY <3>1, <3>2
  <2>. QED  BY <2>4, <2>5, <2>8 DEF CountInv
<1>. QED  BY <1>1, <1>2

LEMMA CrashCounts ==
  ASSUME CountInv, WriterTypes, NEW p \in Processes, Crash(p)
  PROVE  CountInv'
<1>1. /\ queue' = [queue EXCEPT ![p] = <<>>] /\ count' = [count EXCEPT ![p] = 0]
      /\ \A w \in Writers : pc'[w] = IF Home[w] = p /\ pc[w] \notin Ends THEN "dead" ELSE pc[w]
  BY DEF Crash
<1>2. queue' \in [Processes -> Seq(Writers)] /\ count' \in [Processes -> Int]
  <2>1. <<>> \in Seq(Writers) /\ 0 \in Int
    OBVIOUS
  <2>. QED  BY <1>1, <2>1 DEF CountInv
<1>3. \A w \in Writers : pc'[w] \in InLine => Home[w] # p /\ pc[w] \in InLine
  BY <1>1 DEF InLine, Ends
<1>4. ASSUME NEW w \in Writers, pc'[w] \in InLine
      PROVE  \E i \in 1 .. Len(queue'[Home[w]]) : queue'[Home[w]][i] = w
  <2>1. Home[w] \in Processes
    BY DEF Processes
  <2>2. queue'[Home[w]] = queue[Home[w]]
    BY <1>1, <1>3, <1>4, <2>1 DEF CountInv
  <2>. QED  BY <1>3, <1>4, <2>2 DEF CountInv
<1>5. ASSUME NEW q \in Processes PROVE count'[q] = Cardinality(Unfinished(q)')
  <2>1. CASE q = p
    <3>1. Unfinished(p)' = {}
      BY <1>3 DEF Unfinished
    <3>2. count'[p] = 0
      BY <1>1 DEF CountInv
    <3>. QED  BY <2>1, <3>1, <3>2, FS_EmptySet
  <2>2. CASE q # p
    <3>1. Unfinished(q)' = Unfinished(q) /\ count'[q] = count[q]
      BY <1>1, <2>2 DEF Unfinished, CountInv
    <3>. QED  BY <3>1 DEF CountInv
  <2>. QED  BY <2>1, <2>2
<1>. QED  BY <1>2, <1>4, <1>5 DEF CountInv

LEMMA CountStep == CountInv /\ WorkspaceInv /\ [CliWorkspaceNext]_workspaceVars => CountInv'
<1> SUFFICES ASSUME CountInv, WorkspaceInv, [CliWorkspaceNext]_workspaceVars PROVE CountInv'
  OBVIOUS
<1>0. WriterTypes
  BY DEF WorkspaceInv
<1>1. CASE UNCHANGED workspaceVars \/ EditOutside
  <2>1. UNCHANGED ticketVars /\ UNCHANGED pc
    BY <1>1 DEF workspaceVars, EditOutside
  <2>. QED  BY <2>1, CountStays
<1>2. ASSUME NEW w \in Writers,
             ReadRevision(w) \/ BeginImmediate(w) \/ Unlink(w) \/ Rename(w)
      PROVE  CountInv'
  <2>1. UNCHANGED ticketVars /\ \A v \in Writers : pc'[v] \in InLine <=> pc[v] \in InLine
    BY <1>0, <1>2 DEF ReadRevision, BeginImmediate, Unlink, Rename, Goto, InLine, WriterTypes
  <2>. QED  BY <2>1, CountStays
<1>3. ASSUME NEW w \in Writers, TakeTicket(w) PROVE CountInv'
  BY <1>0, <1>3, TicketCounts
<1>4. ASSUME NEW w \in Writers, WriterBusy(w) \/ Answer(w) PROVE CountInv'
  <2>1. pc[w] \in InLine /\ \E l \in {"failed", "done"} : Leave(w, l)
    BY <1>4 DEF WriterBusy, Answer, InLine
  <2>. QED  BY <1>0, <2>1, LeaveCounts
<1>5. ASSUME NEW w \in Writers, Stage(w) \/ CheckAgain(w) \/ Link(w) PROVE CountInv'
  <2>1. pc[w] \in InLine
    BY <1>5 DEF Stage, CheckAgain, Link, InLine
  <2>2. CASE Leave(w, "failed")
    BY <1>0, <2>1, <2>2, LeaveCounts
  <2>3. CASE ~Leave(w, "failed")
    <3>1. UNCHANGED ticketVars /\ pc' \in {[pc EXCEPT ![w] = l] : l \in {"staged", "checked", "linked"}}
      BY <1>5, <2>3 DEF Stage, CheckAgain, Link, Goto
    <3>2. \A v \in Writers : pc'[v] \in InLine <=> pc[v] \in InLine
      BY <1>0, <2>1, <3>1 DEF InLine, WriterTypes
    <3>. QED  BY <3>1, <3>2, CountStays
  <2>. QED  BY <2>2, <2>3
<1>6. ASSUME NEW p \in Processes, Crash(p) PROVE CountInv'
  BY <1>0, <1>6, CrashCounts
<1>. QED
  BY <1>1, <1>2, <1>3, <1>4, <1>5, <1>6 DEF CliWorkspaceNext, WriterStep

\* A write replaces the version its caller read or one an editor outside the
\* port left, one writer at a time is in the window, a staged file is its
\* writer's, and the limit counts the unfinished writers of a process
\* (cli/workspace.ts: write; cli/write-coordination.ts: withWorkspaceWriteLock).
THEOREM NothingIsLost == CliWorkspaceSpec => []NoLostUpdate
<1>1. WorkspaceInv /\ CountInv => NoLostUpdate
  <2> SUFFICES ASSUME WorkspaceInv, CountInv PROVE NoLostUpdate
    OBVIOUS
  <2>1. \A p \in Processes : count[p] = Cardinality({w \in Writers : Home[w] = p /\ pc[w] \in InLine})
    BY DEF CountInv, Unfinished
  <2>2. \A w \in Writers : pc[w] \in InLine \ {"queued"} => sqlite = w
    BY DEF WorkspaceInv, WriterInv, Window, InLine
  <2>. QED  BY <2>1, <2>2 DEF WorkspaceInv, WriterTypes, WriterInv, NoLostUpdate
<1>2. CliWorkspaceSpec => []CountInv
  BY InitCount, CountStep, WorkspaceInvariant, PTL DEF CliWorkspaceSpec
<1>. QED  BY WorkspaceInvariant, <1>1, <1>2, PTL
-----------------------------------------------------------------------------
(* The Devin adapter.                                                      *)

TurnState ==
  [stage : {"none", "admitted", "relay", "request", "close", "relayStop", "done"}, busy : BOOLEAN,
   aborted : BOOLEAN, relay : {"down", "up", "closed"}, launched : BOOLEAN, stopped : BOOLEAN,
   step : 1..4, answered : BOOLEAN, out : Nat, cut : BOOLEAN, returns : BOOLEAN, result : {"none", "completed", "failed"},
   stop : {"none", "asked", "evidence", "unproven"}]
ProviderState ==
  [process : {"none", "alive", "gone"}, pipe : Seq({"delta", "ok", "bad"}), sent : Nat, said : Nat,
   replied : 0..4]

DevinTypeOK ==
    /\ active \in Runs \cup {NoRun}
    /\ turn \in [Runs -> TurnState]
    /\ devin \in [Runs -> ProviderState]

\* The adapter is kept from the admission to the proof of the stop.
AdapterInv(r) ==
    /\ turn[r].stage \notin {"none", "done"} /\ ~turn[r].busy => active = r
    /\ turn[r].busy => turn[r].stage \in {"admitted", "done"} /\ ~turn[r].launched
    /\ turn[r].launched <=> devin[r].process # "none"
    /\ turn[r].launched => turn[r].stage \in {"request", "close", "relayStop", "done"}
    /\ turn[r].stage \in {"request", "close"} => turn[r].launched /\ ~turn[r].stopped
    /\ turn[r].launched /\ ~turn[r].stopped => active = r
    /\ turn[r].stopped => devin[r].process = "gone"
    /\ turn[r].stop = "evidence" => turn[r].stage = "done" /\ StopProven(r)
    /\ turn[r].stage = "none" => turn[r].stop = "none"

\* What is still in the pipe: no reply, or the one to the request in flight.
NoReply(p) == \A i \in 1..Len(p) : p[i] # "ok"
OneReply(p) == \E k \in 1..Len(p) : \A i \in 1..Len(p) : p[i] = "ok" <=> i = k
ReplyInv(r) ==
    turn[r].stage = "request" =>
      \/ devin[r].replied = turn[r].step - 1 /\ NoReply(devin[r].pipe)
      \/ devin[r].replied = turn[r].step /\ OneReply(devin[r].pipe)

\* n deltas and those of the pipe, before the last reply if it is there, are at
\* least m: c[i] of them come before the i-th frame of the pipe.
Backed(p, n, m, final) ==
    \E c \in [1..(Len(p) + 1) -> Nat] :
      /\ c[1] <= n
      /\ \A i \in 1..Len(p) : c[i + 1] <= c[i] + (IF p[i] = "delta" THEN 1 ELSE 0)
      /\ IF final THEN \A k \in 1..Len(p) : p[k] = "ok" => m <= c[k]
                  ELSE m <= c[Len(p) + 1]

\* Nothing the provider said is lost on the way to the output.
OutputInv(r) ==
    /\ turn[r].stage = "request" /\ ~turn[r].cut =>
         Backed(devin[r].pipe, turn[r].out, devin[r].said, devin[r].replied = 4)
    /\ turn[r].answered =>
         /\ turn[r].stage \in {"close", "relayStop", "done"}
         /\ devin[r].replied = 4
         /\ turn[r].cut \/ devin[r].said <= turn[r].out
    /\ turn[r].stage \in {"none", "admitted", "relay"} =>
         /\ devin[r].pipe = <<>> /\ devin[r].said = 0 /\ devin[r].replied = 0
         /\ turn[r].step = 1 /\ turn[r].out = 0 /\ ~turn[r].answered /\ ~turn[r].stopped
    /\ turn[r].returns =>
         /\ turn[r].stage \in {"relayStop", "done"}
         /\ turn[r].answered /\ turn[r].stopped /\ ~turn[r].cut
    /\ turn[r].result = "completed" =>
         turn[r].stage = "done" /\ turn[r].relay # "up" /\ turn[r].returns

TaskInv(r) == AdapterInv(r) /\ ReplyInv(r) /\ OutputInv(r)
DevinInv == DevinTypeOK /\ \A r \in Runs : TaskInv(r)

-----------------------------------------------------------------------------
\* The pipe: what a frame sent or read does to the deltas it backs.

Frames == {"delta", "ok", "bad"}
Weight(f) == IF f = "delta" THEN 1 ELSE 0

LEMMA BackedSend ==
  ASSUME NEW p \in Seq(Frames), NEW n \in Nat, NEW m \in Nat, NEW f \in Frames, NEW final \in BOOLEAN,
         Backed(p, n, m, final)
  PROVE  /\ ~final => Backed(Append(p, f), n, m + Weight(f), FALSE)
         /\ ~final /\ NoReply(p) => Backed(Append(p, "ok"), n, m, TRUE)
         /\ final /\ f # "ok" => Backed(Append(p, f), n, m, TRUE)
<1>1. PICK c \in [1..(Len(p) + 1) -> Nat] :
      /\ c[1] <= n
      /\ \A i \in 1..Len(p) : c[i + 1] <= c[i] + Weight(p[i])
      /\ IF final THEN \A k \in 1..Len(p) : p[k] = "ok" => m <= c[k]
                  ELSE m <= c[Len(p) + 1]
  BY DEF Backed, Weight
<1>2. Len(p) \in Nat
  OBVIOUS
<1>3. ASSUME NEW g \in Frames
      PROVE  \E d \in [1..(Len(Append(p, g)) + 1) -> Nat] :
               /\ \A i \in 1..(Len(p) + 1) : d[i] = c[i]
               /\ d[Len(p) + 2] = c[Len(p) + 1] + Weight(g)
               /\ d[1] <= n
               /\ \A i \in 1..Len(Append(p, g)) : d[i + 1] <= d[i] + Weight(Append(p, g)[i])
  <2> DEFINE d == [i \in 1..(Len(p) + 2) |-> IF i = Len(p) + 2 THEN c[Len(p) + 1] + Weight(g) ELSE c[i]]
  <2>1. /\ Append(p, g) \in Seq(Frames) /\ Len(Append(p, g)) = Len(p) + 1
        /\ Append(p, g)[Len(p) + 1] = g /\ \A i \in 1..Len(p) : Append(p, g)[i] = p[i]
    OBVIOUS
  <2>2. Weight(g) \in Nat
    BY DEF Weight
  <2>3. d \in [1..(Len(p) + 2) -> Nat]
    <3>1. ASSUME NEW i \in 1..(Len(p) + 2)
          PROVE  (IF i = Len(p) + 2 THEN c[Len(p) + 1] + Weight(g) ELSE c[i]) \in Nat
      BY <1>2, <2>2
    <3>. QED  BY <3>1
  <2>4. \A i \in 1..(Len(p) + 1) : d[i] = c[i]
    BY <1>2
  <2>5. d[Len(p) + 2] = c[Len(p) + 1] + Weight(g)
    BY <1>2
  <2> HIDE DEF d
  <2>6. d[1] <= n
    BY <1>1, <1>2, <2>4
  <2>7. ASSUME NEW i \in 1..(Len(p) + 1) PROVE d[i + 1] <= d[i] + Weight(Append(p, g)[i])
    <3>1. CASE i = Len(p) + 1
      BY <3>1, <1>2, <2>1, <2>2, <2>4, <2>5
    <3>2. CASE i \in 1..Len(p)
      <4>1. d[i + 1] = c[i + 1] /\ d[i] = c[i]
        BY <3>2, <1>2, <2>4
      <4>. QED  BY <4>1, <3>2, <1>1, <2>1
    <3>. QED  BY <3>1, <3>2, <1>2
  <2>8. Len(Append(p, g)) + 1 = Len(p) + 2
    BY <2>1, <1>2
  <2>. QED  BY <2>1, <2>3, <2>4, <2>5, <2>6, <2>7, <2>8
<1>4. ASSUME ~final PROVE Backed(Append(p, f), n, m + Weight(f), FALSE)
  <2>1. PICK d \in [1..(Len(Append(p, f)) + 1) -> Nat] :
               /\ \A i \in 1..(Len(p) + 1) : d[i] = c[i]
               /\ d[Len(p) + 2] = c[Len(p) + 1] + Weight(f)
               /\ d[1] <= n
               /\ \A i \in 1..Len(Append(p, f)) : d[i + 1] <= d[i] + Weight(Append(p, f)[i])
    BY <1>3
  <2>2. m + Weight(f) <= d[Len(Append(p, f)) + 1]
    <3>1. Len(Append(p, f)) + 1 = Len(p) + 2
      BY <1>2
    <3>2. m <= c[Len(p) + 1] /\ c[Len(p) + 1] \in Nat /\ Weight(f) \in Nat
      BY <1>4, <1>1, <1>2 DEF Weight
    <3>. QED  BY <3>1, <3>2, <2>1
  <2>. QED  BY <2>1, <2>2 DEF Backed, Weight
<1>5. ASSUME ~final, NoReply(p) PROVE Backed(Append(p, "ok"), n, m, TRUE)
  <2>1. PICK d \in [1..(Len(Append(p, "ok")) + 1) -> Nat] :
               /\ \A i \in 1..(Len(p) + 1) : d[i] = c[i]
               /\ d[1] <= n
               /\ \A i \in 1..Len(Append(p, "ok")) : d[i + 1] <= d[i] + Weight(Append(p, "ok")[i])
    BY <1>3 DEF Frames
  <2>2. ASSUME NEW k \in 1..Len(Append(p, "ok")), Append(p, "ok")[k] = "ok" PROVE m <= d[k]
    <3>1. k = Len(p) + 1
      BY <2>2, <1>2, <1>5 DEF NoReply
    <3>. QED  BY <3>1, <2>1, <1>1, <1>2, <1>5
  <2>. QED  BY <2>1, <2>2 DEF Backed, Weight
<1>6. ASSUME final, f # "ok" PROVE Backed(Append(p, f), n, m, TRUE)
  <2>1. PICK d \in [1..(Len(Append(p, f)) + 1) -> Nat] :
               /\ \A i \in 1..(Len(p) + 1) : d[i] = c[i]
               /\ d[1] <= n
               /\ \A i \in 1..Len(Append(p, f)) : d[i + 1] <= d[i] + Weight(Append(p, f)[i])
    BY <1>3
  <2>2. ASSUME NEW k \in 1..Len(Append(p, f)), Append(p, f)[k] = "ok" PROVE m <= d[k]
    <3>1. k \in 1..Len(p) /\ p[k] = "ok"
      BY <2>2, <1>2, <1>6
    <3>. QED  BY <3>1, <2>1, <1>1, <1>2, <1>6
  <2>. QED  BY <2>1, <2>2 DEF Backed, Weight
<1>. QED  BY <1>4, <1>5, <1>6

LEMMA BackedRead ==
  ASSUME NEW p \in Seq(Frames), NEW n \in Nat, NEW m \in Nat, NEW final \in BOOLEAN,
         p # <<>>, Backed(p, n, m, final)
  PROVE  /\ Backed(Tail(p), n + Weight(Head(p)), m, final)
         /\ final /\ Head(p) = "ok" => m <= n
<1>1. PICK c \in [1..(Len(p) + 1) -> Nat] :
      /\ c[1] <= n
      /\ \A i \in 1..Len(p) : c[i + 1] <= c[i] + Weight(p[i])
      /\ IF final THEN \A k \in 1..Len(p) : p[k] = "ok" => m <= c[k]
                  ELSE m <= c[Len(p) + 1]
  BY DEF Backed, Weight
<1>2. /\ Len(p) \in Nat /\ Len(p) >= 1 /\ Head(p) = p[1]
      /\ Tail(p) \in Seq(Frames) /\ Len(Tail(p)) = Len(p) - 1
      /\ \A i \in 1..Len(Tail(p)) : Tail(p)[i] = p[i + 1]
  OBVIOUS
<1> DEFINE d == [i \in 1..Len(p) |-> c[i + 1]]
<1>3. d \in [1..(Len(Tail(p)) + 1) -> Nat]
  BY <1>2
<1>4. \A i \in 1..Len(p) : d[i] = c[i + 1]
  OBVIOUS
<1> HIDE DEF d
<1>5. d[1] <= n + Weight(Head(p))
  BY <1>1, <1>2, <1>4 DEF Weight
<1>6. \A i \in 1..Len(Tail(p)) : d[i + 1] <= d[i] + Weight(Tail(p)[i])
  <2> SUFFICES ASSUME NEW i \in 1..Len(Tail(p)) PROVE d[i + 1] <= d[i] + Weight(Tail(p)[i])
    OBVIOUS
  <2>1. i + 1 \in 1..Len(p) /\ i \in 1..Len(p) /\ Tail(p)[i] = p[i + 1]
    BY <1>2
  <2>2. c[(i + 1) + 1] <= c[i + 1] + Weight(p[i + 1])
    BY <2>1, <1>1
  <2>. QED  BY <2>1, <2>2, <1>4
<1>7. IF final THEN \A k \in 1..Len(Tail(p)) : Tail(p)[k] = "ok" => m <= d[k]
               ELSE m <= d[Len(Tail(p)) + 1]
  <2>1. ASSUME final, NEW k \in 1..Len(Tail(p)), Tail(p)[k] = "ok" PROVE m <= d[k]
    <3>1. k + 1 \in 1..Len(p) /\ k \in 1..Len(p) /\ p[k + 1] = "ok"
      BY <2>1, <1>2
    <3>. QED  BY <3>1, <2>1, <1>1, <1>4
  <2>2. ASSUME ~final PROVE m <= d[Len(Tail(p)) + 1]
    <3>1. Len(Tail(p)) + 1 = Len(p) /\ Len(p) \in 1..Len(p)
      BY <1>2
    <3>. QED  BY <3>1, <2>2, <1>1, <1>4
  <2>. QED  BY <2>1, <2>2
<1>8. Backed(Tail(p), n + Weight(Head(p)), m, final)
  BY <1>3, <1>5, <1>6, <1>7 DEF Backed, Weight
<1>9. ASSUME final, Head(p) = "ok" PROVE m <= n
  <2>1. m <= c[1] /\ c[1] \in Nat
    BY <1>1, <1>2, <1>9
  <2>. QED  BY <2>1, <1>1
<1>. QED  BY <1>8, <1>9

LEMMA RepliesIn ==
  ASSUME NEW p \in Seq(Frames)
  PROVE  /\ NoReply(<<>>)
         /\ \A f \in Frames : f # "ok" =>
              (NoReply(p) => NoReply(Append(p, f))) /\ (OneReply(p) => OneReply(Append(p, f)))
         /\ NoReply(p) => OneReply(Append(p, "ok"))
         /\ p # <<>> =>
              /\ NoReply(p) => NoReply(Tail(p)) /\ Head(p) # "ok"
              /\ OneReply(p) /\ Head(p) = "ok" => NoReply(Tail(p))
              /\ OneReply(p) /\ Head(p) # "ok" => OneReply(Tail(p))
<1>0. Len(p) \in Nat
  OBVIOUS
<1>1. NoReply(<<>>)
  <2>1. Len(<<>>) = 0
    OBVIOUS
  <2>. QED  BY <2>1 DEF NoReply
<1>2. ASSUME NEW f \in Frames
      PROVE  /\ Append(p, f) \in Seq(Frames) /\ Len(Append(p, f)) = Len(p) + 1
             /\ Append(p, f)[Len(p) + 1] = f /\ \A i \in 1..Len(p) : Append(p, f)[i] = p[i]
  OBVIOUS
<1>3. ASSUME NEW f \in Frames, f # "ok"
      PROVE  (NoReply(p) => NoReply(Append(p, f))) /\ (OneReply(p) => OneReply(Append(p, f)))
  <2>1. NoReply(p) => NoReply(Append(p, f))
    BY <1>0, <1>2, <1>3 DEF NoReply
  <2>2. ASSUME NEW k \in 1..Len(p), \A i \in 1..Len(p) : p[i] = "ok" <=> i = k
        PROVE  OneReply(Append(p, f))
    <3>1. k \in 1..Len(Append(p, f))
      BY <1>0, <1>2
    <3>2. ASSUME NEW i \in 1..Len(Append(p, f)) PROVE Append(p, f)[i] = "ok" <=> i = k
      <4>1. CASE i = Len(p) + 1
        BY <4>1, <1>0, <1>2, <1>3
      <4>2. CASE i \in 1..Len(p)
        BY <4>2, <1>2, <2>2
      <4>. QED  BY <4>1, <4>2, <1>0, <1>2
    <3>. QED  BY <3>1, <3>2 DEF OneReply
  <2>. QED  BY <2>1, <2>2 DEF OneReply
<1>4. ASSUME NoReply(p) PROVE OneReply(Append(p, "ok"))
  <2>1. \A i \in 1..Len(Append(p, "ok")) : Append(p, "ok")[i] = "ok" <=> i = Len(p) + 1
    BY <1>0, <1>2, <1>4 DEF NoReply, Frames
  <2>2. Len(p) + 1 \in 1..Len(Append(p, "ok"))
    BY <1>0, <1>2 DEF Frames
  <2>. QED  BY <2>1, <2>2 DEF OneReply
<1>5. ASSUME p # <<>>
      PROVE  /\ NoReply(p) => NoReply(Tail(p)) /\ Head(p) # "ok"
             /\ OneReply(p) /\ Head(p) = "ok" => NoReply(Tail(p))
             /\ OneReply(p) /\ Head(p) # "ok" => OneReply(Tail(p))
  <2>1. /\ Len(p) >= 1 /\ Head(p) = p[1]
        /\ Tail(p) \in Seq(Frames) /\ Len(Tail(p)) = Len(p) - 1
        /\ \A i \in 1..Len(Tail(p)) : i + 1 \in 1..Len(p) /\ Tail(p)[i] = p[i + 1]
    BY <1>0, <1>5
  <2>2. NoReply(p) => NoReply(Tail(p)) /\ Head(p) # "ok"
    BY <1>0, <2>1 DEF NoReply
  <2>3. ASSUME NEW k \in 1..Len(p), \A i \in 1..Len(p) : p[i] = "ok" <=> i = k
        PROVE  /\ Head(p) = "ok" => NoReply(Tail(p))
               /\ Head(p) # "ok" => OneReply(Tail(p))
    <3>1. CASE Head(p) = "ok"
      <4>1. k = 1
        BY <1>0, <2>1, <2>3, <3>1
      <4>. QED  BY <4>1, <1>0, <2>1, <2>3, <3>1 DEF NoReply
    <3>2. CASE Head(p) # "ok"
      <4>1. k # 1 /\ k - 1 \in 1..Len(Tail(p))
        BY <1>0, <2>1, <2>3, <3>2
      <4>2. ASSUME NEW i \in 1..Len(Tail(p)) PROVE Tail(p)[i] = "ok" <=> i = k - 1
        BY <1>0, <2>1, <2>3
      <4>. QED  BY <4>1, <4>2, <3>2 DEF OneReply
    <3>. QED  BY <3>1, <3>2
  <2>. QED  BY <2>2, <2>3 DEF OneReply
<1>. QED  BY <1>1, <1>3, <1>4, <1>5

LEMMA BackedEmpty == Backed(<<>>, 0, 0, FALSE)
<1>1. Len(<<>>) = 0
  OBVIOUS
<1>2. \E c \in [1..(0 + 1) -> Nat] : c[1] <= 0 /\ 0 <= c[0 + 1]
  <2>1. [i \in 1..(0 + 1) |-> 0] \in [1..(0 + 1) -> Nat]
    OBVIOUS
  <2>2. [i \in 1..(0 + 1) |-> 0][1] <= 0 /\ 0 <= [i \in 1..(0 + 1) |-> 0][0 + 1]
    OBVIOUS
  <2>. QED  BY <2>1, <2>2
<1>3. PICK c \in [1..(Len(<<>>) + 1) -> Nat] : c[1] <= 0 /\ 0 <= c[Len(<<>>) + 1]
  BY <1>1, <1>2
<1>4. \A i \in 1..Len(<<>>) : c[i + 1] <= c[i] + (IF <<>>[i] = "delta" THEN 1 ELSE 0)
  BY <1>1
<1>. QED  BY <1>3, <1>4 DEF Backed

-----------------------------------------------------------------------------
LEMMA InitDevin == DevinInit => DevinInv
<1> SUFFICES ASSUME DevinInit PROVE DevinInv  OBVIOUS
<1>1. DevinTypeOK
  <2>1. [stage |-> "none", busy |-> FALSE, aborted |-> FALSE, relay |-> "down",
         launched |-> FALSE, stopped |-> FALSE, step |-> 1, answered |-> FALSE,
         out |-> 0, cut |-> FALSE, returns |-> FALSE, result |-> "none", stop |-> "none"] \in TurnState
    BY DEF TurnState
  <2>2. [process |-> "none", pipe |-> <<>>, sent |-> 0, said |-> 0, replied |-> 0] \in ProviderState
    BY DEF ProviderState
  <2>3. turn \in [Runs -> TurnState] /\ devin \in [Runs -> ProviderState]
    BY <2>1, <2>2 DEF DevinInit
  <2>. QED  BY <2>3 DEF DevinInit, DevinTypeOK
<1>2. ASSUME NEW r \in Runs PROVE TaskInv(r)
  BY DEF DevinInit, TaskInv, AdapterInv, ReplyInv, OutputInv
<1>. QED  BY <1>1, <1>2 DEF DevinInv

\* What a step of one run leaves alone: the others' state, and the adapter
\* unless that run has it or nobody has.
OnlyRun(r) ==
    /\ turn' = [turn EXCEPT ![r] = turn'[r]]
    /\ devin' = [devin EXCEPT ![r] = devin'[r]]
    /\ active' = active \/ (active = NoRun /\ active' = r) \/ (active = r /\ active' = NoRun)
KeepsTypes(r) == turn'[r] \in TurnState /\ devin'[r] \in ProviderState

LEMMA OneMoves ==
  ASSUME DevinInv, NEW r \in Runs, OnlyRun(r), KeepsTypes(r), TaskInv(r)'
  PROVE  DevinInv'
<1>1. DevinTypeOK'
  BY DEF DevinInv, DevinTypeOK, OnlyRun, KeepsTypes
<1>2. ASSUME NEW q \in Runs, q # r PROVE TaskInv(q)'
  <2>1. turn'[q] = turn[q] /\ devin'[q] = devin[q]
    BY <1>2 DEF OnlyRun, DevinInv, DevinTypeOK
  <2>2. active = q => active' = q
    BY <1>2, DevinAssumption DEF OnlyRun
  <2>3. AdapterInv(q) /\ ReplyInv(q) /\ OutputInv(q)
    BY DEF DevinInv, TaskInv
  <2>4. AdapterInv(q)'
    BY <2>1, <2>2, <2>3 DEF AdapterInv, StopProven
  <2>5. ReplyInv(q)'
    BY <2>1, <2>3 DEF ReplyInv
  <2>6. OutputInv(q)'
    BY <2>1, <2>3 DEF OutputInv
  <2>. QED  BY <2>4, <2>5, <2>6 DEF TaskInv
<1>. QED  BY <1>1, <1>2 DEF DevinInv

LEMMA RunDevinKeeps ==
  ASSUME DevinInv, NEW r \in Runs, RunDevin(r)
  PROVE  DevinInv'
<1>1. /\ turn \in [Runs -> TurnState] /\ devin \in [Runs -> ProviderState]
      /\ turn[r] \in TurnState /\ devin[r] \in ProviderState
      /\ AdapterInv(r) /\ ReplyInv(r) /\ OutputInv(r)
  BY DEF DevinInv, DevinTypeOK, TaskInv
<1>2. OnlyRun(r)
  BY <1>1 DEF OnlyRun, RunDevin, In
<1>3. ASSUME turn[r].stage = "none",
            turn'[r] = [turn[r] EXCEPT !.stage = "admitted", !.busy = active # NoRun],
            devin'[r] = devin[r],
            active' = (IF active = NoRun THEN r ELSE active)
     PROVE  KeepsTypes(r) /\ TaskInv(r)'
  <2>1. KeepsTypes(r)
    BY <1>1, <1>3 DEF KeepsTypes, TurnState, ProviderState
  <2>2. AdapterInv(r)'
    BY <1>1, <1>3, DevinAssumption DEF AdapterInv, OutputInv, StopProven, TurnState, ProviderState
  <2>3. ReplyInv(r)'
    BY RepliesIn, <1>1, <1>3 DEF ReplyInv, OutputInv, TurnState, ProviderState, Frames
  <2>4. OutputInv(r)'
    BY <1>1, <1>3 DEF OutputInv, TurnState, ProviderState
  <2>. QED  BY <2>2, <2>3, <2>4, <2>1 DEF TaskInv
<1>10. KeepsTypes(r) /\ TaskInv(r)'
  BY <1>1, <1>3 DEF RunDevin, In
<1>. QED  BY <1>2, <1>10, OneMoves

LEMMA StartRelayKeeps ==
  ASSUME DevinInv, NEW r \in Runs, StartRelay(r)
  PROVE  DevinInv'
<1>1. /\ turn \in [Runs -> TurnState] /\ devin \in [Runs -> ProviderState]
      /\ turn[r] \in TurnState /\ devin[r] \in ProviderState
      /\ AdapterInv(r) /\ ReplyInv(r) /\ OutputInv(r)
  BY DEF DevinInv, DevinTypeOK, TaskInv
<1>2. OnlyRun(r)
  BY <1>1 DEF OnlyRun, StartRelay, In
<1>3. ASSUME turn[r].stage = "admitted",
            turn'[r] = [turn[r] EXCEPT !.stage = "done", !.result = "failed"],
            devin'[r] = devin[r],
            active' = active
     PROVE  KeepsTypes(r) /\ TaskInv(r)'
  <2>1. KeepsTypes(r)
    BY <1>1, <1>3 DEF KeepsTypes, TurnState, ProviderState
  <2>2. AdapterInv(r)'
    BY <1>1, <1>3, DevinAssumption DEF AdapterInv, OutputInv, StopProven, TurnState, ProviderState
  <2>3. ReplyInv(r)'
    BY RepliesIn, <1>1, <1>3 DEF ReplyInv, OutputInv, TurnState, ProviderState, Frames
  <2>4. OutputInv(r)'
    BY <1>1, <1>3 DEF OutputInv, TurnState, ProviderState
  <2>. QED  BY <2>2, <2>3, <2>4, <2>1 DEF TaskInv
<1>4. ASSUME turn[r].stage = "admitted",
            ~turn[r].busy,
            NEW relay \in {"up", "down"},
            turn'[r] = [turn[r] EXCEPT !.stage = "relay", !.relay = relay],
            devin'[r] = devin[r],
            active' = active
     PROVE  KeepsTypes(r) /\ TaskInv(r)'
  <2>1. KeepsTypes(r)
    BY <1>1, <1>4 DEF KeepsTypes, TurnState, ProviderState
  <2>2. AdapterInv(r)'
    BY <1>1, <1>4, DevinAssumption DEF AdapterInv, OutputInv, StopProven, TurnState, ProviderState
  <2>3. ReplyInv(r)'
    BY RepliesIn, <1>1, <1>4 DEF ReplyInv, OutputInv, TurnState, ProviderState, Frames
  <2>4. OutputInv(r)'
    BY <1>1, <1>4 DEF OutputInv, TurnState, ProviderState
  <2>. QED  BY <2>2, <2>3, <2>4, <2>1 DEF TaskInv
<1>10. KeepsTypes(r) /\ TaskInv(r)'
  BY <1>1, <1>3, <1>4 DEF StartRelay, In
<1>. QED  BY <1>2, <1>10, OneMoves

LEMMA LaunchDevinKeeps ==
  ASSUME DevinInv, NEW r \in Runs, LaunchDevin(r)
  PROVE  DevinInv'
<1>1. /\ turn \in [Runs -> TurnState] /\ devin \in [Runs -> ProviderState]
      /\ turn[r] \in TurnState /\ devin[r] \in ProviderState
      /\ AdapterInv(r) /\ ReplyInv(r) /\ OutputInv(r)
  BY DEF DevinInv, DevinTypeOK, TaskInv
<1>2. OnlyRun(r)
  BY <1>1 DEF OnlyRun, LaunchDevin, In
<1>3. ASSUME turn[r].stage = "relay",
            turn'[r] = [turn[r] EXCEPT !.stage = "request", !.launched = TRUE],
            devin'[r] = [devin[r] EXCEPT !.process = "alive"],
            active' = active
     PROVE  KeepsTypes(r) /\ TaskInv(r)'
  <2>1. KeepsTypes(r)
    BY <1>1, <1>3 DEF KeepsTypes, TurnState, ProviderState
  <2>2. AdapterInv(r)'
    BY <1>1, <1>3, DevinAssumption DEF AdapterInv, OutputInv, StopProven, TurnState, ProviderState
  <2>3. ReplyInv(r)'
    BY RepliesIn, <1>1, <1>3 DEF ReplyInv, OutputInv, TurnState, ProviderState, Frames
  <2>4. OutputInv(r)'
    <3>1. /\ devin'[r].pipe = <<>> /\ devin'[r].said = 0 /\ devin'[r].replied = 0 /\ ~turn'[r].answered
          /\ turn[r].out = 0 /\ turn'[r].out = 0 /\ turn'[r].stage = "request" /\ turn'[r].result # "completed"
          /\ ~turn'[r].returns
      BY <1>1, <1>3 DEF OutputInv, TurnState, ProviderState
    <3>2. (devin'[r].replied = 4) = FALSE
      BY <3>1
    <3>3. Backed(devin'[r].pipe, turn'[r].out, devin'[r].said, devin'[r].replied = 4)
      BY <3>1, <3>2, BackedEmpty
    <3>. QED  BY <3>1, <3>3 DEF OutputInv
  <2>. QED  BY <2>2, <2>3, <2>4, <2>1 DEF TaskInv
<1>4. ASSUME turn[r].stage = "relay",
            turn'[r] = [turn[r] EXCEPT !.stage = "relayStop"],
            devin'[r] = devin[r],
            active' = active
     PROVE  KeepsTypes(r) /\ TaskInv(r)'
  <2>1. KeepsTypes(r)
    BY <1>1, <1>4 DEF KeepsTypes, TurnState, ProviderState
  <2>2. AdapterInv(r)'
    BY <1>1, <1>4, DevinAssumption DEF AdapterInv, OutputInv, StopProven, TurnState, ProviderState
  <2>3. ReplyInv(r)'
    BY RepliesIn, <1>1, <1>4 DEF ReplyInv, OutputInv, TurnState, ProviderState, Frames
  <2>4. OutputInv(r)'
    BY <1>1, <1>4 DEF OutputInv, TurnState, ProviderState
  <2>. QED  BY <2>2, <2>3, <2>4, <2>1 DEF TaskInv
<1>10. KeepsTypes(r) /\ TaskInv(r)'
  BY <1>1, <1>3, <1>4 DEF LaunchDevin, In
<1>. QED  BY <1>2, <1>10, OneMoves

LEMMA ExitSeenKeeps ==
  ASSUME DevinInv, NEW r \in Runs, ExitSeen(r)
  PROVE  DevinInv'
<1>1. /\ turn \in [Runs -> TurnState] /\ devin \in [Runs -> ProviderState]
      /\ turn[r] \in TurnState /\ devin[r] \in ProviderState
      /\ AdapterInv(r) /\ ReplyInv(r) /\ OutputInv(r)
  BY DEF DevinInv, DevinTypeOK, TaskInv
<1>2. OnlyRun(r)
  BY <1>1 DEF OnlyRun, ExitSeen, In, ClientFails
<1>3. ASSUME turn[r].stage = "request",
            turn'[r] = [turn[r] EXCEPT !.stage = "close"],
            devin'[r] = devin[r],
            active' = active
     PROVE  KeepsTypes(r) /\ TaskInv(r)'
  <2>1. KeepsTypes(r)
    BY <1>1, <1>3 DEF KeepsTypes, TurnState, ProviderState
  <2>2. AdapterInv(r)'
    BY <1>1, <1>3, DevinAssumption DEF AdapterInv, OutputInv, StopProven, TurnState, ProviderState
  <2>3. ReplyInv(r)'
    BY RepliesIn, <1>1, <1>3 DEF ReplyInv, OutputInv, TurnState, ProviderState, Frames
  <2>4. OutputInv(r)'
    BY <1>1, <1>3 DEF OutputInv, TurnState, ProviderState
  <2>. QED  BY <2>2, <2>3, <2>4, <2>1 DEF TaskInv
<1>10. KeepsTypes(r) /\ TaskInv(r)'
  BY <1>1, <1>3 DEF ExitSeen, In, ClientFails
<1>. QED  BY <1>2, <1>10, OneMoves

LEMMA AbortSeenKeeps ==
  ASSUME DevinInv, NEW r \in Runs, AbortSeen(r)
  PROVE  DevinInv'
<1>1. /\ turn \in [Runs -> TurnState] /\ devin \in [Runs -> ProviderState]
      /\ turn[r] \in TurnState /\ devin[r] \in ProviderState
      /\ AdapterInv(r) /\ ReplyInv(r) /\ OutputInv(r)
  BY DEF DevinInv, DevinTypeOK, TaskInv
<1>2. OnlyRun(r)
  BY <1>1 DEF OnlyRun, AbortSeen, In, ClientFails
<1>3. ASSUME turn[r].stage = "request",
            turn'[r] = [turn[r] EXCEPT !.stage = "close"],
            devin'[r] = devin[r],
            active' = active
     PROVE  KeepsTypes(r) /\ TaskInv(r)'
  <2>1. KeepsTypes(r)
    BY <1>1, <1>3 DEF KeepsTypes, TurnState, ProviderState
  <2>2. AdapterInv(r)'
    BY <1>1, <1>3, DevinAssumption DEF AdapterInv, OutputInv, StopProven, TurnState, ProviderState
  <2>3. ReplyInv(r)'
    BY RepliesIn, <1>1, <1>3 DEF ReplyInv, OutputInv, TurnState, ProviderState, Frames
  <2>4. OutputInv(r)'
    BY <1>1, <1>3 DEF OutputInv, TurnState, ProviderState
  <2>. QED  BY <2>2, <2>3, <2>4, <2>1 DEF TaskInv
<1>10. KeepsTypes(r) /\ TaskInv(r)'
  BY <1>1, <1>3 DEF AbortSeen, In, ClientFails
<1>. QED  BY <1>2, <1>10, OneMoves

LEMMA AbortDevinKeeps ==
  ASSUME DevinInv, NEW r \in Runs, AbortDevin(r)
  PROVE  DevinInv'
<1>1. /\ turn \in [Runs -> TurnState] /\ devin \in [Runs -> ProviderState]
      /\ turn[r] \in TurnState /\ devin[r] \in ProviderState
      /\ AdapterInv(r) /\ ReplyInv(r) /\ OutputInv(r)
  BY DEF DevinInv, DevinTypeOK, TaskInv
<1>2. OnlyRun(r)
  BY <1>1 DEF OnlyRun, AbortDevin
<1>3. ASSUME turn'[r] = [turn[r] EXCEPT !.aborted = TRUE],
            devin'[r] = devin[r],
            active' = active
     PROVE  KeepsTypes(r) /\ TaskInv(r)'
  <2>1. KeepsTypes(r)
    BY <1>1, <1>3 DEF KeepsTypes, TurnState, ProviderState
  <2>2. AdapterInv(r)'
    BY <1>1, <1>3, DevinAssumption DEF AdapterInv, OutputInv, StopProven, TurnState, ProviderState
  <2>3. ReplyInv(r)'
    BY RepliesIn, <1>1, <1>3 DEF ReplyInv, OutputInv, TurnState, ProviderState, Frames
  <2>4. OutputInv(r)'
    BY <1>1, <1>3 DEF OutputInv, TurnState, ProviderState
  <2>. QED  BY <2>2, <2>3, <2>4, <2>1 DEF TaskInv
<1>10. KeepsTypes(r) /\ TaskInv(r)'
  BY <1>1, <1>3 DEF AbortDevin
<1>. QED  BY <1>2, <1>10, OneMoves

LEMMA DevinExitsKeeps ==
  ASSUME DevinInv, NEW r \in Runs, DevinExits(r)
  PROVE  DevinInv'
<1>1. /\ turn \in [Runs -> TurnState] /\ devin \in [Runs -> ProviderState]
      /\ turn[r] \in TurnState /\ devin[r] \in ProviderState
      /\ AdapterInv(r) /\ ReplyInv(r) /\ OutputInv(r)
  BY DEF DevinInv, DevinTypeOK, TaskInv
<1>2. OnlyRun(r)
  BY <1>1 DEF OnlyRun, DevinExits
<1>3. ASSUME turn'[r] = turn[r],
            devin[r].process = "alive",
            devin'[r] = [devin[r] EXCEPT !.process = "gone"],
            active' = active
     PROVE  KeepsTypes(r) /\ TaskInv(r)'
  <2>1. KeepsTypes(r)
    BY <1>1, <1>3 DEF KeepsTypes, TurnState, ProviderState
  <2>2. AdapterInv(r)'
    BY <1>1, <1>3, DevinAssumption DEF AdapterInv, OutputInv, StopProven, TurnState, ProviderState
  <2>3. ReplyInv(r)'
    BY RepliesIn, <1>1, <1>3 DEF ReplyInv, OutputInv, TurnState, ProviderState, Frames
  <2>4. OutputInv(r)'
    BY <1>1, <1>3 DEF OutputInv, TurnState, ProviderState
  <2>. QED  BY <2>2, <2>3, <2>4, <2>1 DEF TaskInv
<1>10. KeepsTypes(r) /\ TaskInv(r)'
  BY <1>1, <1>3 DEF DevinExits
<1>. QED  BY <1>2, <1>10, OneMoves

LEMMA CloseClientKeeps ==
  ASSUME DevinInv, NEW r \in Runs, CloseClient(r)
  PROVE  DevinInv'
<1>1. /\ turn \in [Runs -> TurnState] /\ devin \in [Runs -> ProviderState]
      /\ turn[r] \in TurnState /\ devin[r] \in ProviderState
      /\ AdapterInv(r) /\ ReplyInv(r) /\ OutputInv(r)
  BY DEF DevinInv, DevinTypeOK, TaskInv
<1>2. OnlyRun(r)
  BY <1>1 DEF OnlyRun, CloseClient, In, GroupGone
<1>3. ASSUME turn[r].stage = "close",
            NEW kept \in BOOLEAN, kept => turn[r].answered /\ devin'[r].process = "gone" /\ ~turn[r].cut,
            turn'[r] = [turn[r] EXCEPT !.stage = "relayStop", !.stopped = (devin'[r].process = "gone"),
                                       !.returns = kept],
            NEW after \in {devin[r].process, "gone"},
            devin'[r] = [devin[r] EXCEPT !.process = after, !.pipe = <<>>],
            active' = active
     PROVE  KeepsTypes(r) /\ TaskInv(r)'
  <2>1. KeepsTypes(r)
    <3>1. <<>> \in Seq({"delta", "ok", "bad"}) /\ after \in {"none", "alive", "gone"}
      BY <1>1, <1>3 DEF ProviderState
    <3>2. devin'[r] \in ProviderState
      BY <1>1, <1>3, <3>1 DEF ProviderState
    <3>3. (devin'[r].process = "gone") \in BOOLEAN
      OBVIOUS
    <3>4. turn'[r] \in TurnState
      BY <1>1, <1>3, <3>3 DEF TurnState
    <3>. QED  BY <3>2, <3>4 DEF KeepsTypes
  <2>2. AdapterInv(r)'
    BY <1>1, <1>3, DevinAssumption DEF AdapterInv, OutputInv, StopProven, TurnState, ProviderState
  <2>3. ReplyInv(r)'
    BY RepliesIn, <1>1, <1>3 DEF ReplyInv, OutputInv, TurnState, ProviderState, Frames
  <2>4. OutputInv(r)'
    BY <1>1, <1>3 DEF OutputInv, TurnState, ProviderState
  <2>. QED  BY <2>2, <2>3, <2>4, <2>1 DEF TaskInv
<1>10. KeepsTypes(r) /\ TaskInv(r)'
  <2>1. PICK after \in {devin[r].process, "gone"} :
          devin' = [devin EXCEPT ![r].process = after, ![r].pipe = <<>>]
    BY DEF CloseClient
  <2>2. Succeeded(r) \in BOOLEAN /\ (Succeeded(r) => turn[r].answered /\ devin'[r].process = "gone" /\ ~turn[r].cut)
    BY DEF Succeeded, GroupGone
  <2>3. /\ turn[r].stage = "close" /\ active' = active
        /\ turn'[r] = [turn[r] EXCEPT !.stage = "relayStop", !.stopped = (devin'[r].process = "gone"),
                                      !.returns = Succeeded(r)]
        /\ devin'[r] = [devin[r] EXCEPT !.process = after, !.pipe = <<>>]
    BY <1>1, <2>1 DEF CloseClient, In, GroupGone
  <2>. QED  BY <1>3, <2>2, <2>3
<1>. QED  BY <1>2, <1>10, OneMoves

LEMMA StopRelayKeeps ==
  ASSUME DevinInv, NEW r \in Runs, StopRelay(r)
  PROVE  DevinInv'
<1>1. /\ turn \in [Runs -> TurnState] /\ devin \in [Runs -> ProviderState]
      /\ turn[r] \in TurnState /\ devin[r] \in ProviderState
      /\ AdapterInv(r) /\ ReplyInv(r) /\ OutputInv(r)
  BY DEF DevinInv, DevinTypeOK, TaskInv
<1>2. OnlyRun(r)
  BY <1>1 DEF OnlyRun, StopRelay, In
<1>3. ASSUME turn[r].stage = "relayStop",
            turn'[r] = [turn[r] EXCEPT !.stage = "done", !.relay = IF @ = "up" THEN "closed" ELSE @,
                                       !.result = IF turn[r].returns THEN "completed" ELSE "failed"],
            devin'[r] = devin[r],
            active' = active
     PROVE  KeepsTypes(r) /\ TaskInv(r)'
  <2>1. KeepsTypes(r)
    BY <1>1, <1>3 DEF KeepsTypes, TurnState, ProviderState
  <2>2. AdapterInv(r)'
    BY <1>1, <1>3, DevinAssumption DEF AdapterInv, OutputInv, StopProven, TurnState, ProviderState
  <2>3. ReplyInv(r)'
    BY RepliesIn, <1>1, <1>3 DEF ReplyInv, OutputInv, TurnState, ProviderState, Frames
  <2>4. OutputInv(r)'
    BY <1>1, <1>3 DEF OutputInv, TurnState, ProviderState
  <2>. QED  BY <2>2, <2>3, <2>4, <2>1 DEF TaskInv
<1>10. KeepsTypes(r) /\ TaskInv(r)'
  BY <1>1, <1>3 DEF StopRelay, In
<1>. QED  BY <1>2, <1>10, OneMoves

LEMMA StopDevinKeeps ==
  ASSUME DevinInv, NEW r \in Runs, StopDevin(r)
  PROVE  DevinInv'
<1>1. /\ turn \in [Runs -> TurnState] /\ devin \in [Runs -> ProviderState]
      /\ turn[r] \in TurnState /\ devin[r] \in ProviderState
      /\ AdapterInv(r) /\ ReplyInv(r) /\ OutputInv(r)
  BY DEF DevinInv, DevinTypeOK, TaskInv
<1>2. OnlyRun(r)
  BY <1>1 DEF OnlyRun, StopDevin
<1>3. ASSUME turn[r].stage # "none",
            turn[r].stop = "none",
            turn'[r] = [turn[r] EXCEPT !.stop = "asked", !.aborted = TRUE],
            devin'[r] = devin[r],
            active' = active
     PROVE  KeepsTypes(r) /\ TaskInv(r)'
  <2>1. KeepsTypes(r)
    BY <1>1, <1>3 DEF KeepsTypes, TurnState, ProviderState
  <2>2. AdapterInv(r)'
    BY <1>1, <1>3, DevinAssumption DEF AdapterInv, OutputInv, StopProven, TurnState, ProviderState
  <2>3. ReplyInv(r)'
    BY RepliesIn, <1>1, <1>3 DEF ReplyInv, OutputInv, TurnState, ProviderState, Frames
  <2>4. OutputInv(r)'
    BY <1>1, <1>3 DEF OutputInv, TurnState, ProviderState
  <2>. QED  BY <2>2, <2>3, <2>4, <2>1 DEF TaskInv
<1>10. KeepsTypes(r) /\ TaskInv(r)'
  BY <1>1, <1>3 DEF StopDevin
<1>. QED  BY <1>2, <1>10, OneMoves

LEMMA StopAnswersKeeps ==
  ASSUME DevinInv, NEW r \in Runs, StopAnswers(r)
  PROVE  DevinInv'
<1>1. /\ turn \in [Runs -> TurnState] /\ devin \in [Runs -> ProviderState]
      /\ turn[r] \in TurnState /\ devin[r] \in ProviderState
      /\ AdapterInv(r) /\ ReplyInv(r) /\ OutputInv(r)
  BY DEF DevinInv, DevinTypeOK, TaskInv
<1>2. OnlyRun(r)
  BY <1>1 DEF OnlyRun, StopAnswers, In
<1>3. ASSUME turn[r].stage = "done",
            turn'[r] = [turn[r] EXCEPT !.stop = IF StopProven(r) THEN "evidence" ELSE "unproven"],
            devin'[r] = devin[r],
            active' = (IF StopProven(r) /\ active = r THEN NoRun ELSE active)
     PROVE  KeepsTypes(r) /\ TaskInv(r)'
  <2>1. KeepsTypes(r)
    BY <1>1, <1>3 DEF KeepsTypes, TurnState, ProviderState
  <2>2. AdapterInv(r)'
    BY <1>1, <1>3, DevinAssumption DEF AdapterInv, OutputInv, StopProven, TurnState, ProviderState
  <2>3. ReplyInv(r)'
    BY RepliesIn, <1>1, <1>3 DEF ReplyInv, OutputInv, TurnState, ProviderState, Frames
  <2>4. OutputInv(r)'
    BY <1>1, <1>3 DEF OutputInv, TurnState, ProviderState
  <2>. QED  BY <2>2, <2>3, <2>4, <2>1 DEF TaskInv
<1>10. KeepsTypes(r) /\ TaskInv(r)'
  BY <1>1, <1>3 DEF StopAnswers, In
<1>. QED  BY <1>2, <1>10, OneMoves


LEMMA DevinSendsKeeps ==
  ASSUME DevinInv, NEW r \in Runs, DevinSends(r)
  PROVE  DevinInv'
<1>1. /\ turn \in [Runs -> TurnState] /\ devin \in [Runs -> ProviderState]
      /\ turn[r] \in TurnState /\ devin[r] \in ProviderState
      /\ AdapterInv(r) /\ ReplyInv(r) /\ OutputInv(r)
  BY DEF DevinInv, DevinTypeOK, TaskInv
<1>2. OnlyRun(r)
  BY <1>1 DEF OnlyRun, DevinSends
<1>3. PICK f \in Frames :
        /\ IF f = "ok" THEN turn[r].stage = "request" /\ devin[r].replied < turn[r].step
                       ELSE devin[r].sent < MaxFrames
        /\ devin' = [devin EXCEPT
             ![r].pipe = Append(@, f),
             ![r].sent = IF f = "ok" THEN @ ELSE @ + 1,
             ![r].replied = IF f = "ok" THEN turn[r].step ELSE @,
             ![r].said = IF f = "delta" /\ devin[r].replied < Len(Requests) THEN @ + 1 ELSE @]
  BY DEF DevinSends, Frames, In
<1>4. /\ devin[r].process = "alive" /\ turn' = turn /\ active' = active
      /\ turn'[r] = turn[r] /\ Len(Requests) = 4
  BY DEF DevinSends, Requests
<1> DEFINE p == devin[r].pipe
           q == devin'[r].pipe
<1>5. /\ devin'[r].process = devin[r].process
      /\ q = Append(p, f)
      /\ devin'[r].sent = IF f = "ok" THEN devin[r].sent ELSE devin[r].sent + 1
      /\ devin'[r].replied = IF f = "ok" THEN turn[r].step ELSE devin[r].replied
      /\ devin'[r].said = IF f = "delta" /\ devin[r].replied < 4 THEN devin[r].said + 1 ELSE devin[r].said
  BY <1>1, <1>3, <1>4 DEF ProviderState
<1>6. /\ p \in Seq(Frames) /\ q \in Seq(Frames) /\ devin[r].said \in Nat /\ devin[r].sent \in Nat
      /\ devin[r].replied \in 0..4 /\ turn[r].step \in 1..4 /\ turn[r].out \in Nat
  BY <1>1, <1>5 DEF ProviderState, TurnState, Frames
<1>7. KeepsTypes(r)
  <2>1. devin'[r] = [devin[r] EXCEPT !.pipe = Append(@, f),
             !.sent = IF f = "ok" THEN @ ELSE @ + 1,
             !.replied = IF f = "ok" THEN turn[r].step ELSE @,
             !.said = IF f = "delta" /\ devin[r].replied < Len(Requests) THEN @ + 1 ELSE @]
    BY <1>1, <1>3
  <2>2. /\ Append(devin[r].pipe, f) \in Seq({"delta", "ok", "bad"})
        /\ (IF f = "ok" THEN devin[r].sent ELSE devin[r].sent + 1) \in Nat
        /\ (IF f = "ok" THEN turn[r].step ELSE devin[r].replied) \in 0..4
        /\ (IF f = "delta" /\ devin[r].replied < Len(Requests) THEN devin[r].said + 1 ELSE devin[r].said) \in Nat
    BY <1>6 DEF Frames
  <2>3. devin'[r] \in ProviderState
    BY <1>1, <2>1, <2>2 DEF ProviderState
  <2>. QED  BY <1>1, <1>4, <2>3 DEF KeepsTypes
<1>8. AdapterInv(r)'
  BY <1>1, <1>4, <1>5 DEF AdapterInv, StopProven
<1>9. ReplyInv(r)'
  <2> SUFFICES ASSUME turn[r].stage = "request"
      PROVE  \/ devin'[r].replied = turn[r].step - 1 /\ NoReply(q)
             \/ devin'[r].replied = turn[r].step /\ OneReply(q)
    BY <1>4 DEF ReplyInv
  <2>1. CASE f = "ok"
    <3>1. NoReply(p)
      BY <1>1, <1>3, <1>6, <2>1 DEF ReplyInv
    <3>. QED  BY <3>1, <2>1, <1>5, <1>6, RepliesIn
  <2>2. CASE f # "ok"
    <3>1. (NoReply(p) => NoReply(q)) /\ (OneReply(p) => OneReply(q))
      BY <2>2, <1>5, <1>6, RepliesIn
    <3>. QED  BY <3>1, <2>2, <1>1, <1>5 DEF ReplyInv
  <2>. QED  BY <2>1, <2>2
<1>10. OutputInv(r)'
  <2>1. ASSUME turn[r].stage = "request", ~turn[r].cut
        PROVE  Backed(q, turn[r].out, devin'[r].said, devin'[r].replied = 4)
    <3>1. Backed(p, turn[r].out, devin[r].said, devin[r].replied = 4)
      BY <1>1, <2>1 DEF OutputInv
    <3>2. CASE devin[r].replied = 4
      <4>1. f # "ok" /\ devin'[r].said = devin[r].said /\ devin'[r].replied = 4
        BY <3>2, <1>3, <1>5, <1>6
      <4>2. Backed(p, turn[r].out, devin[r].said, TRUE)
        BY <3>1, <3>2
      <4>3. Backed(Append(p, f), turn[r].out, devin[r].said, TRUE)
        BY <4>1, <4>2, <1>6, BackedSend
      <4>4. (devin'[r].replied = 4) = TRUE
        BY <4>1
      <4>. QED  BY <4>1, <4>3, <4>4, <1>5
    <3>3. CASE devin[r].replied # 4
      <4>1. Backed(p, turn[r].out, devin[r].said, FALSE)
        <5>1. (devin[r].replied = 4) = FALSE
          BY <3>3
        <5>. QED  BY <5>1, <3>1
      <4>2. CASE f # "ok"
        <5>1. Backed(Append(p, f), turn[r].out, devin[r].said + Weight(f), FALSE)
          BY <4>1, <1>6, BackedSend
        <5>2. devin'[r].said = devin[r].said + Weight(f) /\ (devin'[r].replied = 4) = FALSE
          BY <3>3, <4>2, <1>5, <1>6 DEF Weight
        <5>. QED  BY <5>1, <5>2, <1>5
      <4>3. CASE f = "ok"
        <5>1. NoReply(p)
          BY <1>1, <1>3, <1>6, <2>1, <4>3 DEF ReplyInv
        <5>2. /\ Backed(Append(p, f), turn[r].out, devin[r].said, TRUE)
              /\ Backed(Append(p, f), turn[r].out, devin[r].said + Weight(f), FALSE)
          BY <4>1, <4>3, <5>1, <1>6, BackedSend
        <5>3. devin'[r].said = devin[r].said /\ devin[r].said + Weight(f) = devin[r].said
          BY <4>3, <1>5, <1>6 DEF Weight
        <5>4. CASE devin'[r].replied = 4
          <6>1. (devin'[r].replied = 4) = TRUE
            BY <5>4
          <6>. QED  BY <6>1, <5>2, <5>3, <1>5
        <5>5. CASE devin'[r].replied # 4
          <6>1. (devin'[r].replied = 4) = FALSE
            BY <5>5
          <6>. QED  BY <6>1, <5>2, <5>3, <1>5
        <5>. QED  BY <5>4, <5>5
      <4>. QED  BY <4>2, <4>3
    <3>. QED  BY <3>2, <3>3
  <2>2. ASSUME turn[r].answered
        PROVE  devin'[r].replied = 4 /\ devin'[r].said = devin[r].said
    BY <2>2, <1>1, <1>3, <1>5, <1>6 DEF OutputInv
  <2>3. turn[r].stage \notin {"none", "admitted", "relay"}
    BY <1>1, <1>4 DEF AdapterInv
  <2>. QED  BY <2>1, <2>2, <2>3, <1>1, <1>4 DEF OutputInv
<1>. QED  BY <1>2, <1>7, <1>8, <1>9, <1>10, OneMoves DEF TaskInv

LEMMA ReadKeeps ==
  ASSUME DevinInv, NEW r \in Runs, Read(r)
  PROVE  DevinInv'
<1>1. /\ turn \in [Runs -> TurnState] /\ devin \in [Runs -> ProviderState]
      /\ turn[r] \in TurnState /\ devin[r] \in ProviderState
      /\ AdapterInv(r) /\ ReplyInv(r) /\ OutputInv(r)
  BY DEF DevinInv, DevinTypeOK, TaskInv
<1>2. OnlyRun(r)
  BY <1>1 DEF OnlyRun, Read, TakeDelta, TakeReply, ClientFails
<1> DEFINE p == devin[r].pipe
           f == Head(p)
<1>3. /\ turn[r].stage \in {"request", "close"} /\ p # <<>> /\ active' = active
      /\ devin'[r] = [devin[r] EXCEPT !.pipe = Tail(p)]
      /\ turn' = CASE f = "delta" -> TakeDelta(r)
                   [] f = "ok"    -> TakeReply(r)
                   [] OTHER       -> ClientFails(r)
  BY <1>1 DEF Read, In
<1>4. /\ p \in Seq(Frames) /\ f \in Frames /\ Tail(p) \in Seq(Frames)
      /\ devin[r].said \in Nat /\ turn[r].out \in Nat /\ turn[r].step \in 1..4
  BY <1>1, <1>3 DEF ProviderState, TurnState, Frames
<1>5. /\ devin'[r].pipe = Tail(p) /\ devin'[r].process = devin[r].process
      /\ devin'[r].said = devin[r].said /\ devin'[r].replied = devin[r].replied
      /\ devin'[r] \in ProviderState
  BY <1>1, <1>3, <1>4 DEF ProviderState, Frames
<1>6. Len(Requests) = 4
  BY DEF Requests
<1>7. ReplyInv(r) /\ turn[r].stage = "request" =>
        /\ f = "ok" => devin[r].replied = turn[r].step /\ NoReply(Tail(p))
        /\ f # "ok" =>
             \/ devin[r].replied = turn[r].step - 1 /\ NoReply(Tail(p))
             \/ devin[r].replied = turn[r].step /\ OneReply(Tail(p))
  <2>1. /\ NoReply(p) => NoReply(Tail(p)) /\ f # "ok"
        /\ OneReply(p) /\ f = "ok" => NoReply(Tail(p))
        /\ OneReply(p) /\ f # "ok" => OneReply(Tail(p))
    <3>1. p # <<>>
      BY DEF Read
    <3>2. p \in Seq(Frames)
      BY <1>4
    <3>. QED  BY <3>1, <3>2, RepliesIn DEF Frames
  <2>. QED  BY <2>1 DEF ReplyInv
<1>8. turn[r].stage = "request" /\ ~turn[r].cut =>
        /\ Backed(Tail(p), turn[r].out + Weight(f), devin[r].said, devin[r].replied = 4)
        /\ devin[r].replied = 4 /\ f = "ok" => devin[r].said <= turn[r].out
  BY <1>1, <1>3, <1>4, BackedRead DEF OutputInv
<1>9. CASE f = "delta" /\ DeltaFits(r)
  <2>1. turn'[r] = [turn[r] EXCEPT !.out = @ + 1]
    BY <1>1, <1>3, <1>9 DEF TakeDelta
  <2>2. turn'[r] \in TurnState
    BY <1>1, <2>1 DEF TurnState
  <2>3. Weight(f) = 1 /\ f # "ok" /\ ~turn[r].cut
    BY <1>9 DEF Weight, DeltaFits
  <2>4. AdapterInv(r)'
    BY <1>1, <1>3, <1>5, <2>1 DEF AdapterInv, StopProven, TurnState
  <2>5. ReplyInv(r)'
    BY <1>1, <1>5, <1>7, <2>1, <2>3 DEF ReplyInv, TurnState
  <2>6. /\ turn'[r].out = turn[r].out + 1 /\ turn[r].out \in Nat /\ devin[r].said \in Nat
        /\ UNCHANGED <<turn[r].cut, turn[r].stage, turn[r].answered, turn[r].result, turn[r].returns,
                       turn[r].stopped, turn[r].relay, turn[r].step>>
    BY <1>1, <2>1 DEF TurnState, ProviderState
  <2>7. OutputInv(r)'
    BY <1>1, <1>3, <1>5, <1>8, <2>3, <2>6 DEF OutputInv
  <2>. QED  BY <1>2, <1>5, <2>2, <2>4, <2>5, <2>7, OneMoves DEF TaskInv, KeepsTypes
<1>10. CASE f = "delta" /\ ~DeltaFits(r)
  <2>1. turn'[r] = [turn[r] EXCEPT !.cut = TRUE, !.aborted = TRUE]
    BY <1>1, <1>3, <1>10 DEF TakeDelta
  <2>2. turn'[r] \in TurnState
    BY <1>1, <2>1 DEF TurnState
  <2>3. f # "ok"
    BY <1>10
  <2>4. AdapterInv(r)'
    BY <1>1, <1>3, <1>5, <2>1 DEF AdapterInv, StopProven, TurnState
  <2>5. ReplyInv(r)'
    BY <1>1, <1>5, <1>7, <2>1, <2>3 DEF ReplyInv, TurnState
  <2>6. OutputInv(r)'
    BY <1>1, <1>3, <1>4, <1>5, <2>1, <2>3 DEF OutputInv, TurnState
  <2>. QED  BY <1>2, <1>5, <2>2, <2>4, <2>5, <2>6, OneMoves DEF TaskInv, KeepsTypes
<1>11. CASE f = "ok" /\ turn[r].stage = "request" /\ turn[r].step = 4
  <2>1. turn'[r] = [turn[r] EXCEPT !.stage = "close", !.answered = TRUE]
    BY <1>1, <1>3, <1>6, <1>11 DEF TakeReply, In
  <2>2. turn'[r] \in TurnState
    BY <1>1, <2>1 DEF TurnState
  <2>3. devin[r].replied = 4
    BY <1>1, <1>7, <1>11
  <2>4. AdapterInv(r)'
    BY <1>1, <1>3, <1>5, <2>1, <1>11 DEF AdapterInv, StopProven, TurnState
  <2>5. ReplyInv(r)'
    BY <1>1, <2>1 DEF ReplyInv, TurnState
  <2>6. turn[r].cut \/ devin[r].said <= turn[r].out
    BY <1>8, <1>11, <2>3
  <2>7. OutputInv(r)'
    BY <1>1, <1>3, <1>5, <1>11, <2>1, <2>3, <2>6 DEF OutputInv, TurnState
  <2>. QED  BY <1>2, <1>5, <2>2, <2>4, <2>5, <2>7, OneMoves DEF TaskInv, KeepsTypes
<1>12. CASE f = "ok" /\ turn[r].stage = "request" /\ turn[r].step # 4
  <2>1. turn'[r] = [turn[r] EXCEPT !.step = @ + 1]
    BY <1>1, <1>3, <1>6, <1>12 DEF TakeReply, In
  <2>2. turn'[r] \in TurnState
    <3>1. turn[r].step + 1 \in 1..4
      BY <1>4, <1>12
    <3>. QED  BY <1>1, <2>1, <3>1 DEF TurnState
  <2>3. Weight(f) = 0
    BY <1>12 DEF Weight
  <2>4. AdapterInv(r)'
    BY <1>1, <1>3, <1>5, <2>1, <1>12 DEF AdapterInv, StopProven, TurnState
  <2>5. ReplyInv(r)'
    <3>1. devin[r].replied = turn[r].step /\ NoReply(Tail(p)) /\ turn'[r].step = turn[r].step + 1
      BY <1>1, <1>7, <1>12, <2>1 DEF TurnState
    <3>2. devin'[r].replied = turn'[r].step - 1
      BY <3>1, <1>4, <1>5
    <3>. QED  BY <3>1, <3>2, <1>5 DEF ReplyInv
  <2>6. turn[r].out + Weight(f) = turn[r].out
    BY <2>3, <1>4
  <2>7. /\ turn[r].cut \/ Backed(Tail(p), turn[r].out, devin[r].said, devin[r].replied = 4)
        /\ turn'[r].cut = turn[r].cut /\ turn'[r].out = turn[r].out /\ turn'[r].stage = "request"
        /\ turn'[r].answered = turn[r].answered /\ turn'[r].result = turn[r].result
        /\ turn'[r].returns = turn[r].returns
    BY <1>1, <1>8, <1>12, <2>1, <2>6 DEF TurnState
  <2>8. OutputInv(r)'
    BY <1>1, <1>5, <1>12, <2>7 DEF OutputInv
  <2>. QED  BY <1>2, <1>5, <2>2, <2>4, <2>5, <2>8, OneMoves DEF TaskInv, KeepsTypes
<1>13. CASE (f = "ok" /\ turn[r].stage # "request") \/ (f = "bad" /\ turn[r].stage # "request")
  <2>1. turn'[r] = turn[r] /\ turn[r].stage = "close"
    BY <1>1, <1>3, <1>13 DEF TakeReply, ClientFails, In
  <2>2. AdapterInv(r)'
    BY <1>1, <1>3, <1>5, <2>1 DEF AdapterInv, StopProven
  <2>3. ReplyInv(r)'
    BY <2>1 DEF ReplyInv
  <2>4. OutputInv(r)'
    BY <1>1, <1>5, <2>1 DEF OutputInv
  <2>. QED  BY <1>1, <1>2, <1>5, <2>1, <2>2, <2>3, <2>4, OneMoves DEF TaskInv, KeepsTypes
<1>14. CASE f = "bad" /\ turn[r].stage = "request"
  <2>1. turn'[r] = [turn[r] EXCEPT !.stage = "close"]
    BY <1>1, <1>3, <1>14 DEF ClientFails, In
  <2>2. turn'[r] \in TurnState
    BY <1>1, <2>1 DEF TurnState
  <2>3. AdapterInv(r)'
    BY <1>1, <1>3, <1>5, <1>14, <2>1 DEF AdapterInv, StopProven, TurnState
  <2>4. ReplyInv(r)'
    BY <1>1, <2>1 DEF ReplyInv, TurnState
  <2>5. OutputInv(r)'
    BY <1>1, <1>3, <1>5, <1>14, <2>1 DEF OutputInv, TurnState
  <2>. QED  BY <1>2, <1>5, <2>2, <2>3, <2>4, <2>5, OneMoves DEF TaskInv, KeepsTypes
<1>. QED  BY <1>4, <1>9, <1>10, <1>11, <1>12, <1>13, <1>14 DEF Frames

LEMMA DevinStep == DevinInv /\ [DevinNext]_devinVars => DevinInv'
<1> SUFFICES ASSUME DevinInv, [DevinNext]_devinVars PROVE DevinInv'  OBVIOUS
<1>1. CASE UNCHANGED devinVars
  <2>1. DevinTypeOK'
    BY <1>1 DEF devinVars, DevinInv, DevinTypeOK
  <2>2. ASSUME NEW r \in Runs PROVE TaskInv(r)'
    <3>1. AdapterInv(r) /\ ReplyInv(r) /\ OutputInv(r) /\ UNCHANGED <<active, turn, devin>>
      BY <1>1 DEF devinVars, DevinInv, TaskInv
    <3>2. AdapterInv(r)'
      BY <3>1 DEF AdapterInv, StopProven
    <3>3. ReplyInv(r)'
      BY <3>1 DEF ReplyInv
    <3>4. OutputInv(r)'
      BY <3>1 DEF OutputInv
    <3>. QED  BY <3>2, <3>3, <3>4 DEF TaskInv
  <2>. QED  BY <2>1, <2>2 DEF DevinInv
<1>. QED
  BY <1>1, RunDevinKeeps, StartRelayKeeps, LaunchDevinKeeps, ExitSeenKeeps, AbortSeenKeeps, AbortDevinKeeps,
     DevinExitsKeeps, CloseClientKeeps, StopRelayKeeps, StopDevinKeeps, StopAnswersKeeps, DevinSendsKeeps,
     ReadKeeps DEF DevinNext, DevinHost

\* A completed turn has whole output, a turn answers once, and evidence of a stop
\* means the provider is gone (devin-adapter.ts: run, stop; devin-client.ts:
\* prompt, close).
THEOREM DevinKeeps == DevinSpec => []DevinKeepsItsWord
<1>1. ASSUME DevinInv PROVE DevinKeepsItsWord
  <2>1. ASSUME NEW r \in Runs PROVE AdapterInv(r) /\ OutputInv(r)
    BY <1>1 DEF DevinInv, TaskInv
  <2>2. ASSUME NEW r \in Runs, turn[r].result = "completed"
        PROVE  /\ devin[r].replied = Len(Requests) /\ turn[r].out >= devin[r].said
               /\ devin[r].process = "gone" /\ turn[r].relay # "up"
    <3>1. turn[r] \in TurnState /\ devin[r] \in ProviderState
      BY <1>1 DEF DevinInv, DevinTypeOK
    <3>2. Len(Requests) = 4
      BY DEF Requests
    <3>. QED  BY <2>1, <2>2, <3>1, <3>2 DEF AdapterInv, OutputInv, TurnState, ProviderState
  <2>3. ASSUME NEW r \in Runs, turn[r].stop = "evidence" PROVE devin[r].process # "alive"
    BY <2>1, <2>3 DEF AdapterInv, StopProven
  <2>4. ASSUME NEW r \in Runs, NEW q \in Runs, devin[r].process = "alive", devin[q].process = "alive"
        PROVE  r = q
    BY <2>1, <2>4 DEF AdapterInv
  <2>. QED  BY <2>2, <2>3, <2>4 DEF DevinKeepsItsWord
<1>. QED  BY InitDevin, DevinStep, <1>1, PTL DEF DevinSpec
-----------------------------------------------------------------------------
(* The release workflow.                                                   *)

JobSteps == {"github", "look", "find", "wait", "fill", "publish", "check", "latest", "pre", "state",
             "npm", "observe", "admit", "admitted", "failed"}
JobDraft == [files : [Files -> Nat], listed : BOOLEAN, public : BOOLEAN]
JobRun == [attempt : Builds, at : JobSteps, job : {"none", "github", "pre", "npm", "admit"}, art : Builds,
        built : Builds, cur : Nat, exit : BOOLEAN, pre : {"none", "absent", "exact_same_run"}, preAttempt : Nat,
        completion : {"none", "published", "observed_existing"}, completed : Nat]
JobVersion == [bytes : Nat, attempt : Nat, visible : BOOLEAN]
JobTypeOK ==
  /\ wf \in JobRun /\ drafts \in Seq(JobDraft) /\ npm \in JobVersion
  /\ flight \in [bytes : Nat, attempt : Nat] /\ tagOk \in BOOLEAN
  /\ (wf.at = "failed" => wf.job # "none")

\* A public release has every file of the build b.
Released(b) == \E d \in Public : \A f \in Files : drafts[d].files[f] = b

\* The job on GitHub publishes only when nothing is public, and a whole draft only.
DraftInv ==
  /\ wf.at \in {"find", "wait", "fill", "publish"} => Public = {}
  /\ wf.at \in {"fill", "publish"} => wf.cur \in DOMAIN drafts
  /\ wf.at = "publish" => Exact(wf.cur)
  /\ \A d \in Public : \E b \in Builds : \A f \in Files : drafts[d].files[f] = b
  /\ \A d, e \in Public : d = e

\* The jobs behind it run on what it released.
PastGitHub == \/ wf.at \in {"state", "npm", "observe", "admit", "admitted"}
              \/ wf.at = "failed" /\ wf.job \in {"npm", "admit"}

\* What npm holds or may come to hold of this run was released on GitHub.
NpmInv ==
  /\ PastGitHub => Released(wf.art)
  /\ flight.bytes # 0 => Released(flight.bytes)
  /\ npm.attempt > 0 => npm.bytes # 0 /\ Released(npm.bytes)
  /\ wf.at = "observe" /\ wf.exit => npm.attempt = wf.attempt /\ npm.bytes = wf.art
  /\ wf.completion = "published" => npm.attempt = wf.completed /\ npm.bytes = wf.art

JobInv == JobTypeOK /\ DraftInv /\ NpmInv

LEMMA InitJobs == JobInit => JobInv
<1> SUFFICES ASSUME JobInit PROVE JobInv
  OBVIOUS
<1>1. 1 \in Builds
  BY ReleaseJobsBounds DEF Builds
<1>2. JobTypeOK
  BY <1>1 DEF JobInit, JobTypeOK, JobRun, JobVersion, JobSteps, Missing
<1>3. Public = {}
  BY DEF JobInit, Public
<1>. QED  BY <1>2, <1>3 DEF JobInit, JobInv, DraftInv, NpmInv, PastGitHub, Missing

\* An action that leaves the releases as they are, or adds to what is not public.
LEMMA ReleasedStays ==
  ASSUME NEW b, Released(b), DOMAIN drafts \subseteq DOMAIN drafts',
         \A d \in Public : drafts'[d].public /\ drafts'[d].files = drafts[d].files
  PROVE  \E d \in Public' : \A f \in Files : drafts'[d].files[f] = b
<1>1. PICK d \in Public : \A f \in Files : drafts[d].files[f] = b
  BY DEF Released
<1>2. d \in Public'
  BY DEF Public
<1>. QED  BY <1>1, <1>2

\* The steps of the run: it moves on, or a throw ends its job.
LEMMA MoveType ==
  ASSUME wf \in JobRun, NEW to \in JobSteps, Step(to)
  PROVE  /\ wf' \in JobRun /\ wf'.at = to
         /\ wf'.attempt = wf.attempt /\ wf'.art = wf.art /\ wf'.cur = wf.cur /\ wf'.job = wf.job
         /\ wf'.exit = wf.exit /\ wf'.completion = wf.completion /\ wf'.completed = wf.completed
  BY DEF JobRun, Step

LEMMA ThrowType ==
  ASSUME wf \in JobRun, Running, Throw
  PROVE  /\ wf' \in JobRun /\ wf'.at = "failed"
         /\ wf'.attempt = wf.attempt /\ wf'.art = wf.art
         /\ wf'.completion = wf.completion /\ wf'.completed = wf.completed
         /\ wf'.job \in {"github", "pre", "npm", "admit"}
         /\ wf'.job \in {"npm", "admit"} => wf.at \in {"npm", "observe", "admit"}
<1>1. Job \in {"github", "pre", "npm", "admit"} /\ (Job \in {"npm", "admit"} => wf.at \in {"npm", "observe", "admit"})
  BY DEF JobRun, Job, JobSteps, Running
<1>. QED  BY <1>1 DEF JobRun, Throw, JobSteps

\* What an action must keep when it changes no release.
LEMMA SameDrafts ==
  ASSUME JobInv, UNCHANGED drafts, wf' \in JobRun,
         wf'.at \in {"find", "wait", "fill", "publish"} => Public = {},
         wf'.at \in {"fill", "publish"} => wf'.cur \in DOMAIN drafts,
         wf'.at = "publish" => \A f \in Files : drafts[wf'.cur].files[f] = wf'.art
  PROVE  DraftInv'
<1>1. Public' = Public
  BY DEF Public
<1>. QED  BY <1>1 DEF JobInv, DraftInv, Exact

LEMMA SameNpm ==
  ASSUME JobInv, UNCHANGED <<npm, flight>>, wf' \in JobRun,
         DOMAIN drafts \subseteq DOMAIN drafts',
         \A d \in Public : drafts'[d].public /\ drafts'[d].files = drafts[d].files,
         wf'.art = wf.art \/ wf'.at = "github",
         (PastGitHub)' => Released(wf.art),
         wf'.at = "observe" /\ wf'.exit => wf.at = "observe" /\ wf.exit /\ wf'.attempt = wf.attempt /\ wf'.art = wf.art,
         wf'.completion = "published" => \/ wf.completion = "published" /\ wf'.completed = wf.completed /\ wf'.art = wf.art
                                         \/ npm.attempt = wf'.completed /\ npm.bytes = wf'.art
  PROVE  NpmInv'
<1>1. \A b : Released(b) => \E d \in Public' : \A f \in Files : drafts'[d].files[f] = b
  BY ReleasedStays
<1>2. flight'.bytes # 0 => \E d \in Public' : \A f \in Files : drafts'[d].files[f] = flight'.bytes
  BY <1>1 DEF JobInv, NpmInv
<1>3. npm'.attempt > 0 => npm'.bytes # 0 /\ \E d \in Public' : \A f \in Files : drafts'[d].files[f] = npm'.bytes
  BY <1>1 DEF JobInv, NpmInv
<1>4. PastGitHub' => \E d \in Public' : \A f \in Files : drafts'[d].files[f] = wf'.art
  BY <1>1 DEF PastGitHub, JobRun
<1>5. wf'.at = "observe" /\ wf'.exit => npm'.attempt = wf'.attempt /\ npm'.bytes = wf'.art
  BY DEF JobInv, NpmInv
<1>6. wf'.completion = "published" => npm'.attempt = wf'.completed /\ npm'.bytes = wf'.art
  BY DEF JobInv, NpmInv
<1>. QED  BY <1>2, <1>3, <1>4, <1>5, <1>6 DEF NpmInv, Released

\* The job dies, or refuses.
LEMMA ThrowKeeps ==
  ASSUME JobInv, Running, Throw, UNCHANGED <<drafts, npm, flight, tagOk>>
  PROVE  JobInv'
<1>1. /\ wf' \in JobRun /\ wf'.at = "failed" /\ wf'.art = wf.art
      /\ wf'.completion = wf.completion /\ wf'.completed = wf.completed
      /\ wf'.job # "none"
      /\ wf'.job \in {"npm", "admit"} => wf.at \in {"npm", "observe", "admit"}
  BY ThrowType DEF JobInv, JobTypeOK
<1>2. DraftInv'
  BY <1>1, SameDrafts
<1>3. PastGitHub' => Released(wf.art)
  BY <1>1 DEF PastGitHub, JobInv, NpmInv
<1>4. NpmInv'
  BY <1>1, <1>3, SameNpm DEF Public
<1>. QED  BY <1>1, <1>2, <1>4 DEF JobInv, JobTypeOK

\* The run moves on and nothing else changes.
LEMMA MoveKeeps ==
  ASSUME JobInv, UNCHANGED <<drafts, npm, flight, tagOk>>, wf' \in JobRun, wf'.art = wf.art,
         wf'.at \in {"find", "wait", "fill", "publish"} => Public = {},
         wf'.at \in {"fill", "publish"} => wf'.cur \in DOMAIN drafts,
         wf'.at = "publish" => Exact(wf'.cur),
         (PastGitHub)' => Released(wf.art),
         wf'.at \notin {"observe", "failed"},
         wf'.completion = "published" => \/ wf.completion = "published" /\ wf'.completed = wf.completed
                                         \/ npm.attempt = wf'.completed /\ npm.bytes = wf'.art
  PROVE  JobInv'
<1>1. DraftInv'
  BY SameDrafts DEF Exact
<1>2. NpmInv'
  BY SameNpm DEF Public
<1>. QED  BY <1>1, <1>2 DEF JobInv, JobTypeOK

LEMMA FindKeeps ==
  ASSUME JobInv, VerifyRemoteAnnotatedTag \/ Look \/ FindDraft
  PROVE  JobInv'
<1>0. wf \in JobRun
  BY DEF JobInv, JobTypeOK
<1>1. CASE Throw /\ Running /\ UNCHANGED <<drafts, npm, flight, tagOk>>
  BY <1>1, ThrowKeeps
<1>2. CASE VerifyRemoteAnnotatedTag /\ Step("look")
  <2>1. wf' \in JobRun /\ wf'.at = "look" /\ wf'.art = wf.art /\ wf'.completion = wf.completion /\ wf'.completed = wf.completed
    BY <1>0, <1>2, MoveType DEF JobSteps
  <2>. QED  BY <1>2, <2>1, MoveKeeps DEF VerifyRemoteAnnotatedTag, PastGitHub
<1>3. CASE Look
  <2>1. PICK to \in {"check", "find"} : Step(to) /\ (to = "find" => Public = {})
    BY <1>3 DEF Look
  <2>2. wf' \in JobRun /\ wf'.at = to /\ wf'.art = wf.art /\ wf'.completion = wf.completion /\ wf'.completed = wf.completed
    BY <1>0, <2>1, MoveType DEF JobSteps
  <2>. QED  BY <1>3, <2>1, <2>2, MoveKeeps DEF Look, PastGitHub
<1>4. CASE FindDraft /\ \E d \in Listed : Found(d)
  <2>1. PICK d \in Listed : Found(d)
    BY <1>4
  <2>2. d \in DOMAIN drafts /\ d \in Nat
    BY <2>1 DEF Listed, JobInv, JobTypeOK
  <2>3. /\ wf' \in JobRun /\ wf'.at = "fill" /\ wf'.cur = d /\ wf'.art = wf.art
        /\ wf'.completion = wf.completion /\ wf'.completed = wf.completed
    BY <1>0, <2>1, <2>2 DEF Found, JobRun, JobSteps
  <2>4. Public = {}
    BY <1>4 DEF FindDraft, JobInv, DraftInv
  <2>. QED  BY <1>4, <2>2, <2>3, <2>4, MoveKeeps DEF FindDraft, PastGitHub
<1>. QED  BY <1>1, <1>2, <1>3, <1>4 DEF VerifyRemoteAnnotatedTag, Look, FindDraft, Running

LEMMA DraftPut ==
  ASSUME NEW s \in Seq(JobDraft), NEW d \in DOMAIN s, NEW x \in JobDraft, NEW t, t = [s EXCEPT ![d] = x]
  PROVE  /\ t \in Seq(JobDraft) /\ DOMAIN t = DOMAIN s /\ t[d] = x
         /\ \A e \in DOMAIN s : e # d => t[e] = s[e]
  OBVIOUS

LEMMA CreateDraftKeeps ==
  ASSUME JobInv, CreateDraft
  PROVE  JobInv'
<1> DEFINE new == [files |-> [f \in Files |-> NoFile], listed |-> FALSE, public |-> FALSE]
<1>0. wf \in JobRun /\ drafts \in Seq(JobDraft) /\ Public = {} /\ UNCHANGED <<npm, flight, tagOk>>
      /\ drafts' = Append(drafts, new) /\ wf.at = "find" /\ Running
  BY DEF CreateDraft, JobInv, JobTypeOK, DraftInv, Running
<1>1. new \in JobDraft /\ ~new.public
  BY DEF JobDraft, NoFile
<1>. HIDE DEF new
<1>2. drafts' \in Seq(JobDraft) /\ DOMAIN drafts \subseteq DOMAIN drafts' /\ \A d \in DOMAIN drafts' : d \in DOMAIN drafts \/ drafts'[d] = new
  BY <1>0, <1>1
<1>3. \A d \in DOMAIN drafts : drafts'[d] = drafts[d]
  BY <1>0
<1>4. Public' = {}
  BY <1>0, <1>1, <1>2, <1>3 DEF Public
<1>5. /\ wf' \in JobRun /\ wf'.at \in {"wait", "failed"} /\ wf'.art = wf.art
      /\ wf'.completion = wf.completion /\ wf'.completed = wf.completed
      /\ wf'.at = "failed" => wf'.job \in {"github", "pre"}
  <2>1. CASE Step("wait")
    BY <1>0, <2>1, MoveType DEF JobSteps
  <2>2. CASE Throw
    BY <1>0, <2>2, ThrowType
  <2>. QED  BY <2>1, <2>2 DEF CreateDraft
<1>6. DraftInv'
  BY <1>4, <1>5 DEF DraftInv
<1>7. ~PastGitHub'
  BY <1>5 DEF PastGitHub
<1>8. NpmInv'
  BY <1>0, <1>2, <1>5, <1>7, SameNpm
<1>. QED  BY <1>0, <1>2, <1>5, <1>6, <1>8 DEF JobInv, JobTypeOK

LEMMA FillKeeps ==
  ASSUME JobInv, CompleteDraftAssets
  PROVE  JobInv'
<1>0. /\ wf \in JobRun /\ drafts \in Seq(JobDraft) /\ Public = {} /\ UNCHANGED <<npm, flight, tagOk>>
      /\ wf.at = "fill" /\ Running /\ wf.cur \in DOMAIN drafts
  BY DEF CompleteDraftAssets, JobInv, JobTypeOK, DraftInv, Running
<1>1. CASE Throw /\ UNCHANGED drafts
  BY <1>0, <1>1, ThrowKeeps
<1>2. CASE Step("publish") /\ Exact(wf.cur) /\ UNCHANGED drafts
  <2>1. /\ wf' \in JobRun /\ wf'.at = "publish" /\ wf'.art = wf.art /\ wf'.cur = wf.cur
        /\ wf'.completion = wf.completion /\ wf'.completed = wf.completed
    BY <1>0, <1>2, MoveType DEF JobSteps
  <2>. QED  BY <1>0, <1>2, <2>1, MoveKeeps DEF PastGitHub, Exact
<1>3. ASSUME NEW f \in Files, NEW b \in Nat, drafts' = [drafts EXCEPT ![wf.cur].files[f] = b],
             UNCHANGED wf \/ Throw
      PROVE  JobInv'
  <2>1. drafts' \in Seq(JobDraft) /\ DOMAIN drafts' = DOMAIN drafts /\ \A d \in DOMAIN drafts : drafts'[d].public = drafts[d].public
    <3> DEFINE x == [drafts[wf.cur] EXCEPT !.files[f] = b]
    <3>0. drafts[wf.cur] \in JobDraft
      BY <1>0
    <3>1. x \in JobDraft /\ x.public = drafts[wf.cur].public
      BY <1>3, <3>0 DEF JobDraft
    <3>2. drafts' = [drafts EXCEPT ![wf.cur] = x]
      BY <1>3
    <3>. HIDE DEF x
    <3>. QED  BY <1>0, <3>1, <3>2, DraftPut
  <2>2. Public' = {}
    BY <1>0, <2>1 DEF Public
  <2>3. /\ wf' \in JobRun /\ wf'.at \in {"fill", "failed"} /\ wf'.art = wf.art
        /\ wf'.at = "fill" => wf'.cur = wf.cur
        /\ wf'.completion = wf.completion /\ wf'.completed = wf.completed
        /\ wf'.at = "failed" => wf'.job \in {"github", "pre"}
    <3>1. CASE UNCHANGED wf
      BY <1>0, <3>1
    <3>2. CASE Throw
      BY <1>0, <3>2, ThrowType
    <3>. QED  BY <1>3, <3>1, <3>2
  <2>4. DraftInv'
    BY <1>0, <2>1, <2>2, <2>3 DEF DraftInv
  <2>5. ~PastGitHub'
    BY <2>3 DEF PastGitHub
  <2>6. NpmInv'
    BY <1>0, <2>1, <2>3, <2>5, SameNpm
  <2>. QED  BY <1>0, <2>1, <2>3, <2>4, <2>6 DEF JobInv, JobTypeOK
<1>4. wf.art \in Nat /\ Starter \in Nat
  BY <1>0, ReleaseJobsBounds DEF JobRun, Builds, Starter
<1>. QED  BY <1>1, <1>2, <1>3, <1>4 DEF CompleteDraftAssets

LEMMA PublishKeeps ==
  ASSUME JobInv, PublishRelease
  PROVE  JobInv'
<1> DEFINE c == wf.cur
<1>0. /\ wf \in JobRun /\ drafts \in Seq(JobDraft) /\ Public = {} /\ UNCHANGED <<npm, flight, tagOk>>
      /\ wf.at = "publish" /\ Running /\ c \in DOMAIN drafts /\ Exact(c) /\ wf.art \in Builds
      /\ drafts' = [drafts EXCEPT ![c].public = TRUE]
  BY DEF PublishRelease, JobInv, JobTypeOK, DraftInv, Running, JobRun
<1>1. /\ drafts' \in Seq(JobDraft) /\ DOMAIN drafts' = DOMAIN drafts /\ drafts'[c].public
      /\ \A d \in DOMAIN drafts : drafts'[d].files = drafts[d].files /\ (d # c => drafts'[d].public = drafts[d].public)
  <2> DEFINE x == [drafts[c] EXCEPT !.public = TRUE]
  <2>0. drafts[c] \in JobDraft
    BY <1>0
  <2>1. x \in JobDraft /\ x.public = TRUE /\ x.files = drafts[c].files
    BY <2>0 DEF JobDraft
  <2>2. drafts' = [drafts EXCEPT ![c] = x]
    BY <1>0
  <2>. HIDE DEF x
  <2>3. /\ drafts' \in Seq(JobDraft) /\ DOMAIN drafts' = DOMAIN drafts /\ drafts'[c] = x
        /\ \A d \in DOMAIN drafts : d # c => drafts'[d] = drafts[d]
    BY <1>0, <2>1, <2>2, DraftPut
  <2>. QED  BY <2>1, <2>3
<1>. HIDE DEF c
<1>2. Public' = {c}
  BY <1>0, <1>1 DEF Public
<1>3. /\ wf' \in JobRun /\ wf'.at \in {"check", "failed"} /\ wf'.art = wf.art
      /\ wf'.completion = wf.completion /\ wf'.completed = wf.completed
      /\ wf'.at = "failed" => wf'.job \in {"github", "pre"}
  <2>1. CASE Step("check")
    BY <1>0, <2>1, MoveType DEF JobSteps
  <2>2. CASE Throw
    BY <1>0, <2>2, ThrowType
  <2>. QED  BY <2>1, <2>2 DEF PublishRelease
<1>4. \A f \in Files : drafts'[c].files[f] = wf.art
  BY <1>0, <1>1 DEF Exact
<1>5. DraftInv'
  BY <1>0, <1>2, <1>3, <1>4 DEF DraftInv
<1>6. ~PastGitHub'
  BY <1>3 DEF PastGitHub
<1>7. NpmInv'
  BY <1>0, <1>1, <1>3, <1>6, SameNpm
<1>. QED  BY <1>0, <1>1, <1>3, <1>5, <1>7 DEF JobInv, JobTypeOK

LEMMA VerifyKeeps ==
  ASSUME JobInv, VerifyPublished \/ VerifyLatest \/ CheckGitHubRelease
  PROVE  JobInv'
<1>0. wf \in JobRun
  BY DEF JobInv, JobTypeOK
<1>1. CASE Throw /\ Running /\ UNCHANGED <<drafts, npm, flight, tagOk>>
  BY <1>1, ThrowKeeps
<1>2. CASE VerifyPublished /\ Step("latest")
  <2>1. wf' \in JobRun /\ wf'.at = "latest" /\ wf'.art = wf.art /\ wf'.completion = wf.completion /\ wf'.completed = wf.completed
    BY <1>0, <1>2, MoveType DEF JobSteps
  <2>. QED  BY <1>2, <2>1, MoveKeeps DEF VerifyPublished, PastGitHub
<1>3. CASE VerifyLatest /\ wf' = [wf EXCEPT !.at = "pre", !.cur = 0]
  <2>1. wf' \in JobRun /\ wf'.at = "pre" /\ wf'.art = wf.art /\ wf'.completion = wf.completion /\ wf'.completed = wf.completed
    BY <1>0, <1>3 DEF JobRun, JobSteps
  <2>. QED  BY <1>3, <2>1, MoveKeeps DEF VerifyLatest, PastGitHub
<1>4. CASE CheckGitHubRelease /\ Step("state") /\ GitHubParity
  <2>1. wf' \in JobRun /\ wf'.at = "state" /\ wf'.art = wf.art /\ wf'.completion = wf.completion /\ wf'.completed = wf.completed
    BY <1>0, <1>4, MoveType DEF JobSteps
  <2>2. Released(wf.art)
    <3>1. PICK d \in Public : SameReviewed(d, wf.art)
      BY <1>4 DEF GitHubParity
    <3>2. PICK b \in Builds : \A f \in Files : drafts[d].files[f] = b
      BY DEF JobInv, DraftInv
    <3>3. b = wf.art
      BY <3>1, <3>2, ReviewedFiles DEF SameReviewed
    <3>. QED  BY <3>2, <3>3 DEF Released
  <2>. QED  BY <1>4, <2>1, <2>2, MoveKeeps DEF CheckGitHubRelease
<1>. QED  BY <1>1, <1>2, <1>3, <1>4 DEF VerifyPublished, VerifyLatest, CheckGitHubRelease, Running

LEMMA NpmMoveKeeps ==
  ASSUME JobInv, CheckRetryState \/ ObserveExisting \/ RefuseWriter \/ ObservePublished \/ Admit
  PROVE  JobInv'
<1>0. wf \in JobRun /\ wf.attempt \in Nat
  BY ReleaseJobsBounds DEF JobInv, JobTypeOK, JobRun, Builds
<1>1. CASE Throw /\ Running /\ UNCHANGED <<drafts, npm, flight, tagOk>>
  BY <1>1, ThrowKeeps
<1>2. UNCHANGED <<drafts, npm, flight, tagOk>> /\ Released(wf.art) /\ Running
  BY DEF CheckRetryState, ObserveExisting, RefuseWriter, ObservePublished, Admit, JobInv, NpmInv, PastGitHub, Running
<1>3. ASSUME NEW p \in {"absent", "exact_same_run"},
             wf' = [wf EXCEPT !.at = "npm", !.pre = p, !.preAttempt = wf.attempt]
      PROVE  JobInv'
  <2>1. wf' \in JobRun /\ wf'.at = "npm" /\ wf'.art = wf.art /\ wf'.completion = wf.completion /\ wf'.completed = wf.completed
    BY <1>0, <1>3 DEF JobRun, JobSteps
  <2>. QED  BY <1>2, <2>1, MoveKeeps
<1>4. ASSUME \/ Complete("observed_existing")
             \/ Complete("published") /\ npm.attempt = wf.attempt /\ npm.bytes = wf.art
      PROVE  JobInv'
  <2>1. /\ wf' \in JobRun /\ wf'.at = "admit" /\ wf'.art = wf.art /\ wf'.completed = wf.attempt
        /\ wf'.completion = "published" => npm.attempt = wf.attempt /\ npm.bytes = wf.art
    BY <1>0, <1>4 DEF Complete, JobRun, JobSteps
  <2>. QED  BY <1>2, <2>1, MoveKeeps
<1>5. CASE Step("admitted")
  <2>1. wf' \in JobRun /\ wf'.at = "admitted" /\ wf'.art = wf.art /\ wf'.completion = wf.completion /\ wf'.completed = wf.completed
    BY <1>0, <1>5, MoveType DEF JobSteps
  <2>. QED  BY <1>2, <2>1, MoveKeeps
<1>6. ObservePublished /\ MineOK => npm.attempt = wf.attempt /\ npm.bytes = wf.art
  BY DEF ObservePublished, MineOK, JobInv, NpmInv
<1>7. CASE CheckRetryState
  BY <1>1, <1>2, <1>3, <1>7 DEF CheckRetryState
<1>8. CASE ObserveExisting \/ RefuseWriter
  <2>1. Throw \/ Complete("observed_existing")
    BY <1>8 DEF ObserveExisting, RefuseWriter
  <2>. QED  BY <1>1, <1>2, <1>4, <2>1
<1>9. CASE ObservePublished
  BY <1>1, <1>2, <1>4, <1>6, <1>9 DEF ObservePublished
<1>10. CASE Admit
  BY <1>1, <1>2, <1>5, <1>10 DEF Admit
<1>. QED  BY <1>7, <1>8, <1>9, <1>10

LEMMA PublishTarballKeeps ==
  ASSUME JobInv, PublishTarball
  PROVE  JobInv'
<1>0. /\ wf \in JobRun /\ wf.attempt \in Nat /\ wf.art \in Nat \ {0} /\ wf.art \in Nat /\ npm \in JobVersion
      /\ flight \in [bytes : Nat, attempt : Nat] /\ Released(wf.art) /\ UNCHANGED <<drafts, tagOk>>
      /\ Public' = Public
  <2>1. wf \in JobRun /\ npm \in JobVersion /\ flight \in [bytes : Nat, attempt : Nat] /\ UNCHANGED <<drafts, tagOk>>
    BY DEF PublishTarball, JobInv, JobTypeOK
  <2>2. wf.attempt \in Nat /\ wf.art \in Nat \ {0} /\ wf.art \in Nat
    BY <2>1, ReleaseJobsBounds DEF JobRun, Builds
  <2>3. Released(wf.art)
    BY DEF PublishTarball, JobInv, NpmInv, PastGitHub
  <2>4. Public' = Public
    BY <2>1 DEF Public
  <2>. QED  BY <2>1, <2>2, <2>3, <2>4
<1>1. PICK exit \in BOOLEAN :
        /\ wf' = [wf EXCEPT !.at = "observe", !.exit = exit]
        /\ exit => npm' = [bytes |-> wf.art, attempt |-> wf.attempt, visible |-> FALSE]
  BY DEF PublishTarball
<1>2. /\ wf' \in JobRun /\ wf'.at = "observe" /\ wf'.exit = exit /\ wf'.attempt = wf.attempt /\ wf'.art = wf.art
      /\ wf'.completion = wf.completion /\ wf'.completed = wf.completed
  BY <1>0, <1>1 DEF JobRun, JobSteps
<1>3. DraftInv'
  BY <1>0, <1>2, SameDrafts
<1>4. \/ npm' = npm
      \/ npm.bytes = 0 /\ npm' = [bytes |-> wf.art, attempt |-> wf.attempt, visible |-> FALSE]
  BY DEF PublishTarball
<1>5. flight' = flight \/ flight' = [bytes |-> wf.art, attempt |-> wf.attempt]
  BY DEF PublishTarball
<1>6. npm' \in JobVersion /\ flight' \in [bytes : Nat, attempt : Nat]
  <2>1. [bytes |-> wf.art, attempt |-> wf.attempt, visible |-> FALSE] \in JobVersion
    BY <1>0 DEF JobVersion
  <2>2. [bytes |-> wf.art, attempt |-> wf.attempt] \in [bytes : Nat, attempt : Nat]
    BY <1>0
  <2>. QED  BY <1>0, <1>4, <1>5, <2>1, <2>2
<1>7. wf'.completion = "published" => npm'.attempt = wf'.completed /\ npm'.bytes = wf'.art
  BY <1>0, <1>2, <1>4 DEF JobInv, NpmInv
<1>8. (flight'.bytes # 0 => Released(flight'.bytes)) /\ (npm'.attempt > 0 => npm'.bytes # 0 /\ Released(npm'.bytes))
  BY <1>0, <1>4, <1>5 DEF JobInv, NpmInv
<1>9. exit => npm'.attempt = wf'.attempt /\ npm'.bytes = wf'.art
  BY <1>1, <1>2
<1>10. NpmInv'
  BY <1>0, <1>2, <1>7, <1>8, <1>9 DEF NpmInv, Released
<1>. QED  BY <1>0, <1>2, <1>3, <1>6, <1>10 DEF JobInv, JobTypeOK

LEMMA RerunKeeps ==
  ASSUME JobInv, RerunFailed \/ RerunAll
  PROVE  JobInv'
<1>0. wf \in JobRun /\ wf.attempt \in Builds /\ wf.attempt \in Nat /\ wf.attempt < MaxAttempts
      /\ wf.at = "failed" /\ UNCHANGED <<drafts, npm, flight, tagOk>>
  BY DEF RerunFailed, RerunAll, JobInv, JobTypeOK, JobRun, Builds
<1>1. wf.attempt + 1 \in Builds
  BY <1>0, ReleaseJobsBounds DEF Builds
<1>2. CASE RerunFailed
  <2>1. wf.job \in {"github", "pre", "npm", "admit"}
    BY <1>0 DEF JobInv, JobTypeOK, JobRun
  <2>2. /\ wf' \in JobRun /\ wf'.at = wf.job /\ wf'.art = wf.art
        /\ wf'.completion = wf.completion /\ wf'.completed = wf.completed
    BY <1>0, <1>1, <1>2, <2>1 DEF RerunFailed, JobRun, JobSteps
  <2>3. PastGitHub' => Released(wf.art)
    BY <1>0, <2>1, <2>2 DEF PastGitHub, JobInv, NpmInv
  <2>. QED  BY <1>0, <2>1, <2>2, <2>3, MoveKeeps
<1>3. CASE RerunAll
  <2>1. wf' \in JobRun /\ wf'.at = "github" /\ wf'.completion = "none"
    BY <1>0, <1>1, <1>3 DEF RerunAll, JobRun, JobSteps
  <2>2. DraftInv'
    BY <1>0, <2>1, SameDrafts
  <2>3. ~PastGitHub'
    BY <2>1 DEF PastGitHub
  <2>4. NpmInv'
    BY <1>0, <2>1, <2>3, SameNpm DEF Public
  <2>. QED  BY <1>0, <2>1, <2>2, <2>4 DEF JobInv, JobTypeOK
<1>. QED  BY <1>2, <1>3

\* GitHub, the registry and others.
LEMMA OutsideKeeps ==
  ASSUME JobInv, DraftListed \/ PublishLands \/ NpmReadable \/ Foreign
  PROVE  JobInv'
<1>0. wf \in JobRun /\ drafts \in Seq(JobDraft) /\ npm \in JobVersion /\ UNCHANGED wf /\ wf.art \in Nat \ {0}
  BY DEF DraftListed, PublishLands, NpmReadable, Foreign, JobInv, JobTypeOK, JobRun, Builds
<1>1. CASE DraftListed
  <2>1. PICK d \in DOMAIN drafts : drafts' = [drafts EXCEPT ![d].listed = TRUE]
    BY <1>1 DEF DraftListed
  <2>2. /\ drafts' \in Seq(JobDraft) /\ DOMAIN drafts' = DOMAIN drafts
        /\ \A e \in DOMAIN drafts : drafts'[e].files = drafts[e].files /\ drafts'[e].public = drafts[e].public
    <3> DEFINE x == [drafts[d] EXCEPT !.listed = TRUE]
    <3>0. drafts[d] \in JobDraft
      BY <1>0
    <3>1. x \in JobDraft /\ x.public = drafts[d].public /\ x.files = drafts[d].files
      BY <3>0 DEF JobDraft
    <3>2. drafts' = [drafts EXCEPT ![d] = x]
      BY <2>1
    <3>. HIDE DEF x
    <3>3. /\ drafts' \in Seq(JobDraft) /\ DOMAIN drafts' = DOMAIN drafts /\ drafts'[d] = x
          /\ \A e \in DOMAIN drafts : e # d => drafts'[e] = drafts[e]
      BY <1>0, <3>1, <3>2, DraftPut
    <3>. QED  BY <3>1, <3>3
  <2>3. Public' = Public
    BY <2>2 DEF Public
  <2>4. DraftInv'
    <3>1. \A e \in Public : e \in DOMAIN drafts /\ drafts'[e].files = drafts[e].files
      BY <2>2 DEF Public
    <3>2. wf.at = "publish" => \A f \in Files : drafts'[wf.cur].files[f] = wf.art
      BY <2>2 DEF JobInv, DraftInv, Exact
    <3>. QED  BY <1>0, <2>2, <2>3, <3>1, <3>2 DEF JobInv, DraftInv, Exact
  <2>5. PastGitHub' => Released(wf.art)
    BY <1>0 DEF PastGitHub, JobInv, NpmInv
  <2>6. NpmInv'
    <3>1. UNCHANGED <<npm, flight>> /\ \A e \in Public : drafts'[e].public /\ drafts'[e].files = drafts[e].files
      BY <1>1, <2>2 DEF DraftListed, Public
    <3>. QED  BY <1>0, <2>2, <2>5, <3>1, SameNpm
  <2>. QED  BY <1>0, <1>1, <2>2, <2>4, <2>6 DEF JobInv, JobTypeOK, DraftListed
<1>2. CASE UNCHANGED drafts
  <2>1. Public' = Public
    BY <1>2 DEF Public
  <2>2. DraftInv'
    BY <1>0, <1>2, SameDrafts DEF JobInv, DraftInv, Exact
  <2>3. /\ npm' \in JobVersion /\ flight' \in [bytes : Nat, attempt : Nat] /\ tagOk' \in BOOLEAN
        /\ flight'.bytes # 0 => Released(flight'.bytes)
        /\ npm'.attempt > 0 => npm'.bytes # 0 /\ Released(npm'.bytes)
        /\ npm.bytes # 0 => npm'.bytes = npm.bytes /\ npm'.attempt = npm.attempt
    <3>1. CASE DraftListed
      BY <1>2, <3>1 DEF DraftListed, JobInv, JobTypeOK, NpmInv
    <3>2. CASE PublishLands
      BY <3>2 DEF PublishLands, JobInv, JobTypeOK, NpmInv, JobVersion
    <3>3. CASE NpmReadable
      BY <3>3 DEF NpmReadable, JobInv, JobTypeOK, NpmInv, JobVersion
    <3>4. CASE Foreign
      <4>1. npm' = npm \/ (npm.bytes = 0 /\ \E b \in Builds : npm' = [bytes |-> b, attempt |-> 0, visible |-> TRUE])
        BY <3>4 DEF Foreign
      <4>2. npm' \in JobVersion
        <5>1. \A b \in Builds : [bytes |-> b, attempt |-> 0, visible |-> TRUE] \in JobVersion
          BY ReleaseJobsBounds DEF JobVersion, Builds
        <5>. QED  BY <1>0, <4>1, <5>1
      <4>3. UNCHANGED flight /\ tagOk' \in BOOLEAN
        BY <3>4 DEF Foreign, JobInv, JobTypeOK
      <4>. QED  BY <4>1, <4>2, <4>3 DEF JobInv, JobTypeOK, NpmInv
    <3>. QED  BY <3>1, <3>2, <3>3, <3>4
  <2>4. PastGitHub' => Released(wf.art)
    BY <1>0 DEF PastGitHub, JobInv, NpmInv
  <2>5. /\ wf.at = "observe" /\ wf.exit => npm'.attempt = wf.attempt /\ npm'.bytes = wf.art
        /\ wf.completion = "published" => npm'.attempt = wf.completed /\ npm'.bytes = wf.art
    BY <1>0, <2>3 DEF JobInv, NpmInv
  <2>6. NpmInv'
    BY <1>0, <1>2, <2>1, <2>3, <2>4, <2>5 DEF NpmInv, Released
  <2>. QED  BY <1>0, <1>2, <2>2, <2>3, <2>6 DEF JobInv, JobTypeOK
<1>. QED  BY <1>1, <1>2 DEF PublishLands, NpmReadable, Foreign

LEMMA JobsKeep == JobInv /\ [JobNext]_releaseVars => JobInv'
<1> SUFFICES ASSUME JobInv, [JobNext]_releaseVars PROVE JobInv'
  OBVIOUS
<1>1. CASE UNCHANGED releaseVars
  <2>1. UNCHANGED <<wf, drafts, npm, flight, tagOk>>
    BY <1>1 DEF releaseVars
  <2>. QED  BY <2>1 DEF JobInv, JobTypeOK, DraftInv, NpmInv, Exact, Public, PastGitHub, Released
<1>2. CASE GitHubJob
  BY <1>2, FindKeeps, CreateDraftKeeps, FillKeeps, PublishKeeps, VerifyKeeps DEF GitHubJob
<1>3. CASE NpmJobs
  BY <1>3, VerifyKeeps, NpmMoveKeeps, PublishTarballKeeps DEF NpmJobs
<1>4. CASE JobDies
  BY <1>4, ThrowKeeps DEF JobDies
<1>5. CASE RerunFailed \/ RerunAll
  BY <1>5, RerunKeeps
<1>6. CASE DraftListed \/ PublishLands \/ NpmReadable \/ Foreign
  BY <1>6, OutsideKeeps
<1>. QED  BY <1>1, <1>2, <1>3, <1>4, <1>5, <1>6 DEF JobNext

\* What becomes immutable is whole, the registries agree, and a writer that reports
\* "published" names the attempt whose publish npm applied, whatever dies and is
\* run again (.github/workflows/release.yml; publish-github-release.ts;
\* publish-npm-release.ts).
THEOREM RegistriesAgree == JobSpec => []ReleasesAgree
<1>1. JobInv => ReleasesAgree
  BY DEF JobInv, DraftInv, NpmInv, ReleasesAgree, Released
<1>. QED  BY <1>1, InitJobs, JobsKeep, PTL DEF JobSpec
-----------------------------------------------------------------------------
(* The chat sessions.                                                      *)

ChatSteps == {"prompt", "attempt", "running", "record", "append", "torn", "dead"}
Writing == {"append", "torn"}
ChatTypeOK ==
  /\ row \in BOOLEAN /\ turns \in Nat /\ lines \in Nat /\ removal \in {"no", "deleted", "done"}
  /\ at \in [Terminals -> ChatSteps] /\ entries \in [Terminals -> {0, 1, 2}]
  /\ written \in [Terminals -> Nat]
  /\ (row => removal = "no")

\* Every counted entry has a line of its own, and so has every entry that an
\* unfinished append has written and not counted yet: T are the lines of the
\* former, L[t] those of the latter.
Backs(T, L) ==
  /\ T \subseteq 1..lines /\ Cardinality(T) = turns
  /\ \A t \in Terminals : at[t] \in Writing =>
       L[t] \subseteq 1..lines /\ Cardinality(L[t]) = written[t] /\ L[t] \cap T = {}
  /\ \A t, u \in Terminals : t # u /\ at[t] \in Writing /\ at[u] \in Writing => L[t] \cap L[u] = {}
LinesBacked == \E T \in SUBSET (1..lines), L \in [Terminals -> SUBSET (1..lines)] : Backs(T, L)
ChatInv == ChatTypeOK /\ (row => LinesBacked)

LEMMA InitChat == ChatInit => ChatInv
<1> SUFFICES ASSUME ChatInit PROVE ChatInv
  OBVIOUS
<1>1. ChatTypeOK
  BY DEF ChatInit, ChatTypeOK, ChatSteps
<1>2. Backs({}, [t \in Terminals |-> {}])
  BY FS_EmptySet DEF ChatInit, Backs, Writing
<1>3. LinesBacked
  <2>1. {} \in SUBSET (1..lines) /\ [t \in Terminals |-> {}] \in [Terminals -> SUBSET (1..lines)]
    OBVIOUS
  <2>. QED  BY <1>2, <2>1 DEF LinesBacked
<1>. QED  BY <1>1, <1>3 DEF ChatInv

\* The lines of counted entries, and those of entries to be counted, stay while
\* nobody writes and nobody counts; an append begins with none.
LEMMA LinesStay ==
  ASSUME ChatInv, UNCHANGED <<turns, lines>>, row' => row,
         \A t \in Terminals : at'[t] \in Writing =>
           written'[t] = 0 \/ (at[t] \in Writing /\ written'[t] = written[t])
  PROVE  row' => LinesBacked'
<1> SUFFICES ASSUME row' PROVE LinesBacked'
  OBVIOUS
<1>1. PICK T \in SUBSET (1..lines), L \in [Terminals -> SUBSET (1..lines)] : Backs(T, L)
  BY DEF ChatInv, LinesBacked
<1> DEFINE M == [t \in Terminals |-> IF written'[t] = 0 THEN {} ELSE L[t]]
<1>2. M \in [Terminals -> SUBSET (1..lines)]
      /\ \A t \in Terminals : (M[t] = {} /\ written'[t] = 0) \/ (M[t] = L[t] /\ written'[t] # 0)
  <2>1. \A t \in Terminals : L[t] \in SUBSET (1..lines) /\ {} \in SUBSET (1..lines)
    BY <1>1
  <2>. QED  BY <2>1
<1>3. Cardinality({}) = 0
  BY FS_EmptySet
<1>. HIDE DEF M
<1>4. ASSUME NEW t \in Terminals, at'[t] \in Writing
      PROVE  M[t] \subseteq 1..lines /\ Cardinality(M[t]) = written'[t] /\ M[t] \cap T = {}
  BY <1>1, <1>2, <1>3, <1>4 DEF Backs
<1>5. ASSUME NEW t \in Terminals, NEW u \in Terminals, t # u, at'[t] \in Writing, at'[u] \in Writing
      PROVE  M[t] \cap M[u] = {}
  BY <1>1, <1>2, <1>5 DEF Backs
<1>6. T \subseteq 1..lines /\ Cardinality(T) = turns
  BY <1>1 DEF Backs
<1>7. \E U \in SUBSET (1..lines'), N \in [Terminals -> SUBSET (1..lines')] : Backs(U, N)'
  <2>1. ASSUME NEW U, NEW N, U = T, N = M PROVE Backs(U, N)'
    BY <1>4, <1>5, <1>6, <2>1 DEF Backs
  <2>. QED  BY <1>1, <1>2, <2>1
<1>. QED  BY <1>7 DEF LinesBacked

\* An entry that is written gets the new line.
LEMMA WriteKeepsLines ==
  ASSUME ChatInv, NEW t \in Terminals, at[t] \in Writing, at'[t] \in Writing,
         \A u \in Terminals \ {t} : at'[u] = at[u] /\ written'[u] = written[u],
         written'[t] = written[t] + 1, lines' = lines + 1, UNCHANGED <<row, turns>>
  PROVE  row' => LinesBacked'
<1> SUFFICES ASSUME row PROVE LinesBacked'
  OBVIOUS
<1>1. lines \in Nat /\ lines' \in Nat /\ written[t] \in Nat
  BY DEF ChatInv, ChatTypeOK
<1>2. PICK T \in SUBSET (1..lines), L \in [Terminals -> SUBSET (1..lines)] : Backs(T, L)
  BY DEF ChatInv, LinesBacked
<1> DEFINE new == L[t] \cup {lines + 1}
           M == [L EXCEPT ![t] = new]
<1>3. 1..lines \subseteq 1..lines' /\ lines + 1 \in 1..lines' /\ lines + 1 \notin 1..lines
  BY <1>1
<1>4. Cardinality(new) = written'[t]
  <2>1. IsFiniteSet(L[t])
    <3>1. IsFiniteSet(1..lines)
      BY <1>1, FS_Interval
    <3>. QED  BY <1>2, <3>1, FS_Subset
  <2>2. Cardinality(new) = Cardinality(L[t]) + 1
    <3>1. lines + 1 \notin L[t]
      BY <1>2, <1>3
    <3>. QED  BY <2>1, <3>1, FS_AddElement
  <2>3. Cardinality(L[t]) = written[t]
    BY <1>2 DEF Backs
  <2>. QED  BY <2>2, <2>3
<1>5. M \in [Terminals -> SUBSET (1..lines')] /\ M[t] = new
      /\ \A u \in Terminals : u # t => M[u] = L[u]
  BY <1>2, <1>3
<1>. HIDE DEF M
<1>6. ASSUME NEW u \in Terminals, at'[u] \in Writing
      PROVE  M[u] \subseteq 1..lines' /\ Cardinality(M[u]) = written'[u] /\ M[u] \cap T = {}
  BY <1>2, <1>3, <1>4, <1>5, <1>6 DEF Backs
<1>7. ASSUME NEW u \in Terminals, NEW v \in Terminals, u # v, at'[u] \in Writing, at'[v] \in Writing
      PROVE  M[u] \cap M[v] = {}
  BY <1>2, <1>3, <1>5, <1>7 DEF Backs
<1>8. T \subseteq 1..lines' /\ Cardinality(T) = turns'
  BY <1>2, <1>3 DEF Backs
<1>9. \E U \in SUBSET (1..lines'), N \in [Terminals -> SUBSET (1..lines')] : Backs(U, N)'
  <2>1. ASSUME NEW U, NEW N, U = T, N = M PROVE Backs(U, N)'
    BY <1>6, <1>7, <1>8, <2>1 DEF Backs
  <2>. QED  BY <1>5, <1>8, <2>1
<1>. QED  BY <1>9 DEF LinesBacked

LEMMA DisjointSum ==
  ASSUME NEW S, NEW R, IsFiniteSet(S), IsFiniteSet(R), S \cap R = {}
  PROVE  Cardinality(S \cup R) = Cardinality(S) + Cardinality(R)
<1>1. Cardinality(S \cup R) = Cardinality(S) + Cardinality(R) - Cardinality(S \cap R)
  BY FS_Union
<1>2. Cardinality(S \cap R) = 0
  BY FS_EmptySet
<1>3. Cardinality(S) \in Nat /\ Cardinality(R) \in Nat
  BY FS_CardinalityType
<1>. QED  BY <1>1, <1>2, <1>3

LEMMA CountKeepsLines ==
  ASSUME ChatInv, NEW t \in Terminals, RecordUpdate(t)
  PROVE  row' => LinesBacked'
<1> SUFFICES ASSUME row PROVE LinesBacked'
  BY DEF RecordUpdate
<1>1. /\ lines \in Nat /\ turns \in Nat /\ at[t] \in Writing /\ written[t] = entries[t]
      /\ at' = [at EXCEPT ![t] = "prompt"] /\ UNCHANGED <<lines, written>>
      /\ turns' = IF MeasureOK THEN turns + entries[t] ELSE turns
  BY DEF ChatInv, ChatTypeOK, RecordUpdate, Now, Writing, transcriptVars
<1>2. PICK T \in SUBSET (1..lines), L \in [Terminals -> SUBSET (1..lines)] : Backs(T, L)
  BY DEF ChatInv, LinesBacked
<1>3. \A u \in Terminals : at'[u] \in Writing => u # t /\ at[u] \in Writing
  BY <1>1 DEF ChatInv, ChatTypeOK, Writing
<1>4. CASE ~MeasureOK
  <2>1. Backs(T, L)'
    BY <1>1, <1>2, <1>3, <1>4 DEF Backs
  <2>. QED  BY <1>1, <2>1 DEF LinesBacked
<1>5. CASE MeasureOK
  <2> DEFINE U == T \cup L[t]
  <2>1. IsFiniteSet(T) /\ IsFiniteSet(L[t])
    <3>1. IsFiniteSet(1..lines)
      BY <1>1, FS_Interval
    <3>. QED  BY <1>2, <3>1, FS_Subset
  <2>2. Cardinality(L[t]) = entries[t] /\ L[t] \cap T = {} /\ T \cap L[t] = {} /\ Cardinality(T) = turns
    BY <1>1, <1>2 DEF Backs
  <2>3. Cardinality(U) = turns + entries[t]
    <3>1. Cardinality(U) = Cardinality(T) + Cardinality(L[t])
      BY <2>1, <2>2, DisjointSum
    <3>. QED  BY <2>2, <3>1
  <2>4. U \subseteq 1..lines /\ \A u \in Terminals : at'[u] \in Writing => L[u] \cap U = {}
    BY <1>1, <1>2, <1>3 DEF Backs
  <2>. HIDE DEF U
  <2>5. Backs(U, L)'
    BY <1>1, <1>2, <1>3, <1>5, <2>3, <2>4 DEF Backs
  <2>. QED  BY <1>1, <1>2, <2>4, <2>5 DEF LinesBacked
<1>. QED  BY <1>4, <1>5

LEMMA ChatStep == ChatInv /\ [ChatNext]_chatVars => ChatInv'
<1> SUFFICES ASSUME ChatInv, [ChatNext]_chatVars PROVE ChatInv'
  OBVIOUS
<1> USE DEF ChatTypeOK, ChatSteps, Now, rowVars, transcriptVars
<1>1. CASE UNCHANGED chatVars
  BY <1>1 DEF chatVars, ChatInv, LinesBacked, Backs
<1>2. ASSUME NEW t \in Terminals,
             ReadPrior(t) \/ Attempt(t) \/ RunThrows(t) \/ AppendFails(t) \/ Killed(t)
                \/ (\E answered \in BOOLEAN : RunReturns(t, answered))
      PROVE  ChatInv'
  <2>1. ChatTypeOK'
    BY <1>2 DEF ChatInv, ReadPrior, Attempt, RunThrows, AppendFails, Killed, RunReturns
  <2>2. /\ UNCHANGED <<turns, lines, row, written>>
        /\ \A u \in Terminals : at'[u] \in Writing => at[u] \in Writing
    BY <1>2 DEF ChatInv, ReadPrior, Attempt, RunThrows, AppendFails, Killed, RunReturns, Writing
  <2>. QED  BY <2>1, <2>2, LinesStay DEF ChatInv
<1>3. ASSUME NEW t \in Terminals, RecordGet(t) PROVE ChatInv'
  <2>1. ChatTypeOK'
    BY <1>3 DEF ChatInv, RecordGet
  <2>2. /\ UNCHANGED <<turns, lines, row>> /\ written'[t] = 0
        /\ \A u \in Terminals \ {t} : at'[u] = at[u] /\ written'[u] = written[u]
    BY <1>3 DEF ChatInv, RecordGet
  <2>. QED  BY <2>1, <2>2, LinesStay DEF ChatInv
<1>4. ASSUME NEW t \in Terminals, RecordAppend(t) \/ AppendRest(t) PROVE ChatInv'
  <2>1. ChatTypeOK'
    BY <1>4 DEF ChatInv, RecordAppend, AppendRest
  <2>2. /\ at[t] \in Writing /\ at'[t] \in Writing
        /\ \A u \in Terminals \ {t} : at'[u] = at[u] /\ written'[u] = written[u]
        /\ written'[t] = written[t] + 1 /\ lines' = lines + 1 /\ UNCHANGED <<row, turns>>
    BY <1>4 DEF ChatInv, RecordAppend, AppendRest, Writing
  <2>. QED  BY <2>1, <2>2, WriteKeepsLines DEF ChatInv
<1>5. ASSUME NEW t \in Terminals, AppendCut(t) PROVE ChatInv'
  <2>1. ChatTypeOK'
    BY <1>5 DEF ChatInv, AppendCut
  <2>2. /\ UNCHANGED <<turns, lines, row, written>>
        /\ \A u \in Terminals : at'[u] \in Writing => at[u] \in Writing
    BY <1>5 DEF ChatInv, AppendCut, Writing
  <2>. QED  BY <2>1, <2>2, LinesStay DEF ChatInv
<1>6. ASSUME NEW t \in Terminals, RecordUpdate(t) PROVE ChatInv'
  <2>1. ChatTypeOK'
    BY <1>6 DEF ChatInv, RecordUpdate
  <2>. QED  BY <1>6, <2>1, CountKeepsLines DEF ChatInv
<1>7. CASE RemoveRow \/ RemoveFile
  <2>1. CASE RemoveRow
    BY <2>1 DEF ChatInv, RemoveRow
  <2>2. CASE RemoveFile
    BY <2>2 DEF ChatInv, RemoveFile
  <2>. QED  BY <1>7, <2>1, <2>2
<1>. QED  BY <1>1, <1>2, <1>3, <1>4, <1>5, <1>6, <1>7 DEF ChatNext

\* A transcript that reads back holds every entry the registry counts, whatever is
\* torn, fails, dies or is removed between the steps of the terminals
\* (sessions.ts: record, remove, transcript).
THEOREM TurnsAreBacked == ChatSpec => []TranscriptBacksTurns
<1>1. ChatInv => TranscriptBacksTurns
  <2> SUFFICES ASSUME ChatInv, row PROVE turns <= lines
    BY DEF TranscriptBacksTurns
  <2>1. PICK T \in SUBSET (1..lines), L \in [Terminals -> SUBSET (1..lines)] : Backs(T, L)
    BY DEF ChatInv, LinesBacked
  <2>2. lines \in Nat /\ IsFiniteSet(1..lines) /\ Cardinality(1..lines) = lines
    <3>1. lines \in Nat /\ lines \in Int
      BY DEF ChatInv, ChatTypeOK
    <3>. QED  BY <3>1, FS_Interval
  <2>3. Cardinality(T) <= Cardinality(1..lines)
    BY <2>1, <2>2, FS_Subset
  <2>. QED  BY <2>1, <2>2, <2>3 DEF Backs
<1>. QED  BY InitChat, ChatStep, <1>1, PTL DEF ChatSpec
-----------------------------------------------------------------------------
(* The private files.                                                      *)

\* What the variables hold.
InodeState == [data : Seq(Texts), links : Int, ctime : Nat]
KeeperState ==
  [at : {"idle", "exists", "write", "failed", "stored", "absent", "remove", "removed"}, inode : Nat, version : Texts]
ReaderState ==
  [for : {"exact", "pinned", "artifact", "vault"},
   at : {"begin", "env", "none", "stat", "read", "after", "name", "refused", "accepted", "judge", "mismatch"},
   inode : Nat, size : Nat, ctime : Nat, got : Seq(Texts)]
FileTypeOK ==
  /\ folder \in [name : Nat, used : Nat] /\ folder.name <= folder.used /\ folder.used <= MaxFiles
  /\ inode \in [1..MaxFiles -> InodeState]
  /\ keeper \in [Keepers -> KeeperState] /\ reader \in ReaderState
  /\ \A k \in Keepers : keeper[k].at = "write" => keeper[k].inode \in 1..MaxFiles

\* What the reader got is the head of its file, unless the file changed since its
\* first stat: then its ctime did, too.
HeadOf(s, t) == Len(s) <= Len(t) /\ \A i \in 1..Len(s) : s[i] = t[i]
ReaderInv ==
  /\ reader.at \in {"stat", "read", "after", "name"} => reader.inode \in 1..folder.used
  /\ reader.at \in {"begin", "stat"} => reader.got = <<>>
  /\ reader.at = "name" => reader.for \in ByName
  /\ reader.at \in {"read", "after", "name"} =>
       /\ reader.ctime <= File.ctime
       /\ reader.ctime = File.ctime => Len(File.data) = reader.size /\ HeadOf(reader.got, File.data)
FileInv == FileTypeOK /\ ReaderInv

\* A step of somebody who is not the reader: every file that was there has its
\* contents, or a later ctime.
InodesMove ==
  /\ folder' \in [name : Nat, used : Nat] /\ folder'.name <= folder'.used /\ folder'.used <= MaxFiles
  /\ folder.used <= folder'.used
  /\ inode' \in [1..MaxFiles -> InodeState]
  /\ \A i \in 1..folder.used :
       (inode'[i].data = inode[i].data /\ inode'[i].ctime = inode[i].ctime) \/ inode'[i].ctime > inode[i].ctime
KeepersMove ==
  /\ keeper' \in [Keepers -> KeeperState]
  /\ \A k \in Keepers : keeper'[k].at = "write" => keeper'[k].inode \in 1..MaxFiles

LEMMA OthersKeep ==
  ASSUME FileInv, InodesMove, KeepersMove, UNCHANGED reader
  PROVE  FileInv'
<1>1. FileTypeOK'
  BY DEF FileInv, FileTypeOK, InodesMove, KeepersMove
<1>2. ReaderInv'
  <2>1. folder.used \in Nat /\ folder'.used \in Nat /\ folder.used <= folder'.used /\ folder.used <= MaxFiles
    BY DEF FileInv, FileTypeOK, InodesMove
  <2>2. reader.at \in {"stat", "read", "after", "name"} => reader.inode \in 1..folder'.used
    BY <2>1 DEF FileInv, ReaderInv, FileTypeOK, ReaderState
  <2>3. ASSUME reader.at \in {"read", "after", "name"}
        PROVE  /\ reader.ctime <= inode'[reader.inode].ctime
               /\ reader.ctime = inode'[reader.inode].ctime =>
                    /\ Len(inode'[reader.inode].data) = reader.size
                    /\ HeadOf(reader.got, inode'[reader.inode].data)
    <3> DEFINE i == reader.inode
    <3>1. i \in 1..folder.used /\ i \in 1..MaxFiles
      BY <2>1, <2>3, PrivateFileAssumption DEF FileInv, ReaderInv
    <3>2. inode[i].ctime \in Nat /\ inode'[i].ctime \in Nat /\ reader.ctime \in Nat
      BY <3>1 DEF FileInv, FileTypeOK, InodesMove, InodeState, ReaderState
    <3>3. /\ reader.ctime <= inode[i].ctime
          /\ reader.ctime = inode[i].ctime => Len(inode[i].data) = reader.size /\ HeadOf(reader.got, inode[i].data)
      BY <2>3 DEF FileInv, ReaderInv, File
    <3>4. (inode'[i].data = inode[i].data /\ inode'[i].ctime = inode[i].ctime) \/ inode'[i].ctime > inode[i].ctime
      BY <3>1 DEF InodesMove
    <3>. HIDE DEF i
    <3>5. CASE inode'[i].ctime > inode[i].ctime
      BY <3>2, <3>3, <3>5 DEF i
    <3>6. CASE inode'[i].data = inode[i].data /\ inode'[i].ctime = inode[i].ctime
      BY <3>3, <3>6 DEF i
    <3>. QED  BY <3>4, <3>5, <3>6
  <2>. QED  BY <2>2, <2>3 DEF FileInv, ReaderInv, File
<1>. QED  BY <1>1, <1>2 DEF FileInv

\* One file is changed, which moves its ctime.
LEMMA ChangedInode ==
  ASSUME FileInv, NEW i \in 1..MaxFiles, NEW r, r.data \in Seq(Texts), r.links \in Int, r.ctime = inode[i].ctime,
         r = [data |-> r.data, links |-> r.links, ctime |-> r.ctime]
  PROVE  /\ Changed(i, r) \in [1..MaxFiles -> InodeState]
         /\ Changed(i, r)[i].ctime > inode[i].ctime /\ \A k \in 1..MaxFiles : k # i => Changed(i, r)[k] = inode[k]
<1>1. inode \in [1..MaxFiles -> InodeState] /\ inode[i].ctime \in Nat
  BY DEF FileInv, FileTypeOK, InodeState
<1>2. [r EXCEPT !.ctime = r.ctime + 1] = [data |-> r.data, links |-> r.links, ctime |-> r.ctime + 1]
  OBVIOUS
<1>3. r.ctime + 1 \in Nat /\ r.ctime + 1 > inode[i].ctime
  BY <1>1
<1>4. [r EXCEPT !.ctime = r.ctime + 1] \in InodeState
  BY <1>2, <1>3 DEF InodeState
<1>5. Changed(i, r) = [inode EXCEPT ![i] = [r EXCEPT !.ctime = r.ctime + 1]]
  BY DEF Changed
<1>6. Changed(i, r)[i] = [data |-> r.data, links |-> r.links, ctime |-> r.ctime + 1]
  BY <1>1, <1>2, <1>5
<1>. QED  BY <1>1, <1>3, <1>4, <1>5, <1>6

LEMMA FileTypes ==
  ASSUME FileInv
  PROVE  /\ folder \in [name : Nat, used : Nat] /\ folder.name <= folder.used /\ folder.used <= MaxFiles
         /\ inode \in [1..MaxFiles -> InodeState] /\ keeper \in [Keepers -> KeeperState] /\ reader \in ReaderState
         /\ folder.name # 0 => folder.name \in 1..MaxFiles
         /\ \A i \in 1..folder.used : i \in 1..MaxFiles
BY PrivateFileAssumption DEF FileInv, FileTypeOK

\* A file that somebody changes, and the others that stay as they are.
LEMMA OneInodeMoves ==
  ASSUME FileInv, NEW i \in 1..MaxFiles, NEW r, r.data \in Seq(Texts), r.links \in Int, r.ctime = inode[i].ctime,
         r = [data |-> r.data, links |-> r.links, ctime |-> r.ctime],
         inode' = Changed(i, r), folder' \in [name : Nat, used : Nat], folder'.name <= folder'.used,
         folder'.used = folder.used
  PROVE  InodesMove
<1>1. /\ inode' \in [1..MaxFiles -> InodeState]
      /\ inode'[i].ctime > inode[i].ctime /\ \A k \in 1..MaxFiles : k # i => inode'[k] = inode[k]
  BY ChangedInode
<1>. QED  BY <1>1, FileTypes DEF InodesMove

LEMMA CreateKeeps ==
  ASSUME FileInv, NEW k \in Keepers, NEW v \in Texts, CreateOnce(k, v)
  PROVE  FileInv'
<1>1. keeper[k] \in KeeperState /\ keeper[k].at = "idle" /\ UNCHANGED <<inode, reader>>
  BY FileTypes DEF CreateOnce
<1>2. CASE folder.name # 0
  <2>1. keeper' = [keeper EXCEPT ![k].at = "exists"] /\ UNCHANGED folder
    BY <1>2 DEF CreateOnce
  <2>2. KeepersMove
    BY <2>1, <1>1, FileTypes DEF FileInv, FileTypeOK, KeepersMove, KeeperState
  <2>3. InodesMove
    BY <1>1, <2>1, FileTypes DEF InodesMove
  <2>. QED  BY <1>1, <2>2, <2>3, OthersKeep
<1>3. CASE folder.name = 0
  <2>1. /\ folder.used < MaxFiles
        /\ folder' = [name |-> folder.used + 1, used |-> folder.used + 1]
        /\ keeper' = [keeper EXCEPT ![k] = [at |-> "write", inode |-> folder.used + 1, version |-> v]]
    BY <1>3 DEF CreateOnce
  <2>2. folder.used + 1 \in Nat /\ folder.used + 1 \in 1..MaxFiles
    BY <2>1, FileTypes, PrivateFileAssumption
  <2>3. KeepersMove
    BY <2>1, <2>2, FileTypes DEF FileInv, FileTypeOK, KeepersMove, KeeperState
  <2>4. InodesMove
    BY <1>1, <2>1, <2>2, FileTypes DEF InodesMove
  <2>. QED  BY <1>1, <2>3, <2>4, OthersKeep
<1>. QED  BY <1>2, <1>3

LEMMA WriteKeeps ==
  ASSUME FileInv, NEW k \in Keepers, WriteParts(k)
  PROVE  FileInv'
<1> DEFINE i == keeper[k].inode
           s == inode[i].data
<1>1. keeper[k] \in KeeperState /\ keeper[k].at = "write" /\ i \in 1..MaxFiles /\ UNCHANGED <<folder, reader>>
  BY FileTypes DEF WriteParts, FileInv, FileTypeOK
<1>2. inode[i] \in InodeState /\ s \in Seq(Texts)
  BY <1>1, FileTypes DEF InodeState
<1>3. CASE \E n \in 1..Parts : inode' = Changed(i, [inode[i] EXCEPT !.data = s \o [j \in 1..n |-> keeper[k].version]])
           /\ UNCHANGED keeper
  <2>1. PICK n \in 1..Parts : inode' = Changed(i, [inode[i] EXCEPT !.data = s \o [j \in 1..n |-> keeper[k].version]])
                              /\ UNCHANGED keeper
    BY <1>3
  <2> DEFINE d == s \o [j \in 1..n |-> keeper[k].version]
             r == [inode[i] EXCEPT !.data = d]
  <2>2. n \in Nat /\ [j \in 1..n |-> keeper[k].version] \in Seq(Texts)
    BY <1>1, PrivateFileAssumption DEF KeeperState
  <2>3. d \in Seq(Texts) /\ inode' = Changed(i, r)
    BY <1>2, <2>1, <2>2
  <2>. HIDE DEF d
  <2>4. r.data \in Seq(Texts) /\ r.links \in Int /\ r.ctime = inode[i].ctime
        /\ r = [data |-> r.data, links |-> r.links, ctime |-> r.ctime]
    <3>. HIDE DEF i, s
    <3>1. r = [data |-> d, links |-> inode[i].links, ctime |-> inode[i].ctime]
      BY <1>2 DEF InodeState
    <3>2. inode[i].links \in Int
      BY <1>2 DEF InodeState
    <3>. HIDE DEF r
    <3>. QED  BY <2>3, <3>1, <3>2
  <2>5. InodesMove
    <3>1. inode' = Changed(i, r)
      BY <2>3
    <3>. HIDE DEF r, i
    <3>. QED  BY <1>1, <2>4, <3>1, FileTypes, OneInodeMoves
  <2>6. KeepersMove
    BY <2>1 DEF FileInv, FileTypeOK, KeepersMove
  <2>. QED  BY <1>1, <2>5, <2>6, OthersKeep
<1>4. CASE UNCHANGED inode /\ keeper' = [keeper EXCEPT ![k].at = IF Len(s) < Parts THEN "failed" ELSE "stored"]
  <2>1. KeepersMove
    BY <1>1, <1>4, FileTypes DEF FileInv, FileTypeOK, KeepersMove, KeeperState
  <2>2. InodesMove
    BY <1>1, <1>4, FileTypes DEF InodesMove
  <2>. QED  BY <1>1, <2>1, <2>2, OthersKeep
<1>. QED  BY <1>3, <1>4 DEF WriteParts

LEMMA RemoveLooksKeeps ==
  ASSUME FileInv, NEW k \in Keepers, RemoveLooks(k)
  PROVE  FileInv'
<1>1. keeper[k] \in KeeperState /\ UNCHANGED <<folder, inode, reader>>
      /\ keeper' = [keeper EXCEPT ![k].at = IF folder.name = 0 THEN "absent" ELSE "remove"]
  BY FileTypes DEF RemoveLooks
<1>2. KeepersMove
  BY <1>1, FileTypes DEF FileInv, FileTypeOK, KeepersMove, KeeperState
<1>3. InodesMove
  BY <1>1, FileTypes DEF InodesMove
<1>. QED  BY <1>1, <1>2, <1>3, OthersKeep

\* The name loses its file.
LEMMA UnlinkedInode ==
  ASSUME FileInv, folder.name # 0
  PROVE  /\ Unlinked(folder.name) \in [1..MaxFiles -> InodeState]
         /\ Unlinked(folder.name)[folder.name].ctime > inode[folder.name].ctime
         /\ \A k \in 1..MaxFiles : k # folder.name => Unlinked(folder.name)[k] = inode[k]
<1> DEFINE i == folder.name
           r == [inode[i] EXCEPT !.links = @ - 1]
<1>1. i \in 1..MaxFiles /\ inode[i] \in InodeState
  BY FileTypes
<1>2. inode[i].links - 1 \in Int
  BY <1>1 DEF InodeState
<1>3. r.data \in Seq(Texts) /\ r.links \in Int /\ r.ctime = inode[i].ctime
      /\ r = [data |-> r.data, links |-> r.links, ctime |-> r.ctime]
  BY <1>1, <1>2 DEF InodeState
<1>4. Unlinked(i) = Changed(i, r)
  BY DEF Unlinked
<1>. HIDE DEF r
<1>. QED  BY <1>1, <1>3, <1>4, ChangedInode

LEMMA RemoveActsKeeps ==
  ASSUME FileInv, NEW k \in Keepers, RemoveActs(k)
  PROVE  FileInv'
<1>1. keeper[k] \in KeeperState /\ UNCHANGED reader
  BY FileTypes DEF RemoveActs
<1>2. CASE folder.name = 0
  <2>1. keeper' = [keeper EXCEPT ![k].at = "failed"] /\ UNCHANGED <<folder, inode>>
    BY <1>2 DEF RemoveActs
  <2>2. KeepersMove
    BY <1>1, <2>1, FileTypes DEF FileInv, FileTypeOK, KeepersMove, KeeperState
  <2>3. InodesMove
    BY <2>1, FileTypes DEF InodesMove
  <2>. QED  BY <1>1, <2>2, <2>3, OthersKeep
<1>3. CASE folder.name # 0
  <2>1. /\ keeper' = [keeper EXCEPT ![k].at = "removed"] /\ inode' = Unlinked(folder.name)
        /\ folder' = [folder EXCEPT !.name = 0]
    BY <1>3 DEF RemoveActs
  <2>2. KeepersMove
    BY <1>1, <2>1, FileTypes DEF FileInv, FileTypeOK, KeepersMove, KeeperState
  <2>3. InodesMove
    BY <1>3, <2>1, FileTypes, UnlinkedInode DEF InodesMove
  <2>. QED  BY <1>1, <2>2, <2>3, OthersKeep
<1>. QED  BY <1>2, <1>3

LEMMA TouchedInode ==
  ASSUME NEW f \in InodeState,
         NEW g \in {[f EXCEPT !.links = @ + 1]}
                   \cup {[f EXCEPT !.data = SubSeq(@, 1, n)] : n \in 0..(Len(f.data) - 1)}
                   \cup {[f EXCEPT !.data[j] = v] : j \in DOMAIN f.data, v \in Texts}
  PROVE  /\ g.data \in Seq(Texts) /\ g.links \in Int /\ g.ctime = f.ctime
         /\ g = [data |-> g.data, links |-> g.links, ctime |-> g.ctime]
<1>1. f.data \in Seq(Texts) /\ f.links \in Int /\ f.links + 1 \in Int
  BY DEF InodeState
<1>2. ASSUME NEW d \in Seq(Texts), g = [f EXCEPT !.data = d]
      PROVE  /\ g.data \in Seq(Texts) /\ g.links \in Int /\ g.ctime = f.ctime
             /\ g = [data |-> g.data, links |-> g.links, ctime |-> g.ctime]
  BY <1>1, <1>2 DEF InodeState
<1>3. CASE g = [f EXCEPT !.links = f.links + 1]
  BY <1>1, <1>3 DEF InodeState
<1>4. CASE g \in {[f EXCEPT !.data = SubSeq(@, 1, n)] : n \in 0..(Len(f.data) - 1)}
  <2>1. PICK n \in 0..(Len(f.data) - 1) : g = [f EXCEPT !.data = SubSeq(f.data, 1, n)]
    BY <1>4
  <2>2. SubSeq(f.data, 1, n) \in Seq(Texts)
    <3>1. Len(f.data) \in Nat /\ n \in Nat /\ n <= Len(f.data)
      BY <1>1, <2>1
    <3>. QED  BY <1>1, <3>1
  <2> DEFINE d == SubSeq(f.data, 1, n)
  <2>3. d \in Seq(Texts) /\ g = [f EXCEPT !.data = d]
    BY <2>1, <2>2
  <2>. HIDE DEF d
  <2>. QED  BY <1>2, <2>3
<1>5. CASE g \in {[f EXCEPT !.data[j] = v] : j \in DOMAIN f.data, v \in Texts}
  <2>1. PICK j \in DOMAIN f.data, v \in Texts : g = [f EXCEPT !.data = [f.data EXCEPT ![j] = v]]
    BY <1>5
  <2> DEFINE d == [f.data EXCEPT ![j] = v]
  <2>2. d \in Seq(Texts) /\ g = [f EXCEPT !.data = d]
    BY <1>1, <2>1
  <2>. HIDE DEF d
  <2>. QED  BY <1>2, <2>2
<1>. QED  BY <1>3, <1>4, <1>5

LEMMA TouchKeeps ==
  ASSUME FileInv, Touch
  PROVE  FileInv'
<1> DEFINE f == inode[folder.name]
<1>1. folder.name \in 1..MaxFiles /\ f \in InodeState /\ UNCHANGED <<folder, keeper, reader>>
  BY FileTypes DEF Touch
<1>2. PICK g \in {[f EXCEPT !.links = @ + 1]}
                 \cup {[f EXCEPT !.data = SubSeq(@, 1, n)] : n \in 0..(Len(f.data) - 1)}
                 \cup {[f EXCEPT !.data[j] = v] : j \in DOMAIN f.data, v \in Texts} :
             inode' = Changed(folder.name, g)
  BY DEF Touch
<1>3. g.data \in Seq(Texts) /\ g.links \in Int /\ g.ctime = f.ctime
      /\ g = [data |-> g.data, links |-> g.links, ctime |-> g.ctime]
  <2>. HIDE DEF f
  <2>. QED  BY <1>1, <1>2, TouchedInode
<1>4. InodesMove
  <2>1. g.ctime = inode[folder.name].ctime
    BY <1>3
  <2>. HIDE DEF f
  <2>. QED  BY <1>1, <1>2, <1>3, <2>1, FileTypes, OneInodeMoves
<1>5. KeepersMove
  BY <1>1 DEF FileInv, FileTypeOK, KeepersMove
<1>. QED  BY <1>1, <1>4, <1>5, OthersKeep

LEMMA ReplaceKeeps ==
  ASSUME FileInv, Replace
  PROVE  FileInv'
<1>1. folder.name # 0 /\ UNCHANGED <<keeper, reader>>
  BY DEF Replace
<1>2. KeepersMove
  BY <1>1 DEF FileInv, FileTypeOK, KeepersMove
<1>3. CASE folder' = [folder EXCEPT !.name = 0] /\ inode' = Unlinked(folder.name)
  <2>1. InodesMove
    BY <1>1, <1>3, FileTypes, UnlinkedInode DEF InodesMove
  <2>. QED  BY <1>1, <1>2, <2>1, OthersKeep
<1>4. CASE /\ folder.used < MaxFiles
           /\ folder' = [name |-> folder.used + 1, used |-> folder.used + 1]
           /\ \E v \in Texts : inode' = [Unlinked(folder.name) EXCEPT ![folder.used + 1].data = Whole(v)]
  <2> DEFINE n == folder.used + 1
             u == Unlinked(folder.name)
  <2>1. n \in Nat /\ n \in 1..MaxFiles /\ n <= MaxFiles /\ folder.used <= n /\ n # folder.name
        /\ \A i \in 1..folder.used : i # n /\ i \in 1..MaxFiles
    BY <1>4, FileTypes, PrivateFileAssumption
  <2>2. PICK v \in Texts : inode' = [u EXCEPT ![n].data = Whole(v)]
    BY <1>4
  <2>3. Whole(v) \in Seq(Texts)
    BY PrivateFileAssumption DEF Whole
  <2>4. u \in [1..MaxFiles -> InodeState] /\ u[folder.name].ctime > inode[folder.name].ctime
        /\ \A k \in 1..MaxFiles : k # folder.name => u[k] = inode[k]
    BY <1>1, UnlinkedInode
  <2>. HIDE DEF n, u
  <2>5. [u[n] EXCEPT !.data = Whole(v)] \in InodeState
    BY <2>1, <2>3, <2>4 DEF InodeState
  <2>6. inode' \in [1..MaxFiles -> InodeState] /\ \A i \in 1..folder.used : inode'[i] = u[i]
    BY <2>1, <2>2, <2>4, <2>5
  <2>7. InodesMove
    BY <1>4, <2>1, <2>4, <2>6, FileTypes DEF InodesMove, n
  <2>. QED  BY <1>1, <1>2, <2>7, OthersKeep
<1>. QED  BY <1>3, <1>4 DEF Replace

LEMMA HeadGrows ==
  ASSUME NEW T, NEW g \in Seq(T), NEW s \in Seq(T), HeadOf(g, s), NEW m \in (Len(g) + 1)..Len(s)
  PROVE  g \o SubSeq(s, Len(g) + 1, m) \in Seq(T) /\ HeadOf(g \o SubSeq(s, Len(g) + 1, m), s)
<1> DEFINE n == Len(g)
           t == SubSeq(s, n + 1, m)
           h == g \o t
<1>1. n \in Nat /\ m \in Nat /\ Len(s) \in Nat /\ n + 1 <= m /\ m <= Len(s)
  OBVIOUS
<1>2. t \in Seq(T) /\ Len(t) = m - n
  BY <1>1
<1>3. \A i \in 1..(m - n) : t[i] = s[(n + 1) + i - 1]
  BY <1>1
<1>4. \A i \in 1..(m - n) : t[i] = s[n + i]
  BY <1>1, <1>3
<1>. HIDE DEF t
<1>5. h \in Seq(T) /\ Len(h) = n + (m - n)
  BY <1>2
<1>6. \A i \in 1..n : h[i] = g[i]
  BY <1>2
<1>7. \A i \in 1..Len(t) : h[n + i] = t[i]
  BY <1>2
<1>. HIDE DEF h, n
<1>8. ASSUME NEW i \in 1..m PROVE h[i] = s[i]
  <2>1. CASE i <= n
    <3>1. i \in 1..n /\ n = Len(g)
      BY <1>1, <2>1 DEF n
    <3>. QED  BY <1>6, <3>1 DEF HeadOf
  <2>2. CASE i > n
    <3>1. i - n \in 1..(m - n) /\ n + (i - n) = i
      BY <1>1, <2>2
    <3>2. h[n + (i - n)] = t[i - n] /\ t[i - n] = s[n + (i - n)]
      BY <1>2, <1>4, <1>7, <3>1
    <3>. QED  BY <3>1, <3>2
  <2>. QED  BY <1>1, <2>1, <2>2
<1>9. HeadOf(h, s)
  BY <1>1, <1>5, <1>8 DEF HeadOf
<1>. QED  BY <1>5, <1>9 DEF h, t, n

\* The reader reads the head of its file a little further, or looks at it.
LEMMA ReaderKeeps ==
  ASSUME FileInv, KeyFromEnv \/ OpenRead \/ StatBefore \/ ReadSome \/ StatAfter \/ StatName \/ ResolveJudge
  PROVE  FileInv'
<1>1. UNCHANGED <<folder, inode, keeper>> /\ reader \in ReaderState
  BY FileTypes DEF KeyFromEnv, OpenRead, StatBefore, ReadSome, StatAfter, StatName, ResolveJudge, ReaderOnly
<1>2. ASSUME reader' \in ReaderState, ReaderInv'
      PROVE  FileInv'
  BY <1>1, <1>2 DEF FileInv, FileTypeOK
<1>3. ASSUME NEW to \in {"env", "none", "after", "name", "refused", "accepted", "judge", "mismatch"}, Reads(to),
             to = "after" => reader.at = "read", to = "name" => reader.at = "after" /\ reader.for \in ByName
      PROVE  FileInv'
  <2>1. /\ reader' \in ReaderState /\ reader'.at = to /\ reader'.inode = reader.inode /\ reader'.size = reader.size
        /\ reader'.ctime = reader.ctime /\ reader'.got = reader.got /\ reader'.for = reader.for
    BY <1>1, <1>3 DEF Reads, ReaderState
  <2>2. ReaderInv'
    BY <1>1, <1>3, <2>1 DEF FileInv, ReaderInv, File
  <2>. QED  BY <1>2, <2>1, <2>2
<1>4. CASE KeyFromEnv \/ StatAfter \/ StatName \/ ResolveJudge
  BY <1>3, <1>4 DEF KeyFromEnv, StatAfter, StatName, ResolveJudge, At
<1>5. CASE OpenRead
  <2>1. CASE folder.name = 0
    <3>1. Reads("none")
      BY <1>5, <2>1 DEF OpenRead, Reads
    <3>. QED  BY <1>3, <3>1
  <2>2. CASE folder.name # 0
    <3>1. reader.at = "begin" /\ reader' = [reader EXCEPT !.at = "stat", !.inode = folder.name]
      BY <1>5, <2>2 DEF OpenRead, At
    <3>2. folder.name \in 1..folder.used /\ folder.name \in Nat
      BY <2>2, FileTypes
    <3>3. reader' \in ReaderState /\ reader'.at = "stat" /\ reader'.inode = folder.name /\ reader'.got = reader.got
      BY <1>1, <3>1, <3>2 DEF ReaderState
    <3>4. ReaderInv'
      BY <1>1, <3>1, <3>2, <3>3 DEF FileInv, ReaderInv
    <3>. QED  BY <1>2, <3>3, <3>4
  <2>. QED  BY <2>1, <2>2
<1>6. CASE StatBefore
  <2>1. CASE ~Sound(File)
    <3>1. Reads("refused")
      BY <1>6, <2>1 DEF StatBefore, Reads
    <3>. QED  BY <1>3, <3>1
  <2>2. CASE Sound(File)
    <3>1. /\ reader.at = "stat"
          /\ reader' = [reader EXCEPT !.at = "read", !.size = Len(File.data), !.ctime = File.ctime]
      BY <1>6, <2>2 DEF StatBefore, At
    <3>2. reader.inode \in 1..folder.used /\ reader.got = <<>>
      BY <3>1 DEF FileInv, ReaderInv
    <3>3. File \in InodeState
      BY <3>2, FileTypes DEF File
    <3>4. File.ctime \in Nat /\ File.data \in Seq(Texts) /\ Len(File.data) \in Nat
      BY <3>3 DEF InodeState
    <3>5. /\ reader' \in ReaderState /\ reader'.at = "read" /\ reader'.inode = reader.inode
          /\ reader'.got = reader.got /\ reader'.size = Len(File.data) /\ reader'.ctime = File.ctime
      BY <1>1, <3>1, <3>4 DEF ReaderState
    <3>6. HeadOf(<<>>, File.data)
      BY <3>4 DEF HeadOf
    <3>7. inode'[reader'.inode] = File
      BY <1>1, <3>5 DEF File
    <3>8. ReaderInv'
      BY <1>1, <3>2, <3>4, <3>5, <3>6, <3>7 DEF ReaderInv, File
    <3>. QED  BY <1>2, <3>5, <3>8
  <2>. QED  BY <2>1, <2>2
<1>7. CASE ReadSome
  <2> DEFINE n == Len(reader.got)
             s == File.data
  <2>1. reader.at = "read" /\ reader.inode \in 1..folder.used
    BY <1>7 DEF ReadSome, At, FileInv, ReaderInv
  <2>2. reader.got \in Seq(Texts) /\ n \in Nat /\ s \in Seq(Texts) /\ Len(s) \in Nat
    BY <1>1, <2>1, FileTypes DEF ReaderState, File, InodeState
  <2>3. CASE n >= Len(s) \/ n > reader.size
    <3>1. Reads("after")
      BY <1>7, <2>3 DEF ReadSome
    <3>. QED  BY <1>3, <2>1, <3>1
  <2>4. CASE ~(n >= Len(s) \/ n > reader.size)
    <3>1. PICK m \in (n + 1)..Len(s) : reader' = [reader EXCEPT !.got = reader.got \o SubSeq(s, n + 1, m)]
      BY <1>7, <2>4 DEF ReadSome
    <3> DEFINE g == reader.got \o SubSeq(s, n + 1, m)
    <3>2. Len(g) \in Nat /\ g \in Seq(Texts)
      <4>1. m \in Nat /\ n + 1 <= m /\ m <= Len(s)
        BY <2>2, <3>1
      <4>2. SubSeq(s, n + 1, m) \in Seq(Texts)
        BY <2>2, <4>1
      <4>3. ASSUME NEW a \in Seq(Texts), NEW b \in Seq(Texts) PROVE Len(a \o b) \in Nat /\ a \o b \in Seq(Texts)
        OBVIOUS
      <4>. QED  BY <2>2, <4>2, <4>3
    <3>5. HeadOf(reader.got, s) => HeadOf(g, s)
      BY <2>2, <3>1, HeadGrows
    <3>6. /\ reader' \in ReaderState /\ reader'.at = "read" /\ reader'.inode = reader.inode
          /\ reader'.got = g /\ reader'.size = reader.size /\ reader'.ctime = reader.ctime
      <4>1. reader' = [reader EXCEPT !.got = g]
        BY <3>1
      <4>. HIDE DEF g
      <4>. QED  BY <1>1, <2>1, <3>2, <4>1 DEF ReaderState
    <3>7. inode'[reader'.inode] = File
      BY <1>1, <3>6 DEF File
    <3>. HIDE DEF g
    <3>8. ReaderInv'
      BY <1>1, <2>1, <3>5, <3>6, <3>7 DEF FileInv, ReaderInv, File
    <3>. QED  BY <1>2, <3>6, <3>8
  <2>. QED  BY <2>3, <2>4
<1>. QED  BY <1>4, <1>5, <1>6, <1>7

LEMMA InitFile == FileInit => FileInv
<1> SUFFICES ASSUME FileInit PROVE FileInv
  OBVIOUS
<1>1. PICK first \in {<<>>} \cup {<<Whole(v)>> : v \in Texts}, for \in {"exact", "pinned", "artifact", "vault"} :
        /\ folder = [name |-> Len(first), used |-> Len(first)]
        /\ inode = [i \in 1..MaxFiles |-> NewInode(IF i <= Len(first) THEN first[i] ELSE <<>>)]
        /\ keeper = [k \in Keepers |-> [at |-> "idle", inode |-> 0, version |-> Wanted]]
        /\ reader = [for |-> for, at |-> "begin", inode |-> 0, size |-> 0, ctime |-> 0, got |-> <<>>]
  BY DEF FileInit
<1>2. \A v \in Texts : Whole(v) \in Seq(Texts)
  BY PrivateFileAssumption DEF Whole
<1>3. Len(first) \in {0, 1} /\ \A i \in 1..Len(first) : first[i] \in Seq(Texts)
  <2>1. CASE first = <<>>
    BY <2>1
  <2>2. CASE \E v \in Texts : first = <<Whole(v)>>
    <3>1. PICK v \in Texts : first = <<Whole(v)>>
      BY <2>2
    <3>2. Len(first) = 1 /\ first[1] = Whole(v)
      BY <3>1
    <3>. QED  BY <1>2, <3>2
  <2>. QED  BY <1>1, <2>1, <2>2
<1>4. <<>> \in Seq(Texts)
  OBVIOUS
<1>5. \A i \in 1..MaxFiles : NewInode(IF i <= Len(first) THEN first[i] ELSE <<>>) \in InodeState
  <2> SUFFICES ASSUME NEW i \in 1..MaxFiles PROVE NewInode(IF i <= Len(first) THEN first[i] ELSE <<>>) \in InodeState
    OBVIOUS
  <2>1. (IF i <= Len(first) THEN first[i] ELSE <<>>) \in Seq(Texts)
    BY <1>3, <1>4, PrivateFileAssumption
  <2>. QED  BY <2>1 DEF NewInode, InodeState
<1>6. FileTypeOK
  BY <1>1, <1>3, <1>4, <1>5, PrivateFileAssumption DEF FileTypeOK, KeeperState, ReaderState
<1>7. ReaderInv
  BY <1>1 DEF ReaderInv
<1>. QED  BY <1>6, <1>7 DEF FileInv

LEMMA FileStep == FileInv /\ [FileNext]_fileVars => FileInv'
<1> SUFFICES ASSUME FileInv, [FileNext]_fileVars PROVE FileInv'
  OBVIOUS
<1>1. CASE UNCHANGED fileVars
  BY <1>1 DEF fileVars, FileInv, FileTypeOK, ReaderInv, File
<1>2. CASE FileNext
  BY <1>2, CreateKeeps, WriteKeeps, RemoveLooksKeeps, RemoveActsKeeps, TouchKeeps, ReplaceKeeps, ReaderKeeps DEF FileNext
<1>. QED  BY <1>1, <1>2

\* What a reader accepts is its file, from one end to the other (private-file.ts:
\* readExactPrivateFile; judge.ts: vaultKey; claude-api.ts: verifyArtifact).
THEOREM AcceptedWhole == FileSpec => AcceptedIsTheFile
<1>1. ASSUME FileInv, [FileNext]_fileVars, reader'.at = "accepted", reader.at # "accepted"
      PROVE  /\ reader.for # "artifact" => reader.got = File.data
             /\ reader.for \in ByName => folder.name = reader.inode
  <2>1. reader \in ReaderState
    BY <1>1, FileTypes
  <2>2. StatAfter \/ StatName
    <3>1. reader' # reader
      BY <1>1
    <3>2. CASE \/ \E k \in Keepers : (\E v \in Texts : CreateOnce(k, v)) \/ WriteParts(k) \/ RemoveLooks(k) \/ RemoveActs(k)
               \/ Touch \/ Replace \/ UNCHANGED fileVars
      <4>1. CASE \E k \in Keepers : (\E v \in Texts : CreateOnce(k, v)) \/ WriteParts(k) \/ RemoveLooks(k) \/ RemoveActs(k)
        BY <3>1, <4>1 DEF CreateOnce, WriteParts, RemoveLooks, RemoveActs
      <4>2. CASE Touch \/ Replace \/ UNCHANGED fileVars
        BY <3>1, <4>2 DEF Touch, Replace, fileVars
      <4>. QED  BY <3>2, <4>1, <4>2
    <3>3. CASE KeyFromEnv \/ OpenRead \/ StatBefore \/ ResolveJudge
      BY <1>1, <2>1, <3>3 DEF KeyFromEnv, OpenRead, StatBefore, ResolveJudge, Reads, ReaderState, At
    <3>4. CASE ReadSome
      <4>1. reader'.at \in {"after", "read"}
        BY <2>1, <3>4 DEF ReadSome, Reads, ReaderState, At
      <4>. QED  BY <1>1, <4>1
    <3>. QED  BY <1>1, <3>2, <3>3, <3>4 DEF FileNext
  <2>3. reader.at \in {"after", "name"} /\ reader.inode \in 1..folder.used
    BY <1>1, <2>2 DEF StatAfter, StatName, At, FileInv, ReaderInv
  <2>4. ASSUME Stable(File) PROVE reader.got = File.data
    <3>1. File.data \in Seq(Texts) /\ reader.got \in Seq(Texts)
      BY <1>1, <2>1, <2>3, FileTypes DEF File, InodeState, ReaderState
    <3>2. Len(reader.got) = Len(File.data) /\ HeadOf(reader.got, File.data)
      BY <1>1, <2>3, <2>4 DEF Stable, FileInv, ReaderInv
    <3>. QED  BY <3>1, <3>2 DEF HeadOf
  <2>5. CASE StatAfter
    <3>1. Stable(File) /\ reader.for \notin ByName
      BY <1>1, <2>1, <2>5 DEF StatAfter, Reads, ReaderState
    <3>. QED  BY <2>4, <3>1
  <2>6. CASE StatName
    <3>1. folder.name = reader.inode /\ (reader.for = "exact" => Stable(File)) /\ reader.for \in ByName
      BY <1>1, <2>1, <2>6 DEF StatName, Reads, ReaderState, At, FileInv, ReaderInv
    <3>. QED  BY <1>1, <2>4, <3>1 DEF ByName
  <2>. QED  BY <2>2, <2>5, <2>6
<1>2. FileInv /\ [FileNext]_fileVars =>
        [reader'.at = "accepted" /\ reader.at # "accepted" =>
           /\ reader.for # "artifact" => reader.got = File.data
           /\ reader.for \in ByName => folder.name = reader.inode]_fileVars
  BY <1>1
<1>. QED  BY InitFile, FileStep, <1>2, PTL DEF FileSpec, AcceptedIsTheFile

-----------------------------------------------------------------------------
(* The context editor.                                                       *)

\* Induction over the subsets of a finite set, by their members.
LEMMA SubsetInduction ==
  ASSUME NEW S, IsFiniteSet(S), NEW T,
         \A s \in SUBSET S : (\A r \in SUBSET s : r # s => r \in T) => s \in T
  PROVE  SUBSET S \subseteq T
<1>. DEFINE R == StrictSubsetOrdering(S)
            bad == (SUBSET S) \ T
<1>1. SUFFICES ASSUME bad # {} PROVE FALSE
  OBVIOUS
<1>2. IsWellFoundedOn(R, SUBSET S)
  BY FS_StrictSubsetOrderingWellFounded, FS_FiniteSubsetsOfFinite
<1>. HIDE DEF R
<1>3. PICK s \in bad : \A r \in bad : <<r, s>> \notin R
  <2>1. bad \subseteq SUBSET S
    OBVIOUS
  <2>. HIDE DEF bad
  <2>. QED  BY <1>1, <1>2, <2>1, WFMin
<1>4. ASSUME NEW r \in SUBSET s, r # s PROVE r \in T
  <2>1. r \in SUBSET S /\ s \in SUBSET S
    BY <1>3
  <2>2. <<r, s>> \in R
    BY <1>4, <2>1 DEF R, StrictSubsetOrdering
  <2>. QED  BY <1>3, <2>1, <2>2
<1>. QED  BY <1>3, <1>4

\* The sums of tokens that MapThenSumSet computes, for the subsets of S: it takes
\* one position after the other.
First(s) == CHOOSE p \in s : TRUE
Size(t, p) == Item(t, p).tokens
Weighs(t, S, f) ==
  f = [s \in SUBSET S |-> IF s = {} THEN 0 ELSE Size(t, First(s)) + f[s \ {First(s)}]]

LEMMA FirstIsIn == ASSUME NEW s, s # {} PROVE First(s) \in s
  BY DEF First

LEMMA WeighsExists ==
  ASSUME NEW t, NEW S, IsFiniteSet(S)
  PROVE  \E f : Weighs(t, S, f)
<1>. DEFINE V(f, s) == IF s = {} THEN 0 ELSE Size(t, First(s)) + f[s \ {First(s)}]
            Upto(n, f) == f = [s \in SUBSET S |-> f[s]] /\ \A s \in SUBSET S : Cardinality(s) <= n => f[s] = V(f, s)
            Ok == {n \in Nat : \E f : Upto(n, f)}
<1>1. \A s \in SUBSET S : IsFiniteSet(s) /\ Cardinality(s) \in Nat /\ (Cardinality(s) = 0 <=> s = {})
  BY FS_Subset, FS_CardinalityType, FS_EmptySet
<1>2. ASSUME NEW s \in SUBSET S, s # {}
      PROVE  /\ First(s) \in s /\ s \ {First(s)} \in SUBSET S
             /\ Cardinality(s \ {First(s)}) = Cardinality(s) - 1
  BY <1>1, <1>2, FirstIsIn, FS_RemoveElement
<1>3. 0 \in Ok
  <2>. DEFINE f == [s \in SUBSET S |-> 0]
  <2>1. \A s \in SUBSET S : Cardinality(s) <= 0 => s = {}
    BY <1>1
  <2>2. Upto(0, f)
    BY <2>1
  <2>. QED  BY <2>2
<1>4. ASSUME NEW n \in Nat, n \in Ok PROVE n + 1 \in Ok
  <2>1. PICK f : Upto(n, f)
    BY <1>4
  <2>. DEFINE g == [s \in SUBSET S |-> IF Cardinality(s) <= n THEN f[s] ELSE V(f, s)]
  <2>2. ASSUME NEW s \in SUBSET S, Cardinality(s) <= n + 1 PROVE g[s] = V(f, s)
    BY <2>1, <2>2
  <2>3. ASSUME NEW s \in SUBSET S, Cardinality(s) <= n + 1, s # {}
        PROVE  g[s \ {First(s)}] = f[s \ {First(s)}]
    <3>1. s \ {First(s)} \in SUBSET S /\ Cardinality(s \ {First(s)}) <= n
      BY <1>1, <1>2, <2>3
    <3>. QED  BY <3>1
  <2>4. ASSUME NEW s \in SUBSET S, Cardinality(s) <= n + 1 PROVE g[s] = V(g, s)
    <3>. HIDE DEF g
    <3>1. CASE s = {}
      BY <2>2, <2>4, <3>1
    <3>2. CASE s # {}
      BY <2>2, <2>3, <2>4, <3>2
    <3>. QED  BY <3>1, <3>2
  <2>5. g = [s \in SUBSET S |-> g[s]]
    OBVIOUS
  <2>. HIDE DEF g
  <2>6. Upto(n + 1, g)
    BY <2>4, <2>5
  <2>7. n + 1 \in Nat
    OBVIOUS
  <2>. QED  BY <2>6, <2>7
<1>5. Nat \subseteq Ok
  BY <1>3, <1>4, SetInduction
<1>6. PICK f : Upto(Cardinality(S), f)
  BY <1>1, <1>5
<1>7. ASSUME NEW s \in SUBSET S PROVE f[s] = V(f, s)
  <2>1. Cardinality(s) <= Cardinality(S)
    BY FS_Subset
  <2>. QED  BY <1>6, <2>1
<1>8. f = [s \in SUBSET S |-> V(f, s)]
  BY <1>6, <1>7
<1>. QED  BY <1>8 DEF Weighs

LEMMA WeighsSteps ==
  ASSUME NEW t, NEW S, NEW f, Weighs(t, S, f), NEW s \in SUBSET S
  PROVE  f[s] = IF s = {} THEN 0 ELSE Size(t, First(s)) + f[s \ {First(s)}]
BY DEF Weighs

LEMMA WeighsAgree ==
  ASSUME NEW t, NEW S, IsFiniteSet(S), NEW R \in SUBSET S, NEW f, Weighs(t, S, f), NEW g, Weighs(t, R, g)
  PROVE  \A s \in SUBSET R : g[s] = f[s]
<1>. DEFINE T == {s \in SUBSET R : g[s] = f[s]}
<1>1. ASSUME NEW s \in SUBSET R, \A r \in SUBSET s : r # s => r \in T PROVE s \in T
  <2>1. /\ f[s] = IF s = {} THEN 0 ELSE Size(t, First(s)) + f[s \ {First(s)}]
        /\ g[s] = IF s = {} THEN 0 ELSE Size(t, First(s)) + g[s \ {First(s)}]
    BY WeighsSteps
  <2>2. ASSUME s # {} PROVE f[s \ {First(s)}] = g[s \ {First(s)}]
    <3>1. s \ {First(s)} \in SUBSET s /\ s \ {First(s)} # s
      BY <2>2, FirstIsIn
    <3>. QED  BY <1>1, <3>1
  <2>3. f[s] = g[s]
    BY <2>1, <2>2
  <2>. QED  BY <2>3
<1>2. IsFiniteSet(R)
  BY FS_Subset
<1>. HIDE DEF T
<1>3. SUBSET R \subseteq T
  BY <1>1, <1>2, SubsetInduction
<1>. QED  BY <1>3 DEF T

LEMMA TokensWeighed ==
  ASSUME NEW t, NEW S, IsFiniteSet(S), NEW f, Weighs(t, S, f), NEW R \in SUBSET S
  PROVE  Tokens(t, R) = f[R]
<1>. DEFINE G == CHOOSE g : g = [s \in SUBSET R |->
                  IF s = {} THEN 0 ELSE Item(t, First(s)).tokens + g[s \ {First(s)}]]
<1>1. Tokens(t, R) = G[R]
  BY DEF Tokens, MapThenSumSet, MapThenFoldSet, First
<1>2. G = CHOOSE g : Weighs(t, R, g)
  BY DEF Weighs, Size
<1>. HIDE DEF G
<1>3. Weighs(t, R, G)
  BY <1>2, WeighsExists, FS_Subset
<1>4. R \in SUBSET R
  OBVIOUS
<1>. QED  BY <1>1, <1>3, <1>4, WeighsAgree

\* Whatever position is taken first, the sum is the same.
LEMMA AnyFirst ==
  ASSUME NEW t, NEW S, IsFiniteSet(S), NEW f, Weighs(t, S, f), \A p \in S : Size(t, p) \in Nat
  PROVE  \A s \in SUBSET S : f[s] \in Nat /\ \A p \in s : f[s] = Size(t, p) + f[s \ {p}]
<1>. DEFINE T == {s \in SUBSET S : f[s] \in Nat /\ \A p \in s : f[s] = Size(t, p) + f[s \ {p}]}
<1>0. \A s \in SUBSET S : f[s] = IF s = {} THEN 0 ELSE Size(t, First(s)) + f[s \ {First(s)}]
  BY DEF Weighs
<1>1. ASSUME NEW s \in SUBSET S, \A r \in SUBSET s : r # s => r \in T PROVE s \in T
  <2>1. f[s] = IF s = {} THEN 0 ELSE Size(t, First(s)) + f[s \ {First(s)}]
    BY <1>0
  <2>2. CASE s = {}
    BY <2>1, <2>2
  <2>3. CASE s # {}
    <3>1. PICK q : q = First(s) /\ q \in s
      BY <2>3, FirstIsIn
    <3>2. f[s] = Size(t, q) + f[s \ {q}]
      BY <2>1, <2>3, <3>1
    <3>3. \A p \in s : Size(t, p) \in Nat
      OBVIOUS
    <3>4. ASSUME NEW p \in s PROVE f[s \ {p}] \in Nat
      <4>1. s \ {p} \in SUBSET s /\ s \ {p} # s
        OBVIOUS
      <4>. QED  BY <1>1, <4>1
    <3>5. f[s] \in Nat
      BY <3>1, <3>2, <3>3, <3>4
    <3>6. ASSUME NEW p \in s, p # q PROVE f[s] = Size(t, p) + f[s \ {p}]
      <4>. DEFINE r == (s \ {p}) \ {q}
      <4>1. s \ {p} \in T /\ s \ {q} \in T /\ p \in s \ {q} /\ q \in s \ {p} /\ (s \ {q}) \ {p} = r
        <5>1. s \ {p} \in SUBSET s /\ s \ {p} # s /\ s \ {q} \in SUBSET s /\ s \ {q} # s
          BY <3>1
        <5>. QED  BY <1>1, <3>1, <3>6, <5>1
      <4>2. f[s \ {q}] = Size(t, p) + f[(s \ {q}) \ {p}]
        BY <4>1
      <4>3. f[s \ {p}] = Size(t, q) + f[r]
        BY <4>1
      <4>4. r \in T
        <5>1. r \in SUBSET s /\ r # s
          BY <3>1
        <5>. QED  BY <1>1, <5>1
      <4>5. f[r] \in Nat /\ f[s \ {q}] = Size(t, p) + f[r]
        BY <4>1, <4>2, <4>4
      <4>. HIDE DEF r, T
      <4>. QED  BY <3>1, <3>2, <3>3, <4>3, <4>5
    <3>. QED  BY <3>2, <3>5, <3>6
  <2>. QED  BY <2>2, <2>3
<1>. HIDE DEF T
<1>2. SUBSET S \subseteq T
  BY <1>1, SubsetInduction
<1>. QED  BY <1>2 DEF T

LEMMA WeighsApart ==
  ASSUME NEW t, NEW S, IsFiniteSet(S), NEW f, Weighs(t, S, f), \A p \in S : Size(t, p) \in Nat,
         NEW a \in SUBSET S
  PROVE  \A b \in SUBSET (S \ a) : f[a \cup b] = f[a] + f[b]
<1>. DEFINE D == S \ a
            T == {b \in SUBSET D : f[a \cup b] = f[a] + f[b]}
<1>1. \A s \in SUBSET S : f[s] \in Nat /\ \A p \in s : f[s] = Size(t, p) + f[s \ {p}]
  BY AnyFirst
<1>2. ASSUME NEW b \in SUBSET D, \A r \in SUBSET b : r # b => r \in T PROVE b \in T
  <2>1. CASE b = {}
    <3>1. f[{}] = 0
      BY WeighsSteps, {} \in SUBSET S
    <3>2. a \cup b = a /\ f[a] \in Nat
      BY <1>1, <2>1
    <3>3. f[a \cup b] = f[a] + f[b]
      BY <2>1, <3>1, <3>2
    <3>. QED  BY <3>3
  <2>2. CASE b # {}
    <3>1. PICK p : p \in b
      BY <2>2
    <3>2. b \ {p} \in T /\ (a \cup b) \ {p} = a \cup (b \ {p})
      <4>1. b \ {p} \in SUBSET b /\ b \ {p} # b
        BY <3>1
      <4>. QED  BY <1>2, <3>1, <4>1
    <3>3. f[a \cup (b \ {p})] = f[a] + f[b \ {p}]
      BY <3>2
    <3>4. a \cup b \in SUBSET S /\ p \in a \cup b /\ b \in SUBSET S /\ b \ {p} \in SUBSET S
      BY <3>1
    <3>5. f[a \cup b] = Size(t, p) + f[(a \cup b) \ {p}] /\ f[b] = Size(t, p) + f[b \ {p}]
      BY <1>1, <3>1, <3>4
    <3>6. Size(t, p) \in Nat /\ f[a] \in Nat /\ f[b \ {p}] \in Nat
      BY <1>1, <3>1, <3>4
    <3>7. f[(a \cup b) \ {p}] = f[a] + f[b \ {p}]
      BY <3>2, <3>3
    <3>8. f[a \cup b] = Size(t, p) + (f[a] + f[b \ {p}])
      BY <3>5, <3>7
    <3>9. f[a \cup b] = f[a] + (Size(t, p) + f[b \ {p}])
      BY <3>6, <3>8
    <3>10. f[a \cup b] = f[a] + f[b]
      BY <3>5, <3>9
    <3>. QED  BY <3>10
  <2>. QED  BY <2>1, <2>2
<1>3. IsFiniteSet(D)
  BY FS_Subset, D \in SUBSET S
<1>. HIDE DEF T, D
<1>4. SUBSET D \subseteq T
  BY <1>2, <1>3, SubsetInduction
<1>. QED  BY <1>4 DEF T, D

\* The tokens of a transcript's positions: numbers, and those of disjoint sets add.
Positions(t) == Position(Len(t.items))

LEMMA ItemType ==
  ASSUME NEW t \in Transcripts, NEW p \in Positions(t)
  PROVE  /\ p + 1 \in DOMAIN t.items /\ Item(t, p) = t.items[p + 1]
         /\ Item(t, p) \in [line : Nat, tokens : Nat, elidable : BOOLEAN]
<1>1. t.items \in Seq([line : Nat, tokens : Nat, elidable : BOOLEAN])
  BY EditorAssumption
<1>2. p + 1 \in 1..Len(t.items)
  <2>1. PICK n : n = Len(t.items)
    OBVIOUS
  <2>2. n \in Nat
    BY <1>1, <2>1
  <2>3. p \in 0..(n - 1)
    BY <2>1 DEF Positions, Position
  <2>4. p + 1 \in 1..n
    BY <2>2, <2>3
  <2>. QED  BY <2>1, <2>4
<1>3. \A R : t.items \in Seq(R) => p + 1 \in DOMAIN t.items /\ t.items[p + 1] \in R
  BY <1>2
<1>. QED  BY <1>1, <1>3 DEF Item

LEMMA TokensAdd ==
  ASSUME NEW t \in Transcripts, NEW a \in SUBSET Positions(t), NEW b \in SUBSET (Positions(t) \ a)
  PROVE  /\ Tokens(t, a) \in Nat /\ Tokens(t, b) \in Nat
         /\ Tokens(t, a \cup b) = Tokens(t, a) + Tokens(t, b)
<1>. DEFINE S == Positions(t)
<1>1. IsFiniteSet(S)
  <2>1. Len(t.items) \in Nat
    BY EditorAssumption
  <2>. QED  BY <2>1, FS_Interval DEF Positions, Position
<1>2. \A p \in S : Size(t, p) \in Nat
  BY ItemType DEF Size
<1>. HIDE DEF S
<1>3. PICK f : Weighs(t, S, f)
  BY <1>1, WeighsExists
<1>4. a \in SUBSET S /\ b \in SUBSET S /\ a \cup b \in SUBSET S /\ b \in SUBSET (S \ a)
  BY DEF S
<1>5. Tokens(t, a) = f[a] /\ Tokens(t, b) = f[b] /\ Tokens(t, a \cup b) = f[a \cup b]
  BY <1>1, <1>3, <1>4, TokensWeighed
<1>6. f[a] \in Nat /\ f[b] \in Nat
  BY <1>1, <1>2, <1>3, <1>4, AnyFirst
<1>7. f[a \cup b] = f[a] + f[b]
  <2>1. \A d \in SUBSET (S \ a) : f[a \cup d] = f[a] + f[d]
    BY <1>1, <1>2, <1>3, <1>4, WeighsApart
  <2>. QED  BY <1>4, <2>1
<1>. QED  BY <1>5, <1>6, <1>7

-----------------------------------------------------------------------------
(* The plan: what the loop over the calls keeps.                             *)

ToolsOf(n) == {c \in Keep(n) \cup Elide(n) \cup Summarize(n) \cup Defer : RangeOK(c)}
Edits == [op : {"elide"}, lines : SUBSET Nat] \cup [op : {"inject_digest"}, covers : SUBSET Int]
Apart(t) == \A p, q \in DOMAIN t.items : t.items[p].line = t.items[q].line => p = q
LoopState == [void : BOOLEAN, lines : SUBSET Nat, digests : Nat, after : Nat, edits : Seq(Edits)]
OnLines(t, ls) == {p \in Positions(t) : Item(t, p).line \in ls}

\* The edits so far are those of the lines so far, and leave the tail alone.
EditsFit(t, s) ==
  /\ s.edits \in Seq(Edits) /\ s.lines \subseteq Nat
  /\ \A k \in 1..Len(s.edits) : s.edits[k].op = "elide" => s.edits[k].lines \subseteq s.lines
  /\ \A l \in s.lines : \E k \in 1..Len(s.edits) : s.edits[k].op = "elide" /\ l \in s.edits[k].lines
  /\ \A k \in 1..Len(s.edits) : s.edits[k].op = "inject_digest" =>
       \A p \in s.edits[k].covers : p < ProtectedFrom(t)
\* The lines so far are those of items that may go, and what is left is without them.
LinesFit(t, calls, s) ==
  /\ \A p \in OnLines(t, s.lines) : Elidable(t, p) /\ p \notin Kept(calls)
  /\ s.after = Less(Context(t), Tokens(t, OnLines(t, s.lines)))
LoopSound(t, calls, i, s) ==
  /\ s \in LoopState
  /\ ~s.void =>
             /\ EditsFit(t, s)
             /\ Apart(t) => LinesFit(t, calls, s)
             /\ \A k \in 1..i : calls[k].tool # "defer"

LEMMA ContextType == ASSUME NEW t \in Transcripts PROVE Context(t) \in Nat
<1>1. Tokens(t, Positions(t)) \in Nat
  BY TokensAdd, Positions(t) \in SUBSET Positions(t), {} \in SUBSET (Positions(t) \ Positions(t))
<1>2. t.context \in Nat
  BY EditorAssumption
<1>. QED  BY <1>1, <1>2 DEF Context, Positions

LEMMA NoTokens == ASSUME NEW t PROVE Tokens(t, {}) = 0
<1>1. IsFiniteSet({}) /\ {} \in SUBSET {}
  BY FS_EmptySet
<1>2. PICK f : Weighs(t, {}, f)
  BY <1>1, WeighsExists
<1>3. Tokens(t, {}) = f[{}]
  BY <1>1, <1>2, TokensWeighed
<1>4. f[{}] = 0
  BY <1>1, <1>2, WeighsSteps
<1>. QED  BY <1>3, <1>4

LEMMA LessLess ==
  ASSUME NEW a \in Nat, NEW b \in Nat, NEW c \in Nat
  PROVE  Less(Less(a, b), c) = Less(a, b + c)
BY DEF Less

LEMMA StartSound ==
  ASSUME NEW t \in Transcripts, NEW calls
  PROVE  LoopSound(t, calls, 0, Start(t))
<1>. SUFFICES ASSUME NEW s, s = Start(t) PROVE LoopSound(t, calls, 0, s)
  OBVIOUS
<1>1. s.lines = {} /\ s.after = Context(t) /\ s.edits = <<>>
  BY DEF Start
<1>2. EditsFit(t, s)
  BY <1>1 DEF EditsFit
<1>3. OnLines(t, s.lines) = {}
  BY <1>1 DEF OnLines
<1>4. s.after = Less(Context(t), Tokens(t, OnLines(t, s.lines)))
  <2>1. Context(t) \in Nat /\ Tokens(t, OnLines(t, s.lines)) = 0
    BY <1>3, ContextType, NoTokens
  <2>. QED  BY <1>1, <2>1 DEF Less
<1>5. LinesFit(t, calls, s)
  BY <1>3, <1>4 DEF LinesFit
<1>6. s \in LoopState
  BY ContextType DEF Start, LoopState
<1>. QED  BY <1>2, <1>5, <1>6 DEF LoopSound

\* One edit more.
LEMMA EditAdded ==
  ASSUME NEW t, NEW s, EditsFit(t, s), NEW e \in Edits, NEW ls \in SUBSET Nat, NEW r,
         r.edits = Append(s.edits, e), r.lines = s.lines \cup ls,
         e.op = "elide" => e.lines = ls, e.op = "inject_digest" => ls = {} /\ \A p \in e.covers : p < ProtectedFrom(t)
  PROVE  EditsFit(t, r)
<1>1. /\ s.edits \in Seq(Edits) /\ s.lines \subseteq Nat
      /\ \A k \in 1..Len(s.edits) : s.edits[k].op = "elide" => s.edits[k].lines \subseteq s.lines
      /\ \A l \in s.lines : \E k \in 1..Len(s.edits) : s.edits[k].op = "elide" /\ l \in s.edits[k].lines
      /\ \A k \in 1..Len(s.edits) : s.edits[k].op = "inject_digest" =>
           \A p \in s.edits[k].covers : p < ProtectedFrom(t)
  BY DEF EditsFit
<1>2. PICK n : n = Len(s.edits) /\ n \in Nat
  BY <1>1
<1>3. /\ r.edits \in Seq(Edits) /\ Len(r.edits) = n + 1 /\ r.edits[n + 1] = e
      /\ \A k \in 1..n : r.edits[k] = s.edits[k]
  BY <1>1, <1>2
<1>4. r.lines \subseteq Nat
  BY <1>1
<1>5. \A k \in 1..(n + 1) : k \in 1..n \/ k = n + 1
  BY <1>2
<1>6. (\A k \in 1..n : k \in 1..(n + 1)) /\ n + 1 \in 1..(n + 1)
  BY <1>2
<1>7. e.op \in {"elide", "inject_digest"}
  BY DEF Edits
<1>8. ASSUME NEW k \in 1..(n + 1), r.edits[k].op = "elide" PROVE r.edits[k].lines \subseteq r.lines
  <2>1. CASE k \in 1..n
    <3>1. r.edits[k] = s.edits[k]
      BY <1>3, <2>1
    <3>2. s.edits[k].lines \subseteq s.lines
      BY <1>1, <1>2, <1>8, <2>1, <3>1
    <3>. QED  BY <3>1, <3>2
  <2>2. CASE k = n + 1
    BY <1>3, <1>8, <2>2
  <2>. QED  BY <1>5, <2>1, <2>2
<1>9. ASSUME NEW l \in r.lines PROVE \E k \in 1..(n + 1) : r.edits[k].op = "elide" /\ l \in r.edits[k].lines
  <2>1. CASE l \in s.lines
    <3>1. PICK k \in 1..n : s.edits[k].op = "elide" /\ l \in s.edits[k].lines
      BY <1>1, <1>2, <2>1
    <3>2. r.edits[k] = s.edits[k] /\ k \in 1..(n + 1)
      BY <1>3, <1>6
    <3>. QED  BY <3>1, <3>2
  <2>2. CASE l \in ls
    <3>1. e.op = "elide" /\ e.lines = ls
      BY <1>7, <2>2
    <3>. QED  BY <1>3, <1>6, <2>2, <3>1
  <2>. QED  BY <2>1, <2>2
<1>10. ASSUME NEW k \in 1..(n + 1), r.edits[k].op = "inject_digest"
       PROVE  \A p \in r.edits[k].covers : p < ProtectedFrom(t)
  <2>1. CASE k \in 1..n
    <3>1. r.edits[k] = s.edits[k]
      BY <1>3, <2>1
    <3>2. \A p \in s.edits[k].covers : p < ProtectedFrom(t)
      BY <1>1, <1>2, <1>10, <2>1, <3>1
    <3>. QED  BY <3>1, <3>2
  <2>2. CASE k = n + 1
    BY <1>3, <1>10, <2>2
  <2>. QED  BY <1>5, <2>1, <2>2
<1>. QED  BY <1>3, <1>4, <1>8, <1>9, <1>10 DEF EditsFit

\* The calls the broker lets through.
LEMMA ToolTypes ==
  ASSUME NEW n \in Nat, NEW c \in ToolsOf(n)
  PROVE  /\ c.tool \in {"keep", "elide", "summarize", "defer"}
         /\ c.tool = "elide" => c.items \in SUBSET Position(n)
         /\ c.tool = "summarize" => c.from \in Int /\ c.to \in Int
<1>1. c \in Keep(n) \/ c \in Elide(n) \/ c \in Summarize(n) \/ c \in Defer
  BY DEF ToolsOf
<1>2. CASE c \in Keep(n)
  BY <1>2 DEF Keep
<1>3. CASE c \in Elide(n)
  BY <1>3 DEF Elide
<1>4. CASE c \in Summarize(n)
  <2>1. PICK f \in Position(n), to \in 1..n : c = [tool |-> "summarize", from |-> f, to |-> to]
    BY <1>4 DEF Summarize
  <2>2. f \in Int /\ to \in Int
    BY DEF Position
  <2>. QED  BY <2>1, <2>2
<1>5. CASE c \in Defer
  BY <1>5 DEF Defer
<1>. QED  BY <1>1, <1>2, <1>3, <1>4, <1>5

\* What an elide call takes: items of lines not taken yet, none of them kept.
LEMMA ChosenFit ==
  ASSUME NEW t \in Transcripts, NEW calls, NEW c, c.items \in SUBSET Positions(t),
         ~ElideClashes(t, calls, c), NEW ls, NEW ps, ps = Chosen(t, c, ls)
  PROVE  /\ ps \in SUBSET Positions(t)
         /\ {Item(t, p).line : p \in ps} \subseteq Nat
         /\ \A p \in ps : Elidable(t, p) /\ p \notin Kept(calls) /\ Item(t, p).line \notin ls
<1>1. \A p \in ps : p \in c.items /\ Elidable(t, p) /\ Item(t, p).line \notin ls
  BY DEF Chosen
<1>2. ps \in SUBSET Positions(t) /\ \A p \in ps : p \notin Kept(calls)
  BY <1>1 DEF ElideClashes
<1>3. \A p \in ps : Item(t, p).line \in Nat
  BY <1>2, ItemType
<1>. QED  BY <1>1, <1>2, <1>3

LinesOf(t, ps) == {Item(t, p).line : p \in ps}
Moves(t, ls, ps, more) ==
  /\ OnLines(t, more) = OnLines(t, ls) \cup ps
  /\ OnLines(t, ls) \in SUBSET Positions(t) /\ ps \in SUBSET (Positions(t) \ OnLines(t, ls))

LEMMA OnMoreLines ==
  ASSUME NEW t \in Transcripts, Apart(t), NEW ls, NEW ps \in SUBSET Positions(t),
         \A p \in ps : Item(t, p).line \notin ls
  PROVE  Moves(t, ls, ps, ls \cup LinesOf(t, ps))
<1>. SUFFICES ASSUME NEW more, more = ls \cup {Item(t, p).line : p \in ps} PROVE Moves(t, ls, ps, more)
  BY DEF LinesOf
<1>1. ASSUME NEW p \in Positions(t), NEW q \in Positions(t), Item(t, p).line = Item(t, q).line PROVE p = q
  <2>1. /\ p + 1 \in DOMAIN t.items /\ q + 1 \in DOMAIN t.items
        /\ t.items[p + 1].line = t.items[q + 1].line
    BY <1>1, ItemType
  <2>2. p + 1 = q + 1
    BY <2>1 DEF Apart
  <2>3. p \in Int /\ q \in Int
    BY DEF Positions, Position
  <2>. QED  BY <2>2, <2>3
<1>2. ASSUME NEW p \in OnLines(t, more) PROVE p \in OnLines(t, ls) \cup ps
  <2>1. p \in Positions(t) /\ Item(t, p).line \in more
    BY DEF OnLines
  <2>2. CASE Item(t, p).line \in ls
    BY <2>1, <2>2 DEF OnLines
  <2>3. CASE Item(t, p).line \notin ls
    <3>1. PICK q \in ps : Item(t, p).line = Item(t, q).line
      BY <2>1, <2>3
    <3>. QED  BY <1>1, <2>1, <3>1
  <2>. QED  BY <2>2, <2>3
<1>3. \A p \in ps : Item(t, p).line \in more
  OBVIOUS
<1>4. \A p \in OnLines(t, ls) \cup ps : p \in OnLines(t, more)
  BY <1>3 DEF OnLines
<1>. QED  BY <1>2, <1>4 DEF OnLines, Moves

LEMMA ElideSound ==
  ASSUME NEW t \in Transcripts, NEW calls, NEW c, c.items \in SUBSET Positions(t),
         ~ElideClashes(t, calls, c), NEW s \in LoopState, EditsFit(t, s), Apart(t) => LinesFit(t, calls, s),
         NEW ps, ps = Chosen(t, c, s.lines), NEW r,
         r.lines = s.lines \cup LinesOf(t, ps),
         r.after = Less(s.after, Tokens(t, ps)),
         r.edits = IF ps = {} THEN s.edits
                   ELSE Append(s.edits, [op |-> "elide", lines |-> LinesOf(t, ps)])
  PROVE  /\ EditsFit(t, r) /\ (Apart(t) => LinesFit(t, calls, r))
         /\ r.lines \in SUBSET Nat /\ r.after \in Nat /\ r.edits \in Seq(Edits)
<1>. DEFINE ls == LinesOf(t, ps)
<1>1. /\ ps \in SUBSET Positions(t) /\ ls \subseteq Nat
      /\ \A p \in ps : Elidable(t, p) /\ p \notin Kept(calls) /\ Item(t, p).line \notin s.lines
  BY ChosenFit DEF LinesOf
<1>2. EditsFit(t, r)
  <2>1. CASE ps = {}
    <3>1. r.edits = s.edits /\ r.lines = s.lines
      BY <2>1 DEF LinesOf
    <3>. QED  BY <3>1 DEF EditsFit
  <2>2. CASE ps # {}
    <3>. DEFINE e == [op |-> "elide", lines |-> ls]
    <3>1. e \in Edits /\ e.op = "elide" /\ e.lines = ls
      BY <1>1 DEF Edits
    <3>2. r.edits = Append(s.edits, e) /\ r.lines = s.lines \cup ls /\ ls \in SUBSET Nat
      BY <1>1, <2>2
    <3>. HIDE DEF e, ls
    <3>. QED  BY <3>1, <3>2, EditAdded
  <2>. QED  BY <2>1, <2>2
<1>3. ASSUME Apart(t) PROVE LinesFit(t, calls, r)
  <2>. DEFINE old == OnLines(t, s.lines)
  <2>1. /\ OnLines(t, r.lines) = old \cup ps
        /\ old \in SUBSET Positions(t) /\ ps \in SUBSET (Positions(t) \ old)
    <3>1. \A p \in ps : Item(t, p).line \notin s.lines
      BY <1>1
    <3>2. Moves(t, s.lines, ps, s.lines \cup LinesOf(t, ps))
      BY <1>1, <1>3, <3>1, OnMoreLines
    <3>. QED  BY <3>2 DEF Moves
  <2>2. /\ \A p \in old : Elidable(t, p) /\ p \notin Kept(calls)
        /\ s.after = Less(Context(t), Tokens(t, old))
    BY <1>3 DEF LinesFit
  <2>3. \A p \in OnLines(t, r.lines) : Elidable(t, p) /\ p \notin Kept(calls)
    BY <1>1, <2>1, <2>2
  <2>. HIDE DEF old
  <2>4. /\ Tokens(t, old) \in Nat /\ Tokens(t, ps) \in Nat
        /\ Tokens(t, old \cup ps) = Tokens(t, old) + Tokens(t, ps)
    BY <2>1, TokensAdd
  <2>5. Less(Less(Context(t), Tokens(t, old)), Tokens(t, ps)) = Less(Context(t), Tokens(t, old) + Tokens(t, ps))
    BY <2>4, ContextType, LessLess
  <2>6. r.after = Less(Context(t), Tokens(t, OnLines(t, r.lines)))
    BY <2>1, <2>2, <2>4, <2>5
  <2>. QED  BY <2>3, <2>6 DEF LinesFit
<1>4. r.after \in Nat
  <2>1. Tokens(t, ps) \in Nat
    BY <1>1, TokensAdd, {} \in SUBSET (Positions(t) \ ps)
  <2>2. s.after \in Nat
    BY DEF LoopState
  <2>. QED  BY <2>1, <2>2 DEF Less
<1>5. r.lines \in SUBSET Nat /\ r.edits \in Seq(Edits)
  BY <1>2 DEF EditsFit
<1>. QED  BY <1>2, <1>3, <1>4, <1>5

LEMMA ProtectedType == ASSUME NEW t \in Transcripts PROVE ProtectedFrom(t) \in Int
<1>1. Len(t.items) \in Nat /\ ProtectTail \in Nat
  BY EditorAssumption
<1>. QED  BY <1>1 DEF ProtectedFrom

\* One turn of the loop.
LEMMA LoweredSound ==
  ASSUME NEW t \in Transcripts, NEW calls \in Seq(ToolsOf(Len(t.items))), NEW i \in 1..Len(calls),
         NEW s, LoopSound(t, calls, i - 1, s), NEW r, r = Lowered(t, calls, s, calls[i])
  PROVE  LoopSound(t, calls, i, r)
<1>. DEFINE c == calls[i]
<1>1. Len(t.items) \in Nat /\ c \in ToolsOf(Len(t.items))
  BY EditorAssumption
<1>2. /\ c.tool \in {"keep", "elide", "summarize", "defer"}
      /\ c.tool = "elide" => c.items \in SUBSET Positions(t)
      /\ c.tool = "summarize" => c.from \in Int /\ c.to \in Int
  BY <1>1, ToolTypes DEF Positions
<1>. HIDE DEF c
<1>3. s \in LoopState /\ r = Lowered(t, calls, s, c)
  BY DEF c, LoopSound
<1>4. CASE s.void
  <2>1. r = s
    BY <1>3, <1>4 DEF Lowered
  <2>. QED  BY <1>3, <1>4, <2>1 DEF LoopSound
<1>5. CASE r = [s EXCEPT !.void = TRUE]
  <2>1. r \in LoopState /\ r.void
    BY <1>3, <1>5 DEF LoopState
  <2>. QED  BY <2>1 DEF LoopSound
<1>6. CASE ~s.void /\ r # [s EXCEPT !.void = TRUE]
  <2>1. /\ EditsFit(t, s) /\ (Apart(t) => LinesFit(t, calls, s))
        /\ \A k \in 1..(i - 1) : calls[k].tool # "defer"
    BY <1>6 DEF LoopSound
  <2>2. c.tool # "defer"
    BY <1>3, <1>6 DEF Lowered
  <2>3. \A k \in 1..i : calls[k].tool # "defer"
    <3>1. \A k \in 1..i : k \in 1..(i - 1) \/ k = i
      OBVIOUS
    <3>2. calls[i].tool # "defer"
      BY <2>2 DEF c
    <3>. QED  BY <2>1, <3>1, <3>2
  <2>4. CASE c.tool = "keep"
    <3>1. r = s
      BY <1>3, <1>6, <2>4 DEF Lowered
    <3>. QED  BY <1>3, <2>1, <2>3, <3>1 DEF LoopSound
  <2>5. CASE c.tool = "elide"
    <3>. DEFINE ps == Chosen(t, c, s.lines)
                ls == LinesOf(t, ps)
                es == IF ps = {} THEN s.edits ELSE Append(s.edits, [op |-> "elide", lines |-> ls])
    <3>1. ~ElideClashes(t, calls, c)
      BY <1>3, <1>6, <2>5 DEF Lowered
    <3>2. r = [s EXCEPT !.lines = s.lines \cup ls, !.after = Less(s.after, Tokens(t, ps)), !.edits = es]
      BY <1>3, <1>6, <2>5, <3>1 DEF Lowered, LinesOf
    <3>. HIDE DEF ps, ls, es
    <3>3. /\ r.lines = s.lines \cup ls /\ r.after = Less(s.after, Tokens(t, ps)) /\ r.edits = es
          /\ r.void = s.void /\ r.digests = s.digests
      BY <1>3, <3>2 DEF LoopState
    <3>4. /\ EditsFit(t, r) /\ (Apart(t) => LinesFit(t, calls, r))
          /\ r.lines \in SUBSET Nat /\ r.after \in Nat /\ r.edits \in Seq(Edits)
      <4>1. ps = Chosen(t, c, s.lines) /\ c.items \in SUBSET Positions(t)
        BY <1>2, <2>5 DEF ps
      <4>2. /\ r.lines = s.lines \cup LinesOf(t, ps)
            /\ r.edits = IF ps = {} THEN s.edits ELSE Append(s.edits, [op |-> "elide", lines |-> LinesOf(t, ps)])
        BY <3>3 DEF ls, es
      <4>. QED  BY <1>3, <2>1, <3>1, <3>3, <4>1, <4>2, ElideSound
    <3>5. r \in LoopState
      <4>1. r = [s EXCEPT !.lines = r.lines, !.after = r.after, !.edits = r.edits]
        BY <3>2, <3>3
      <4>. QED  BY <1>3, <3>4, <4>1 DEF LoopState
    <3>. QED  BY <2>3, <3>4, <3>5 DEF LoopSound
  <2>6. CASE c.tool = "summarize"
    <3>. DEFINE e == [op |-> "inject_digest", covers |-> c.from..(c.to - 1)]
                es == Append(s.edits, e)
    <3>1. ~SummaryClashes(t, c, s.digests)
      BY <1>3, <1>6, <2>6 DEF Lowered
    <3>2. r = [s EXCEPT !.digests = s.digests + 1, !.edits = es]
      BY <1>3, <1>6, <2>6, <3>1 DEF Lowered
    <3>3. e \in Edits /\ e.op = "inject_digest" /\ e.covers = c.from..(c.to - 1)
      <4>1. c.from..(c.to - 1) \in SUBSET Int
        BY <1>2, <2>6
      <4>. QED  BY <4>1 DEF Edits
    <3>4. ASSUME NEW p \in e.covers PROVE p < ProtectedFrom(t)
      <4>1. c.from \in Int /\ c.to \in Int /\ p \in Int /\ p <= c.to - 1
        BY <1>2, <2>6, <3>3, <3>4
      <4>2. ProtectedFrom(t) \in Int
        BY ProtectedType
      <4>3. ~(c.to > ProtectedFrom(t))
        BY <3>1 DEF SummaryClashes
      <4>. QED  BY <4>1, <4>2, <4>3
    <3>. HIDE DEF e
    <3>5. /\ r.lines = s.lines /\ r.after = s.after /\ r.edits = es
          /\ r.void = s.void /\ r.digests = s.digests + 1
      BY <1>3, <3>2 DEF LoopState
    <3>6. EditsFit(t, r)
      <4>1. r.edits = Append(s.edits, e) /\ r.lines = s.lines \cup {} /\ {} \in SUBSET Nat
        BY <3>5
      <4>. QED  BY <2>1, <3>3, <3>4, <4>1, EditAdded
    <3>7. Apart(t) => LinesFit(t, calls, r)
      BY <2>1, <3>5 DEF LinesFit
    <3>8. r \in LoopState
      <4>1. es \in Seq(Edits) /\ s.digests + 1 \in Nat
        BY <1>3, <3>3 DEF LoopState
      <4>. HIDE DEF es
      <4>. QED  BY <1>3, <3>2, <4>1 DEF LoopState
    <3>. QED  BY <2>3, <3>6, <3>7, <3>8 DEF LoopSound
  <2>. QED  BY <1>2, <2>2, <2>4, <2>5, <2>6
<1>. QED  BY <1>4, <1>5, <1>6

\* The states of the loop, one call after the other.
LoopOver(t, calls, n, f) ==
  f = [i \in 0..n |-> IF i = 0 THEN Start(t) ELSE Lowered(t, calls, f[i - 1], calls[i])]

LEMMA LoopExists ==
  ASSUME NEW t, NEW calls, NEW n \in Nat
  PROVE  \E f : LoopOver(t, calls, n, f)
<1>. DEFINE T == {m \in Nat : \E f : LoopOver(t, calls, m, f)}
<1>1. 0 \in T
  <2>. DEFINE f == [i \in 0..0 |-> Start(t)]
  <2>1. f = [i \in 0..0 |-> IF i = 0 THEN Start(t) ELSE Lowered(t, calls, f[i - 1], calls[i])]
    BY \A i \in 0..0 : i = 0
  <2>2. LoopOver(t, calls, 0, f)
    BY <2>1 DEF LoopOver
  <2>. QED  BY <2>2
<1>2. ASSUME NEW m \in Nat, m \in T PROVE m + 1 \in T
  <2>1. PICK f : LoopOver(t, calls, m, f)
    BY <1>2
  <2>. DEFINE last == Lowered(t, calls, f[m], calls[m + 1])
              g == [i \in 0..(m + 1) |-> IF i = m + 1 THEN last ELSE f[i]]
  <2>2. \A i \in 0..m : f[i] = IF i = 0 THEN Start(t) ELSE Lowered(t, calls, f[i - 1], calls[i])
    BY <2>1 DEF LoopOver
  <2>3. \A i \in 0..(m + 1) : g[i] = IF i = m + 1 THEN last ELSE f[i]
    OBVIOUS
  <2>4. g[m] = f[m]
    BY <2>3
  <2>5. g = [i \in 0..(m + 1) |-> g[i]]
    OBVIOUS
  <2>. HIDE DEF g
  <2>6. ASSUME NEW i \in 0..(m + 1)
        PROVE  g[i] = IF i = 0 THEN Start(t) ELSE Lowered(t, calls, g[i - 1], calls[i])
    <3>1. CASE i = m + 1
      <4>1. i # 0 /\ i - 1 = m
        BY <3>1
      <4>2. g[i] = last
        BY <2>3, <3>1
      <4>3. last = Lowered(t, calls, g[i - 1], calls[i])
        BY <2>4, <3>1, <4>1
      <4>. QED  BY <4>1, <4>2, <4>3
    <3>2. CASE i # m + 1
      <4>1. i \in 0..m /\ g[i] = f[i]
        BY <2>3, <3>2
      <4>2. CASE i = 0
        BY <2>2, <4>1, <4>2
      <4>3. CASE i # 0
        <5>1. i - 1 \in 0..(m + 1) /\ i - 1 # m + 1
          BY <4>1, <4>3
        <5>2. g[i - 1] = f[i - 1]
          BY <2>3, <5>1
        <5>. QED  BY <2>2, <4>1, <4>3, <5>2
      <4>. QED  BY <4>2, <4>3
    <3>. QED  BY <3>1, <3>2
  <2>7. g = [i \in 0..(m + 1) |-> IF i = 0 THEN Start(t) ELSE Lowered(t, calls, g[i - 1], calls[i])]
    BY <2>5, <2>6
  <2>8. LoopOver(t, calls, m + 1, g) /\ m + 1 \in Nat
    BY <2>7 DEF LoopOver
  <2>. QED  BY <2>8
<1>. HIDE DEF T
<1>3. Nat \subseteq T
  BY <1>1, <1>2, SetInduction
<1>. QED  BY <1>3 DEF T

\* The plan of the calls is that of a sound state.
LEMMA PlanOfCalls ==
  ASSUME NEW t \in Transcripts, NEW calls \in Seq(ToolsOf(Len(t.items)))
  PROVE  \E last : /\ LoopSound(t, calls, Len(calls), last)
                   /\ CallsToEdits(t, calls) = IF last.void THEN Nothing(t)
                        ELSE [edits |-> last.edits, after |-> last.after, deferred |-> FALSE]
<1>. DEFINE n == Len(calls)
            F == CHOOSE f : f = [i \in 0..n |-> IF i = 0 THEN Start(t) ELSE Lowered(t, calls, f[i - 1], calls[i])]
<1>1. CallsToEdits(t, calls) = IF F[n].void THEN Nothing(t)
                               ELSE [edits |-> F[n].edits, after |-> F[n].after, deferred |-> FALSE]
  BY DEF CallsToEdits
<1>2. F = CHOOSE f : LoopOver(t, calls, n, f)
  BY DEF LoopOver
<1>3. n \in Nat
  OBVIOUS
<1>. HIDE DEF n, F
<1>4. LoopOver(t, calls, n, F)
  BY <1>2, <1>3, LoopExists
<1>5. \A i \in 0..n : F[i] = IF i = 0 THEN Start(t) ELSE Lowered(t, calls, F[i - 1], calls[i])
  BY <1>4 DEF LoopOver
<1>. DEFINE T == {m \in Nat : m <= n => LoopSound(t, calls, m, F[m])}
<1>6. 0 \in T
  <2>1. F[0] = Start(t)
    BY <1>3, <1>5
  <2>. QED  BY <2>1, StartSound
<1>7. ASSUME NEW m \in Nat, m \in T PROVE m + 1 \in T
  <2>1. SUFFICES ASSUME m + 1 <= n PROVE LoopSound(t, calls, m + 1, F[m + 1])
    OBVIOUS
  <2>2. PICK i : i = m + 1
    OBVIOUS
  <2>3. i \in 1..Len(calls) /\ i \in 0..n /\ i # 0 /\ i - 1 = m
    BY <1>3, <2>1, <2>2 DEF n
  <2>4. LoopSound(t, calls, i - 1, F[i - 1])
    BY <1>3, <1>7, <2>1, <2>3
  <2>5. F[i] = Lowered(t, calls, F[i - 1], calls[i])
    BY <1>5, <2>3
  <2>. HIDE DEF T
  <2>6. LoopSound(t, calls, i, F[i])
    BY <2>3, <2>4, <2>5, LoweredSound
  <2>. QED  BY <2>2, <2>6
<1>. HIDE DEF T
<1>8. n \in T
  BY <1>3, <1>6, <1>7, SetInduction
<1>9. LoopSound(t, calls, n, F[n])
  BY <1>3, <1>8 DEF T
<1>. QED  BY <1>1, <1>9 DEF n

EditorInv ==
  /\ transcript \in Transcripts
  /\ edit \in [at : {"admitted", "turn", "reply", "calls", "ended", "stopped", "done"}, turn : Nat,
               aborted : BOOLEAN, status : {"none", "completed", "failed"}]
  /\ recorded \in Seq(Tools)
  /\ plan = IF EditorAt("done") /\ Emits THEN CallsToEdits(transcript, recorded) ELSE NoPlan

LEMMA InitEditor == EditorInit => EditorInv
<1>. SUFFICES ASSUME EditorInit PROVE EditorInv
  OBVIOUS
<1>. QED  BY DEF EditorInit, EditorInv, EditorAt

LEMMA EditorStep == EditorInv /\ [EditorNext]_editorVars => EditorInv'
<1>. SUFFICES ASSUME EditorInv, [EditorNext]_editorVars PROVE EditorInv'
  OBVIOUS
<1>. USE DEF EditorAt, Emits
<1>1. ASSUME transcript' = transcript, recorded' = recorded, plan' = plan,
             edit' \in [at : {"admitted", "turn", "reply", "calls", "ended", "stopped"}, turn : Nat,
                        aborted : BOOLEAN, status : {"none", "completed", "failed"}],
             edit.at # "done"
      PROVE  EditorInv'
  <2>1. Tools' = Tools
    BY <1>1 DEF Tools, Count
  <2>2. plan' = NoPlan /\ edit'.at # "done"
    BY <1>1 DEF EditorInv
  <2>. QED  BY <1>1, <2>1, <2>2 DEF EditorInv
<1>2. edit \in [at : {"admitted", "turn", "reply", "calls", "ended", "stopped", "done"}, turn : Nat,
                aborted : BOOLEAN, status : {"none", "completed", "failed"}]
  BY DEF EditorInv
<1>3. CASE AbortEdit
  BY <1>1, <1>2, <1>3 DEF AbortEdit
<1>4. CASE BeginEdit
  BY <1>1, <1>2, <1>4 DEF BeginEdit, EditFails
<1>5. CASE AskModel
  <2>1. CASE edit' = [edit EXCEPT !.at = "reply", !.turn = @ + 1]
    <3>1. edit.turn + 1 \in Nat
      BY <1>2
    <3>2. edit' \in [at : {"reply"}, turn : Nat, aborted : BOOLEAN, status : {"none", "completed", "failed"}]
      BY <1>2, <2>1, <3>1
    <3>. QED  BY <1>1, <1>5, <3>2 DEF AskModel
  <2>2. CASE edit' = EditFails
    BY <1>1, <1>2, <1>5, <2>2 DEF AskModel, EditFails
  <2>. QED  BY <1>5, <2>1, <2>2 DEF AskModel
<1>6. CASE ModelReplies
  BY <1>1, <1>2, <1>6 DEF ModelReplies, EditFails
<1>7. CASE RecordCall
  <2>1. PICK c \in Tools : recorded' = Append(recorded, c)
    BY <1>7 DEF RecordCall
  <2>2. Tools' = Tools
    BY <1>7 DEF RecordCall, Tools, Count
  <2>3. recorded' \in Seq(Tools)
    BY <2>1 DEF EditorInv
  <2>4. plan' = NoPlan /\ edit' = edit /\ transcript' = transcript /\ edit.at # "done"
    BY <1>7 DEF RecordCall, EditorInv
  <2>. QED  BY <2>2, <2>3, <2>4 DEF EditorInv
<1>8. CASE BatchEnds
  BY <1>1, <1>2, <1>8 DEF BatchEnds, EditFails
<1>9. CASE StopEdit
  BY <1>1, <1>2, <1>9 DEF StopEdit
<1>10. CASE EmitPlan
  <2>1. /\ transcript' = transcript /\ recorded' = recorded /\ edit' = [edit EXCEPT !.at = "done"]
        /\ plan' = IF Emits THEN CallsToEdits(transcript, recorded) ELSE plan
        /\ edit.at = "stopped"
    BY <1>10 DEF EmitPlan
  <2>2. Tools' = Tools
    BY <2>1 DEF Tools, Count
  <2>3. /\ edit' \in [at : {"done"}, turn : Nat, aborted : BOOLEAN, status : {"none", "completed", "failed"}]
        /\ edit'.status = edit.status /\ edit'.aborted = edit.aborted
    BY <1>2, <2>1
  <2>4. plan = NoPlan
    BY <2>1 DEF EditorInv
  <2>. QED  BY <2>1, <2>2, <2>3, <2>4 DEF EditorInv
<1>11. CASE UNCHANGED editorVars
  <2>1. Tools' = Tools
    BY <1>11 DEF Tools, Count, editorVars
  <2>. QED  BY <1>11, <2>1 DEF EditorInv, editorVars
<1>. QED  BY <1>3, <1>4, <1>5, <1>6, <1>7, <1>8, <1>9, <1>10, <1>11 DEF EditorNext

LEMMA EmptyPlan ==
  ASSUME plan.edits = <<>>
  PROVE  ElidedLines = {} /\ Elided = {} /\ Covered = {}
BY DEF ElidedLines, Elided, Covered

LEMMA EditorInvKeeps == EditorInv => PlanKeepsItsWord
<1>. SUFFICES ASSUME EditorInv, EditorAt("done") PROVE PlanKeepsItsWord
  BY DEF PlanKeepsItsWord
<1>1. CASE ~Emits
  <2>1. plan = NoPlan /\ plan.edits = <<>>
    BY <1>1 DEF EditorInv, NoPlan
  <2>. QED  BY <2>1, EmptyPlan DEF PlanKeepsItsWord
<1>2. CASE Emits
  <2>1. transcript \in Transcripts /\ recorded \in Seq(ToolsOf(Len(transcript.items)))
    BY DEF EditorInv, Tools, ToolsOf, Count
  <2>2. PICK last : /\ LoopSound(transcript, recorded, Len(recorded), last)
                    /\ plan = IF last.void THEN Nothing(transcript)
                              ELSE [edits |-> last.edits, after |-> last.after, deferred |-> FALSE]
    <3>1. plan = CallsToEdits(transcript, recorded)
      BY <1>2 DEF EditorInv
    <3>. QED  BY <2>1, <3>1, PlanOfCalls
  <2>3. ~edit.aborted /\ edit.status = "completed"
    BY <1>2 DEF Emits
  <2>4. CASE last.void
    <3>1. plan.edits = <<>> /\ plan.deferred
      BY <2>2, <2>4 DEF Nothing
    <3>. QED  BY <2>3, <3>1, EmptyPlan DEF PlanKeepsItsWord
  <2>5. CASE ~last.void
    <3>1. /\ EditsFit(transcript, last) /\ (Apart(transcript) => LinesFit(transcript, recorded, last))
          /\ \A k \in 1..Len(recorded) : recorded[k].tool # "defer"
          /\ plan.edits = last.edits /\ plan.after = last.after
      BY <2>2, <2>5 DEF LoopSound
    <3>2. DOMAIN plan.edits = 1..Len(last.edits) /\ DOMAIN recorded = 1..Len(recorded)
      BY <2>1, <3>1 DEF EditsFit
    <3>3. ElidedLines = last.lines
      <4>1. ASSUME NEW l \in ElidedLines PROVE l \in last.lines
        <5>1. PICK k \in 1..Len(last.edits) : last.edits[k].op = "elide" /\ l \in last.edits[k].lines
          BY <3>1, <3>2 DEF ElidedLines
        <5>. QED  BY <3>1, <5>1 DEF EditsFit
      <4>2. ASSUME NEW l \in last.lines PROVE l \in ElidedLines
        <5>1. PICK k \in 1..Len(last.edits) : last.edits[k].op = "elide" /\ l \in last.edits[k].lines
          BY <3>1 DEF EditsFit
        <5>. QED  BY <3>1, <3>2, <5>1 DEF ElidedLines
      <4>. QED  BY <4>1, <4>2
    <3>4. Elided = OnLines(transcript, last.lines)
      BY <3>3 DEF Elided, OnLines, Positions, Count
    <3>5. ASSUME LinesApart
          PROVE  /\ Elided \cap Untouchable = {}
                 /\ \A p \in Elided : Item(transcript, p).elidable
                 /\ plan.after = Less(Context(transcript), Tokens(transcript, Elided))
      <4>1. Apart(transcript)
        BY <3>5 DEF LinesApart, Apart
      <4>2. /\ \A p \in Elided : Elidable(transcript, p) /\ p \notin Kept(recorded)
            /\ plan.after = Less(Context(transcript), Tokens(transcript, Elided))
        BY <3>1, <3>4, <4>1 DEF LinesFit
      <4>3. ASSUME NEW p \in Elided PROVE p \notin Untouchable /\ Item(transcript, p).elidable
        <5>1. Item(transcript, p).elidable /\ p < ProtectedFrom(transcript) /\ p \notin Kept(recorded)
          BY <4>2 DEF Elidable
        <5>2. p \in Int /\ ProtectedFrom(transcript) \in Int
          BY <2>1, ProtectedType DEF Elided, Position
        <5>3. p \notin ProtectedFrom(transcript)..(Count - 1)
          BY <5>1, <5>2
        <5>. QED  BY <5>1, <5>3 DEF Untouchable
      <4>. QED  BY <4>2, <4>3
    <3>6. Covered \cap ProtectedFrom(transcript)..(Count - 1) = {}
      <4>1. ASSUME NEW p \in Covered PROVE p < ProtectedFrom(transcript)
        <5>1. PICK k \in 1..Len(last.edits) : last.edits[k].op = "inject_digest" /\ p \in last.edits[k].covers
          BY <3>1, <3>2 DEF Covered
        <5>. QED  BY <3>1, <5>1 DEF EditsFit
      <4>2. ProtectedFrom(transcript) \in Int
        BY <2>1, ProtectedType
      <4>. QED  BY <4>1, <4>2
    <3>. QED  BY <2>3, <3>1, <3>2, <3>5, <3>6 DEF PlanKeepsItsWord
  <2>. QED  BY <2>4, <2>5
<1>. QED  BY <1>1, <1>2

\* Whatever the model called, in any number of turns and for any transcript, a plan
\* elides nothing that was kept, is in the tail or has no payload, digests nothing
\* of the tail, and names the context that is left (gobstopper-editor.ts:
\* callsToEdits, main).
THEOREM PlanKeeps == EditorSpec => []PlanKeepsItsWord
<1>1. EditorSpec => []EditorInv
  BY InitEditor, EditorStep, PTL DEF EditorSpec
<1>. QED  BY <1>1, EditorInvKeeps, PTL
=============================================================================
