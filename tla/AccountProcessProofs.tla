------------------------- MODULE AccountProcessProofs -------------------------
(***************************************************************************)
(* The process of a Codex account lives under its lock, and a receipt that *)
(* says closed leaves nothing, for any handles, tasks and numbers of stops.*)
(* Above it, the account is released only when that process is gone, for   *)
(* any numbers of logins, requests, operations and closes.                 *)
(***************************************************************************)
EXTENDS AccountProcess, ManagedAccount, SequenceFacts, TLAPS

Preparing == {"new", "inspected", "locked", "recorded", "ready"}
HandleState ==
  [up : BOOLEAN, closing : BOOLEAN, attempted : BOOLEAN, spawned : BOOLEAN,
   group : BOOLEAN, exited : BOOLEAN, absent : BOOLEAN, drained : BOOLEAN,
   owned : BOOLEAN, broken : BOOLEAN, unsynced : BOOLEAN, released : BOOLEAN,
   had : BOOLEAN, prep : Preparing \cup {"failed", "done"}, stop : Stops, stops : Nat]

\* A handle that has prepared the directories owns the lock file, which has its
\* binding for as long as it owns it and the directories are there.
LockInv(h) ==
  /\ handle[h].owned <=> lock = h
  /\ handle[h].prep \in {"locked", "recorded", "ready"} => handle[h].owned
  /\ h \in scratch => handle[h].owned
  /\ handle[h].prep = "ready" => h \in scratch

\* A child comes after an attempt, of a handle that has not seen it absent; its
\* launch is recorded; and while its host lives its exit is known.
ChildInv(h) ==
  /\ child[h] # "none" => handle[h].attempted
  /\ handle[h].up /\ handle[h].prep \in Preparing => child[h] = "none"
  /\ Alive(h) => /\ handle[h].owned /\ h \in scratch
                 /\ journal[h] \in {"launch-pending", "running", "recovery-required"}
  /\ handle[h].absent => ~Alive(h) /\ handle[h].prep \in {"failed", "done"}
  /\ handle[h].up /\ child[h] \in {"orphans", "gone"} => handle[h].exited
  /\ h \in reused => child[h] = "gone"

\* Past its join a stop has a handle without a child, and takes away what the
\* handle owns in the order in which it finds it.
StopInv(h) ==
  /\ handle[h].stop \in {"removing", "recording", "unlinking", "syncing", "closed"} =>
       ~Alive(h) /\ handle[h].prep \in {"failed", "done"}
  /\ handle[h].stop \in {"removing", "recording", "unlinking"} => handle[h].owned
  /\ handle[h].stop \in {"recording", "unlinking"} => h \notin scratch
  /\ handle[h].stop \in {"syncing", "closed"} => ~handle[h].owned
  /\ handle[h].stop = "closed" => handle[h].released

HandleInv(h) == LockInv(h) /\ ChildInv(h) /\ StopInv(h)
ProcessInv == ProcessTypeOK /\ strangers = FALSE /\ \A h \in Handles : HandleInv(h)

LEMMA TypesAre ==
  ASSUME ProcessTypeOK
  PROVE  /\ handle \in [Handles -> HandleState]
         /\ lock \in Handles \cup {Nobody}
         /\ journal \in [Handles -> Phases] /\ scratch \subseteq Handles
         /\ child \in [Handles -> Groups]
         /\ reused \subseteq Handles /\ strangers \in BOOLEAN
<1>1. HandleState =
       [up : BOOLEAN, closing : BOOLEAN, attempted : BOOLEAN, spawned : BOOLEAN,
        group : BOOLEAN, exited : BOOLEAN, absent : BOOLEAN, drained : BOOLEAN,
        owned : BOOLEAN, broken : BOOLEAN, unsynced : BOOLEAN, released : BOOLEAN,
        had : BOOLEAN, prep : {"new", "inspected", "locked", "recorded", "ready", "failed", "done"},
        stop : Stops, stops : Nat]
  <2>1. Preparing \cup {"failed", "done"} =
          {"new", "inspected", "locked", "recorded", "ready", "failed", "done"}
    BY DEF Preparing
  <2>. QED  BY <2>1 DEF HandleState
<1>. QED  BY <1>1 DEF ProcessTypeOK

LEMMA InitProcess == ProcessInit => ProcessInv
<1> SUFFICES ASSUME ProcessInit PROVE ProcessInv  OBVIOUS
<1>1. ProcessTypeOK
  <2>1. NewHandle \in HandleState
    BY DEF NewHandle, HandleState, Preparing, Stops
  <2>2. handle \in [Handles -> HandleState]
    BY <2>1 DEF ProcessInit
  <2>. QED  BY ZenonT(60), <2>2 DEF ProcessInit, ProcessTypeOK, HandleState, Preparing, Phases, Groups
<1>2. strangers = FALSE
  BY DEF ProcessInit
<1>3. ASSUME NEW h \in Handles PROVE HandleInv(h)
  BY ProcessAssumption DEF ProcessInit, NewHandle, HandleInv, LockInv, ChildInv, StopInv, Alive, Preparing
<1>. QED  BY <1>1, <1>2, <1>3 DEF ProcessInv

\* What a step of one handle leaves alone: everything of the others, and the
\* lock file unless it takes a free one or removes its own.
OnlyHandle(h) ==
  /\ handle' = [handle EXCEPT ![h] = handle'[h]]
  /\ journal' = [journal EXCEPT ![h] = journal'[h]]
  /\ child' = [child EXCEPT ![h] = child'[h]]
  /\ scratch' \in {scratch, scratch \cup {h}, scratch \ {h}}
  /\ reused' \in {reused, reused \cup {h}}
  /\ lock' = lock \/ (lock = Nobody /\ lock' = h) \/ (lock = h /\ lock' = Nobody)
KeepsTypes(h) ==
  /\ handle'[h] \in HandleState /\ journal'[h] \in Phases /\ child'[h] \in Groups

\* It is then enough to look at the handle that moved.
LEMMA OneMoves ==
  ASSUME ProcessInv, NEW h \in Handles, OnlyHandle(h), KeepsTypes(h), strangers' = FALSE, HandleInv(h)'
  PROVE  ProcessInv'
<1>0. /\ handle \in [Handles -> HandleState]
      /\ lock \in Handles \cup {Nobody}
      /\ journal \in [Handles -> Phases] /\ scratch \subseteq Handles
      /\ child \in [Handles -> Groups]
      /\ reused \subseteq Handles
  BY TypesAre DEF ProcessInv
<1>1. ProcessTypeOK'
  <2>1. handle' \in [Handles -> HandleState]
    BY <1>0 DEF OnlyHandle, KeepsTypes
  <2>2. /\ journal' \in [Handles -> Phases] /\ child' \in [Handles -> Groups]
        /\ scratch' \subseteq Handles /\ reused' \subseteq Handles
        /\ lock' \in Handles \cup {Nobody}
    BY <1>0 DEF OnlyHandle, KeepsTypes
  <2>. QED  BY <2>1, <2>2 DEF ProcessTypeOK, HandleState, Preparing
<1>2. ASSUME NEW g \in Handles, g # h PROVE HandleInv(g)'
  <2>1. /\ handle'[g] = handle[g] /\ journal'[g] = journal[g] /\ child'[g] = child[g]
        /\ g \in scratch' <=> g \in scratch
        /\ g \in reused' <=> g \in reused
    BY <1>0, <1>2 DEF OnlyHandle
  <2>2. lock = g <=> lock' = g
    BY <1>2, ProcessAssumption DEF OnlyHandle
  <2>. QED  BY <2>1, <2>2 DEF ProcessInv, HandleInv, LockInv, ChildInv, StopInv, Alive
<1>. QED  BY <1>1, <1>2 DEF ProcessInv

\* One step of one handle.
HandleSteps(h) == Prepare(h) \/ LaunchCutShort(h) \/ ChildStep(h) \/ Drained(h)
                  \/ StopHandle(h) \/ StopStep(h) \/ HostDies(h)

LEMMA InspectKeeps ==
  ASSUME ProcessInv, NEW h \in Handles, Inspect(h)
  PROVE  ProcessInv' /\ OnlyHandle(h)
<1>0. /\ handle \in [Handles -> HandleState] /\ handle[h] \in HandleState
      /\ lock \in Handles \cup {Nobody}
      /\ journal \in [Handles -> Phases] /\ scratch \subseteq Handles
      /\ child \in [Handles -> Groups]
  BY TypesAre DEF ProcessInv
<1>1. HandleInv(h) /\ strangers = FALSE
  BY DEF ProcessInv
<1>2. OnlyHandle(h)
  BY <1>0, <1>1, ProcessAssumption DEF OnlyHandle, Inspect, At, Admitted, StopAt, HandleInv, LockInv, StopInv
<1>3. KeepsTypes(h)
  BY <1>0, <1>1 DEF KeepsTypes, Inspect, At, Admitted, StopAt, HandleState, Preparing, Stops, Phases, Groups
<1>4. strangers' = FALSE
  BY <1>0, <1>1 DEF Inspect, At, Admitted, StopAt, HandleInv, ChildInv
<1>5. HandleInv(h)'
  BY <1>0, <1>1, ProcessAssumption DEF HandleInv, LockInv, ChildInv, StopInv, Alive, Inspect, At, Admitted, StopAt, HandleState, Preparing, Groups
<1>. QED  BY <1>2, <1>3, <1>4, <1>5, OneMoves

LEMMA TakeLockKeeps ==
  ASSUME ProcessInv, NEW h \in Handles, TakeLock(h)
  PROVE  ProcessInv' /\ OnlyHandle(h)
<1>0. /\ handle \in [Handles -> HandleState] /\ handle[h] \in HandleState
      /\ lock \in Handles \cup {Nobody}
      /\ journal \in [Handles -> Phases] /\ scratch \subseteq Handles
      /\ child \in [Handles -> Groups]
  BY TypesAre DEF ProcessInv
<1>1. HandleInv(h) /\ strangers = FALSE
  BY DEF ProcessInv
<1>2. OnlyHandle(h)
  BY <1>0, <1>1, ProcessAssumption DEF OnlyHandle, TakeLock, At, Admitted, StopAt, HandleInv, LockInv, StopInv
<1>3. KeepsTypes(h)
  BY <1>0, <1>1 DEF KeepsTypes, TakeLock, At, Admitted, StopAt, HandleState, Preparing, Stops, Phases, Groups
<1>4. strangers' = FALSE
  BY <1>0, <1>1 DEF TakeLock, At, Admitted, StopAt, HandleInv, ChildInv
<1>5. HandleInv(h)'
  BY <1>0, <1>1, ProcessAssumption DEF HandleInv, LockInv, ChildInv, StopInv, Alive, TakeLock, At, Admitted, StopAt, HandleState, Preparing, Groups
<1>. QED  BY <1>2, <1>3, <1>4, <1>5, OneMoves

LEMMA RecordLockKeeps ==
  ASSUME ProcessInv, NEW h \in Handles, RecordLock(h)
  PROVE  ProcessInv' /\ OnlyHandle(h)
<1>0. /\ handle \in [Handles -> HandleState] /\ handle[h] \in HandleState
      /\ lock \in Handles \cup {Nobody}
      /\ journal \in [Handles -> Phases] /\ scratch \subseteq Handles
      /\ child \in [Handles -> Groups]
  BY TypesAre DEF ProcessInv
<1>1. HandleInv(h) /\ strangers = FALSE
  BY DEF ProcessInv
<1>2. OnlyHandle(h)
  BY <1>0, <1>1, ProcessAssumption DEF OnlyHandle, RecordLock, At, Admitted, StopAt, HandleInv, LockInv, StopInv
<1>3. KeepsTypes(h)
  BY <1>0, <1>1 DEF KeepsTypes, RecordLock, At, Admitted, StopAt, HandleState, Preparing, Stops, Phases, Groups
<1>4. strangers' = FALSE
  BY <1>0, <1>1 DEF RecordLock, At, Admitted, StopAt, HandleInv, ChildInv
<1>5. HandleInv(h)'
  BY <1>0, <1>1, ProcessAssumption DEF HandleInv, LockInv, ChildInv, StopInv, Alive, RecordLock, At, Admitted, StopAt, HandleState, Preparing, Groups
<1>. QED  BY <1>2, <1>3, <1>4, <1>5, OneMoves

LEMMA MakeScratchKeeps ==
  ASSUME ProcessInv, NEW h \in Handles, MakeScratch(h)
  PROVE  ProcessInv' /\ OnlyHandle(h)
<1>0. /\ handle \in [Handles -> HandleState] /\ handle[h] \in HandleState
      /\ lock \in Handles \cup {Nobody}
      /\ journal \in [Handles -> Phases] /\ scratch \subseteq Handles
      /\ child \in [Handles -> Groups]
  BY TypesAre DEF ProcessInv
<1>1. HandleInv(h) /\ strangers = FALSE
  BY DEF ProcessInv
<1>2. OnlyHandle(h)
  BY <1>0, <1>1, ProcessAssumption DEF OnlyHandle, MakeScratch, At, Admitted, StopAt, HandleInv, LockInv, StopInv
<1>3. KeepsTypes(h)
  BY <1>0, <1>1 DEF KeepsTypes, MakeScratch, At, Admitted, StopAt, HandleState, Preparing, Stops, Phases, Groups
<1>4. strangers' = FALSE
  BY <1>0, <1>1 DEF MakeScratch, At, Admitted, StopAt, HandleInv, ChildInv
<1>5. HandleInv(h)'
  BY <1>0, <1>1, ProcessAssumption DEF HandleInv, LockInv, ChildInv, StopInv, Alive, MakeScratch, At, Admitted, StopAt, HandleState, Preparing, Groups
<1>. QED  BY <1>2, <1>3, <1>4, <1>5, OneMoves

LEMMA PrepareFailsKeeps ==
  ASSUME ProcessInv, NEW h \in Handles, PrepareFails(h)
  PROVE  ProcessInv' /\ OnlyHandle(h)
<1>0. /\ handle \in [Handles -> HandleState] /\ handle[h] \in HandleState
      /\ lock \in Handles \cup {Nobody}
      /\ journal \in [Handles -> Phases] /\ scratch \subseteq Handles
      /\ child \in [Handles -> Groups]
  BY TypesAre DEF ProcessInv
<1>1. HandleInv(h) /\ strangers = FALSE
  BY DEF ProcessInv
<1>2. OnlyHandle(h)
  BY <1>0, <1>1, ProcessAssumption DEF OnlyHandle, PrepareFails, At, Admitted, StopAt, HandleInv, LockInv, StopInv
<1>3. KeepsTypes(h)
  <2>1. ASSUME NEW broke \in BOOLEAN
        PROVE  [handle[h] EXCEPT !.prep = "failed", !.exited = TRUE, !.absent = TRUE, !.broken = broke]
                 \in HandleState
    BY <1>0 DEF HandleState
  <2>2. \E broke \in BOOLEAN : handle'[h] =
          [handle[h] EXCEPT !.prep = "failed", !.exited = TRUE, !.absent = TRUE, !.broken = broke]
    BY <1>0 DEF PrepareFails
  <2>. QED  BY ZenonT(60), <1>0, <2>1, <2>2 DEF KeepsTypes, PrepareFails
<1>4. strangers' = FALSE
  BY <1>0, <1>1 DEF PrepareFails, At, Admitted, StopAt, HandleInv, ChildInv
<1>5. HandleInv(h)'
  BY <1>0, <1>1, ProcessAssumption DEF HandleInv, LockInv, ChildInv, StopInv, Alive, PrepareFails, At, Admitted, StopAt, HandleState, Preparing, Groups
<1>. QED  BY <1>2, <1>3, <1>4, <1>5, OneMoves

LEMMA LaunchChildKeeps ==
  ASSUME ProcessInv, NEW h \in Handles, LaunchChild(h)
  PROVE  ProcessInv' /\ OnlyHandle(h)
<1>0. /\ handle \in [Handles -> HandleState] /\ handle[h] \in HandleState
      /\ lock \in Handles \cup {Nobody}
      /\ journal \in [Handles -> Phases] /\ scratch \subseteq Handles
      /\ child \in [Handles -> Groups]
  BY TypesAre DEF ProcessInv
<1>1. HandleInv(h) /\ strangers = FALSE
  BY DEF ProcessInv
<1>2. OnlyHandle(h)
  BY <1>0, <1>1, ProcessAssumption DEF OnlyHandle, LaunchChild, At, Admitted, StopAt, HandleInv, LockInv, StopInv
<1>3. KeepsTypes(h)
  BY <1>0, <1>1 DEF KeepsTypes, LaunchChild, At, Admitted, StopAt, HandleState, Preparing, Stops, Phases, Groups
<1>4. strangers' = FALSE
  BY <1>0, <1>1 DEF LaunchChild, At, Admitted, StopAt, HandleInv, ChildInv
<1>5. HandleInv(h)'
  BY <1>0, <1>1, ProcessAssumption DEF HandleInv, LockInv, ChildInv, StopInv, Alive, LaunchChild, At, Admitted, StopAt, HandleState, Preparing, Groups
<1>. QED  BY <1>2, <1>3, <1>4, <1>5, OneMoves

LEMMA LaunchFailsKeeps ==
  ASSUME ProcessInv, NEW h \in Handles, LaunchFails(h)
  PROVE  ProcessInv' /\ OnlyHandle(h)
<1>0. /\ handle \in [Handles -> HandleState] /\ handle[h] \in HandleState
      /\ lock \in Handles \cup {Nobody}
      /\ journal \in [Handles -> Phases] /\ scratch \subseteq Handles
      /\ child \in [Handles -> Groups]
  BY TypesAre DEF ProcessInv
<1>1. HandleInv(h) /\ strangers = FALSE
  BY DEF ProcessInv
<1>2. OnlyHandle(h)
  <2>1. /\ handle' = [handle EXCEPT ![h] = handle'[h]]
        /\ journal' = [journal EXCEPT ![h] = journal'[h]]
        /\ child' = [child EXCEPT ![h] = child'[h]]
    <3>1. PICK how \in {"record", "throws", "error", "group", "refused", "running"} :
            /\ journal' = IF how = "record" THEN journal ELSE [journal EXCEPT ![h] = "launch-pending"]
            /\ child' = IF how \in {"group", "refused", "running"} THEN [child EXCEPT ![h] = "root"] ELSE child
            /\ handle' = [handle EXCEPT ![h].prep = "failed", ![h].attempted = TRUE,
                            ![h].broken = how \in {"record", "running"},
                            ![h].spawned = how \in {"error", "group", "refused", "running"},
                            ![h].group = how \in {"refused", "running"}]
      BY DEF LaunchFails
    <3>2. journal' = [journal EXCEPT ![h] = journal'[h]] /\ child' = [child EXCEPT ![h] = child'[h]]
      BY <1>0, <3>1
    <3>3. handle' = [handle EXCEPT ![h] = handle'[h]]
      BY <1>0, <3>1
    <3>. QED  BY <3>2, <3>3
  <2>. QED  BY <2>1 DEF OnlyHandle, LaunchFails
<1>3. KeepsTypes(h)
  <2>1. ASSUME NEW b \in BOOLEAN, NEW p \in BOOLEAN, NEW g \in BOOLEAN
        PROVE  [handle[h] EXCEPT !.prep = "failed", !.attempted = TRUE, !.broken = b, !.spawned = p,
                                 !.group = g] \in HandleState
    BY <1>0 DEF HandleState
  <2>2. PICK how \in {"record", "throws", "error", "group", "refused", "running"} :
          handle' = [handle EXCEPT ![h].prep = "failed", ![h].attempted = TRUE,
                       ![h].broken = how \in {"record", "running"},
                       ![h].spawned = how \in {"error", "group", "refused", "running"},
                       ![h].group = how \in {"refused", "running"}]
    BY DEF LaunchFails
  <2>3. handle'[h] = [handle[h] EXCEPT !.prep = "failed", !.attempted = TRUE,
                        !.broken = how \in {"record", "running"},
                        !.spawned = how \in {"error", "group", "refused", "running"},
                        !.group = how \in {"refused", "running"}]
    BY <1>0, <2>2
  <2>4. /\ (how \in {"record", "running"}) \in BOOLEAN /\ (how \in {"refused", "running"}) \in BOOLEAN
        /\ (how \in {"error", "group", "refused", "running"}) \in BOOLEAN
    OBVIOUS
  <2>5. handle'[h] \in HandleState
    BY <2>1, <2>3, <2>4
  <2>6. journal'[h] \in Phases /\ child'[h] \in Groups
    BY <1>0 DEF LaunchFails, Phases, Groups
  <2>. QED  BY <2>5, <2>6 DEF KeepsTypes
<1>4. strangers' = FALSE
  BY <1>0, <1>1 DEF LaunchFails, At, Admitted, StopAt, HandleInv, ChildInv
<1>5. HandleInv(h)'
  BY <1>0, <1>1, ProcessAssumption DEF HandleInv, LockInv, ChildInv, StopInv, Alive, LaunchFails, At, Admitted, StopAt, HandleState, Preparing, Groups
<1>. QED  BY <1>2, <1>3, <1>4, <1>5, OneMoves

LEMMA LaunchCutShortKeeps ==
  ASSUME ProcessInv, NEW h \in Handles, LaunchCutShort(h)
  PROVE  ProcessInv' /\ OnlyHandle(h)
<1>0. /\ handle \in [Handles -> HandleState] /\ handle[h] \in HandleState
      /\ lock \in Handles \cup {Nobody}
      /\ journal \in [Handles -> Phases] /\ scratch \subseteq Handles
      /\ child \in [Handles -> Groups]
  BY TypesAre DEF ProcessInv
<1>1. HandleInv(h) /\ strangers = FALSE
  BY DEF ProcessInv
<1>2. OnlyHandle(h)
  BY <1>0, <1>1, ProcessAssumption DEF OnlyHandle, LaunchCutShort, At, Admitted, StopAt, HandleInv, LockInv, StopInv
<1>3. KeepsTypes(h)
  BY ZenonT(60), <1>0, <1>1 DEF KeepsTypes, LaunchCutShort, At, Admitted, StopAt, HandleState, Preparing, Stops, Phases, Groups
<1>4. strangers' = FALSE
  BY <1>0, <1>1 DEF LaunchCutShort, At, Admitted, StopAt, HandleInv, ChildInv
<1>5. HandleInv(h)'
  BY <1>0, <1>1, ProcessAssumption DEF HandleInv, LockInv, ChildInv, StopInv, Alive, LaunchCutShort, At, Admitted, StopAt, HandleState, Preparing, Groups
<1>. QED  BY <1>2, <1>3, <1>4, <1>5, OneMoves

LEMMA RootExitsKeeps ==
  ASSUME ProcessInv, NEW h \in Handles, RootExits(h)
  PROVE  ProcessInv' /\ OnlyHandle(h)
<1>0. /\ handle \in [Handles -> HandleState] /\ handle[h] \in HandleState
      /\ lock \in Handles \cup {Nobody}
      /\ journal \in [Handles -> Phases] /\ scratch \subseteq Handles
      /\ child \in [Handles -> Groups]
  BY TypesAre DEF ProcessInv
<1>1. HandleInv(h) /\ strangers = FALSE
  BY DEF ProcessInv
<1>2. OnlyHandle(h)
  BY <1>0, <1>1, ProcessAssumption DEF OnlyHandle, RootExits, At, Admitted, StopAt, HandleInv, LockInv, StopInv
<1>3. KeepsTypes(h)
  BY <1>0, <1>1 DEF KeepsTypes, RootExits, At, Admitted, StopAt, HandleState, Preparing, Stops, Phases, Groups
<1>4. strangers' = FALSE
  BY <1>0, <1>1 DEF RootExits, At, Admitted, StopAt, HandleInv, ChildInv
<1>5. HandleInv(h)'
  BY <1>0, <1>1, ProcessAssumption DEF HandleInv, LockInv, ChildInv, StopInv, Alive, RootExits, At, Admitted, StopAt, HandleState, Preparing, Groups
<1>. QED  BY <1>2, <1>3, <1>4, <1>5, OneMoves

LEMMA OrphansExitKeeps ==
  ASSUME ProcessInv, NEW h \in Handles, OrphansExit(h)
  PROVE  ProcessInv' /\ OnlyHandle(h)
<1>0. /\ handle \in [Handles -> HandleState] /\ handle[h] \in HandleState
      /\ lock \in Handles \cup {Nobody}
      /\ journal \in [Handles -> Phases] /\ scratch \subseteq Handles
      /\ child \in [Handles -> Groups]
  BY TypesAre DEF ProcessInv
<1>1. HandleInv(h) /\ strangers = FALSE
  BY DEF ProcessInv
<1>2. OnlyHandle(h)
  BY <1>0, <1>1, ProcessAssumption DEF OnlyHandle, OrphansExit, At, Admitted, StopAt, HandleInv, LockInv, StopInv
<1>3. KeepsTypes(h)
  BY <1>0, <1>1 DEF KeepsTypes, OrphansExit, At, Admitted, StopAt, HandleState, Preparing, Stops, Phases, Groups
<1>4. strangers' = FALSE
  BY <1>0, <1>1 DEF OrphansExit, At, Admitted, StopAt, HandleInv, ChildInv
<1>5. HandleInv(h)'
  BY <1>0, <1>1, ProcessAssumption DEF HandleInv, LockInv, ChildInv, StopInv, Alive, OrphansExit, At, Admitted, StopAt, HandleState, Preparing, Groups
<1>. QED  BY <1>2, <1>3, <1>4, <1>5, OneMoves

LEMMA GroupReusedKeeps ==
  ASSUME ProcessInv, NEW h \in Handles, GroupReused(h)
  PROVE  ProcessInv' /\ OnlyHandle(h)
<1>0. /\ handle \in [Handles -> HandleState] /\ handle[h] \in HandleState
      /\ lock \in Handles \cup {Nobody}
      /\ journal \in [Handles -> Phases] /\ scratch \subseteq Handles
      /\ child \in [Handles -> Groups]
  BY TypesAre DEF ProcessInv
<1>1. HandleInv(h) /\ strangers = FALSE
  BY DEF ProcessInv
<1>2. OnlyHandle(h)
  BY <1>0, <1>1, ProcessAssumption DEF OnlyHandle, GroupReused, At, Admitted, StopAt, HandleInv, LockInv, StopInv
<1>3. KeepsTypes(h)
  BY <1>0, <1>1 DEF KeepsTypes, GroupReused, At, Admitted, StopAt, HandleState, Preparing, Stops, Phases, Groups
<1>4. strangers' = FALSE
  BY <1>0, <1>1 DEF GroupReused, At, Admitted, StopAt, HandleInv, ChildInv
<1>5. HandleInv(h)'
  BY <1>0, <1>1, ProcessAssumption DEF HandleInv, LockInv, ChildInv, StopInv, Alive, GroupReused, At, Admitted, StopAt, HandleState, Preparing, Groups
<1>. QED  BY <1>2, <1>3, <1>4, <1>5, OneMoves

LEMMA DrainedKeeps ==
  ASSUME ProcessInv, NEW h \in Handles, Drained(h)
  PROVE  ProcessInv' /\ OnlyHandle(h)
<1>0. /\ handle \in [Handles -> HandleState] /\ handle[h] \in HandleState
      /\ lock \in Handles \cup {Nobody}
      /\ journal \in [Handles -> Phases] /\ scratch \subseteq Handles
      /\ child \in [Handles -> Groups]
  BY TypesAre DEF ProcessInv
<1>1. HandleInv(h) /\ strangers = FALSE
  BY DEF ProcessInv
<1>2. OnlyHandle(h)
  BY <1>0, <1>1, ProcessAssumption DEF OnlyHandle, Drained, At, Admitted, StopAt, HandleInv, LockInv, StopInv
<1>3. KeepsTypes(h)
  BY <1>0, <1>1 DEF KeepsTypes, Drained, At, Admitted, StopAt, HandleState, Preparing, Stops, Phases, Groups
<1>4. strangers' = FALSE
  BY <1>0, <1>1 DEF Drained, At, Admitted, StopAt, HandleInv, ChildInv
<1>5. HandleInv(h)'
  BY <1>0, <1>1, ProcessAssumption DEF HandleInv, LockInv, ChildInv, StopInv, Alive, Drained, At, Admitted, StopAt, HandleState, Preparing, Groups
<1>. QED  BY <1>2, <1>3, <1>4, <1>5, OneMoves

LEMMA StopHandleKeeps ==
  ASSUME ProcessInv, NEW h \in Handles, StopHandle(h)
  PROVE  ProcessInv' /\ OnlyHandle(h)
<1>0. /\ handle \in [Handles -> HandleState] /\ handle[h] \in HandleState
      /\ lock \in Handles \cup {Nobody}
      /\ journal \in [Handles -> Phases] /\ scratch \subseteq Handles
      /\ child \in [Handles -> Groups]
  BY TypesAre DEF ProcessInv
<1>1. HandleInv(h) /\ strangers = FALSE
  BY DEF ProcessInv
<1>2. OnlyHandle(h)
  BY <1>0, <1>1, ProcessAssumption DEF OnlyHandle, StopHandle, At, Admitted, StopAt, HandleInv, LockInv, StopInv
<1>3. KeepsTypes(h)
  BY <1>0, <1>1 DEF KeepsTypes, StopHandle, At, Admitted, StopAt, HandleState, Preparing, Stops, Phases, Groups
<1>4. strangers' = FALSE
  BY <1>0, <1>1 DEF StopHandle, At, Admitted, StopAt, HandleInv, ChildInv
<1>5. HandleInv(h)'
  BY <1>0, <1>1, ProcessAssumption DEF HandleInv, LockInv, ChildInv, StopInv, Alive, StopHandle, At, Admitted, StopAt, HandleState, Preparing, Groups
<1>. QED  BY <1>2, <1>3, <1>4, <1>5, OneMoves

LEMMA TerminateKeeps ==
  ASSUME ProcessInv, NEW h \in Handles, Terminate(h)
  PROVE  ProcessInv' /\ OnlyHandle(h)
<1>0. /\ handle \in [Handles -> HandleState] /\ handle[h] \in HandleState
      /\ lock \in Handles \cup {Nobody}
      /\ journal \in [Handles -> Phases] /\ scratch \subseteq Handles
      /\ child \in [Handles -> Groups]
  BY TypesAre DEF ProcessInv
<1>1. HandleInv(h) /\ strangers = FALSE
  BY DEF ProcessInv
<1>2. OnlyHandle(h)
  BY <1>0, <1>1, ProcessAssumption DEF OnlyHandle, Terminate, At, Admitted, StopAt, Signal, HandleInv, LockInv, StopInv
<1>3. KeepsTypes(h)
  BY <1>0, <1>1 DEF KeepsTypes, Terminate, At, Admitted, StopAt, Signal, HandleState, Preparing, Stops, Phases, Groups
<1>4. strangers' = FALSE
  BY <1>0, <1>1 DEF Terminate, At, Admitted, StopAt, Signal, HandleInv, ChildInv
<1>5. HandleInv(h)'
  BY <1>0, <1>1, ProcessAssumption DEF HandleInv, LockInv, ChildInv, StopInv, Alive, Terminate, At, Admitted, StopAt, Signal, HandleState, Preparing, Groups
<1>. QED  BY <1>2, <1>3, <1>4, <1>5, OneMoves

LEMMA KillKeeps ==
  ASSUME ProcessInv, NEW h \in Handles, Kill(h)
  PROVE  ProcessInv' /\ OnlyHandle(h)
<1>0. /\ handle \in [Handles -> HandleState] /\ handle[h] \in HandleState
      /\ lock \in Handles \cup {Nobody}
      /\ journal \in [Handles -> Phases] /\ scratch \subseteq Handles
      /\ child \in [Handles -> Groups]
  BY TypesAre DEF ProcessInv
<1>1. HandleInv(h) /\ strangers = FALSE
  BY DEF ProcessInv
<1>2. OnlyHandle(h)
  BY <1>0, <1>1, ProcessAssumption DEF OnlyHandle, Kill, At, Admitted, StopAt, Signal, HandleInv, LockInv, StopInv
<1>3. KeepsTypes(h)
  BY <1>0, <1>1 DEF KeepsTypes, Kill, At, Admitted, StopAt, Signal, HandleState, Preparing, Stops, Phases, Groups
<1>4. strangers' = FALSE
  BY <1>0, <1>1 DEF Kill, At, Admitted, StopAt, Signal, HandleInv, ChildInv
<1>5. HandleInv(h)'
  BY <1>0, <1>1, ProcessAssumption DEF HandleInv, LockInv, ChildInv, StopInv, Alive, Kill, At, Admitted, StopAt, Signal, HandleState, Preparing, Groups
<1>. QED  BY <1>2, <1>3, <1>4, <1>5, OneMoves

LEMMA ProbeKeeps ==
  ASSUME ProcessInv, NEW h \in Handles, Probe(h)
  PROVE  ProcessInv' /\ OnlyHandle(h)
<1>0. /\ handle \in [Handles -> HandleState] /\ handle[h] \in HandleState
      /\ lock \in Handles \cup {Nobody}
      /\ journal \in [Handles -> Phases] /\ scratch \subseteq Handles
      /\ child \in [Handles -> Groups]
  BY TypesAre DEF ProcessInv
<1>1. HandleInv(h) /\ strangers = FALSE
  BY DEF ProcessInv
<1>2. OnlyHandle(h)
  BY <1>0, <1>1, ProcessAssumption DEF OnlyHandle, Probe, At, Admitted, StopAt, HandleInv, LockInv, StopInv
<1>3. KeepsTypes(h)
  BY ZenonT(60), <1>0, <1>1 DEF KeepsTypes, Probe, At, Admitted, StopAt, HandleState, Preparing, Stops, Phases, Groups
<1>4. strangers' = FALSE
  BY <1>0, <1>1 DEF Probe, At, Admitted, StopAt, HandleInv, ChildInv
<1>5. HandleInv(h)'
  BY <1>0, <1>1, ProcessAssumption DEF HandleInv, LockInv, ChildInv, StopInv, Alive, Probe, At, Admitted, StopAt, HandleState, Preparing, Groups
<1>. QED  BY <1>2, <1>3, <1>4, <1>5, OneMoves

LEMMA JoinKeeps ==
  ASSUME ProcessInv, NEW h \in Handles, Join(h)
  PROVE  ProcessInv' /\ OnlyHandle(h)
<1>0. /\ handle \in [Handles -> HandleState] /\ handle[h] \in HandleState
      /\ lock \in Handles \cup {Nobody}
      /\ journal \in [Handles -> Phases] /\ scratch \subseteq Handles
      /\ child \in [Handles -> Groups]
  BY TypesAre DEF ProcessInv
<1>1. HandleInv(h) /\ strangers = FALSE
  BY DEF ProcessInv
<1>2. OnlyHandle(h)
  BY <1>0, <1>1, ProcessAssumption DEF OnlyHandle, Join, At, Admitted, StopAt, HandleInv, LockInv, StopInv
<1>3. KeepsTypes(h)
  BY ZenonT(60), <1>0, <1>1 DEF KeepsTypes, Join, At, Admitted, StopAt, HandleState, Preparing, Stops, Phases, Groups
<1>4. strangers' = FALSE
  BY <1>0, <1>1 DEF Join, At, Admitted, StopAt, HandleInv, ChildInv
<1>5. HandleInv(h)'
  BY <1>0, <1>1, ProcessAssumption DEF HandleInv, LockInv, ChildInv, StopInv, Alive, Join, At, Admitted, StopAt, HandleState, Preparing, Groups
<1>. QED  BY <1>2, <1>3, <1>4, <1>5, OneMoves

LEMMA RemoveFilesKeeps ==
  ASSUME ProcessInv, NEW h \in Handles, RemoveFiles(h)
  PROVE  ProcessInv' /\ OnlyHandle(h)
<1>0. /\ handle \in [Handles -> HandleState] /\ handle[h] \in HandleState
      /\ lock \in Handles \cup {Nobody}
      /\ journal \in [Handles -> Phases] /\ scratch \subseteq Handles
      /\ child \in [Handles -> Groups]
  BY TypesAre DEF ProcessInv
<1>1. HandleInv(h) /\ strangers = FALSE
  BY DEF ProcessInv
<1>2. OnlyHandle(h)
  BY <1>0, <1>1, ProcessAssumption DEF OnlyHandle, RemoveFiles, At, Admitted, StopAt, HandleInv, LockInv, StopInv
<1>3. KeepsTypes(h)
  BY <1>0, <1>1 DEF KeepsTypes, RemoveFiles, At, Admitted, StopAt, HandleState, Preparing, Stops, Phases, Groups
<1>4. strangers' = FALSE
  BY <1>0, <1>1 DEF RemoveFiles, At, Admitted, StopAt, HandleInv, ChildInv
<1>5. HandleInv(h)'
  BY <1>0, <1>1, ProcessAssumption DEF HandleInv, LockInv, ChildInv, StopInv, Alive, RemoveFiles, At, Admitted, StopAt, HandleState, Preparing, Groups
<1>. QED  BY <1>2, <1>3, <1>4, <1>5, OneMoves

LEMMA RecordReleaseKeeps ==
  ASSUME ProcessInv, NEW h \in Handles, RecordRelease(h)
  PROVE  ProcessInv' /\ OnlyHandle(h)
<1>0. /\ handle \in [Handles -> HandleState] /\ handle[h] \in HandleState
      /\ lock \in Handles \cup {Nobody}
      /\ journal \in [Handles -> Phases] /\ scratch \subseteq Handles
      /\ child \in [Handles -> Groups]
  BY TypesAre DEF ProcessInv
<1>1. HandleInv(h) /\ strangers = FALSE
  BY DEF ProcessInv
<1>2. OnlyHandle(h)
  BY <1>0, <1>1, ProcessAssumption DEF OnlyHandle, RecordRelease, At, Admitted, StopAt, HandleInv, LockInv, StopInv
<1>3. KeepsTypes(h)
  BY <1>0, <1>1 DEF KeepsTypes, RecordRelease, At, Admitted, StopAt, HandleState, Preparing, Stops, Phases, Groups
<1>4. strangers' = FALSE
  BY <1>0, <1>1 DEF RecordRelease, At, Admitted, StopAt, HandleInv, ChildInv
<1>5. HandleInv(h)'
  BY <1>0, <1>1, ProcessAssumption DEF HandleInv, LockInv, ChildInv, StopInv, Alive, RecordRelease, At, Admitted, StopAt, HandleState, Preparing, Groups
<1>. QED  BY <1>2, <1>3, <1>4, <1>5, OneMoves

LEMMA UnlinkKeeps ==
  ASSUME ProcessInv, NEW h \in Handles, Unlink(h)
  PROVE  ProcessInv' /\ OnlyHandle(h)
<1>0. /\ handle \in [Handles -> HandleState] /\ handle[h] \in HandleState
      /\ lock \in Handles \cup {Nobody}
      /\ journal \in [Handles -> Phases] /\ scratch \subseteq Handles
      /\ child \in [Handles -> Groups]
  BY TypesAre DEF ProcessInv
<1>1. HandleInv(h) /\ strangers = FALSE
  BY DEF ProcessInv
<1>2. OnlyHandle(h)
  BY <1>0, <1>1, ProcessAssumption DEF OnlyHandle, Unlink, At, Admitted, StopAt, HandleInv, LockInv, StopInv
<1>3. KeepsTypes(h)
  BY <1>0, <1>1 DEF KeepsTypes, Unlink, At, Admitted, StopAt, HandleState, Preparing, Stops, Phases, Groups
<1>4. strangers' = FALSE
  BY <1>0, <1>1 DEF Unlink, At, Admitted, StopAt, HandleInv, ChildInv
<1>5. HandleInv(h)'
  BY <1>0, <1>1, ProcessAssumption DEF HandleInv, LockInv, ChildInv, StopInv, Alive, Unlink, At, Admitted, StopAt, HandleState, Preparing, Groups
<1>. QED  BY <1>2, <1>3, <1>4, <1>5, OneMoves

LEMMA SyncReleaseKeeps ==
  ASSUME ProcessInv, NEW h \in Handles, SyncRelease(h)
  PROVE  ProcessInv' /\ OnlyHandle(h)
<1>0. /\ handle \in [Handles -> HandleState] /\ handle[h] \in HandleState
      /\ lock \in Handles \cup {Nobody}
      /\ journal \in [Handles -> Phases] /\ scratch \subseteq Handles
      /\ child \in [Handles -> Groups]
  BY TypesAre DEF ProcessInv
<1>1. HandleInv(h) /\ strangers = FALSE
  BY DEF ProcessInv
<1>2. OnlyHandle(h)
  BY <1>0, <1>1, ProcessAssumption DEF OnlyHandle, SyncRelease, At, Admitted, StopAt, HandleInv, LockInv, StopInv
<1>3. KeepsTypes(h)
  BY <1>0, <1>1 DEF KeepsTypes, SyncRelease, At, Admitted, StopAt, HandleState, Preparing, Stops, Phases, Groups
<1>4. strangers' = FALSE
  BY <1>0, <1>1 DEF SyncRelease, At, Admitted, StopAt, HandleInv, ChildInv
<1>5. HandleInv(h)'
  BY <1>0, <1>1, ProcessAssumption DEF HandleInv, LockInv, ChildInv, StopInv, Alive, SyncRelease, At, Admitted, StopAt, HandleState, Preparing, Groups
<1>. QED  BY <1>2, <1>3, <1>4, <1>5, OneMoves

LEMMA StopFailsKeeps ==
  ASSUME ProcessInv, NEW h \in Handles, StopFails(h)
  PROVE  ProcessInv' /\ OnlyHandle(h)
<1>0. /\ handle \in [Handles -> HandleState] /\ handle[h] \in HandleState
      /\ lock \in Handles \cup {Nobody}
      /\ journal \in [Handles -> Phases] /\ scratch \subseteq Handles
      /\ child \in [Handles -> Groups]
  BY TypesAre DEF ProcessInv
<1>1. HandleInv(h) /\ strangers = FALSE
  BY DEF ProcessInv
<1>2. OnlyHandle(h)
  BY <1>0, <1>1, ProcessAssumption DEF OnlyHandle, StopFails, At, Admitted, StopAt, HandleInv, LockInv, StopInv
<1>3. KeepsTypes(h)
  <2>1. ASSUME NEW b \in BOOLEAN
        PROVE  [handle[h] EXCEPT !.stop = "none", !.broken = b] \in HandleState
    BY <1>0 DEF HandleState, Stops
  <2>2. PICK broke \in BOOLEAN :
          handle' = [handle EXCEPT ![h].stop = "none", ![h].broken = @ \/ broke]
    BY DEF StopFails
  <2>3. handle'[h] = [handle[h] EXCEPT !.stop = "none", !.broken = handle[h].broken \/ broke]
    BY <1>0, <2>2
  <2>4. (handle[h].broken \/ broke) \in BOOLEAN
    OBVIOUS
  <2>5. handle'[h] \in HandleState
    BY <2>1, <2>3, <2>4
  <2>6. journal'[h] \in Phases /\ child'[h] \in Groups
    BY <1>0 DEF StopFails, Phases
  <2>. QED  BY <2>5, <2>6 DEF KeepsTypes
<1>4. strangers' = FALSE
  BY <1>0, <1>1 DEF StopFails, At, Admitted, StopAt, HandleInv, ChildInv
<1>5. HandleInv(h)'
  BY <1>0, <1>1, ProcessAssumption DEF HandleInv, LockInv, ChildInv, StopInv, Alive, StopFails, At, Admitted, StopAt, HandleState, Preparing, Groups
<1>. QED  BY <1>2, <1>3, <1>4, <1>5, OneMoves

LEMMA HostDiesKeeps ==
  ASSUME ProcessInv, NEW h \in Handles, HostDies(h)
  PROVE  ProcessInv' /\ OnlyHandle(h)
<1>0. /\ handle \in [Handles -> HandleState] /\ handle[h] \in HandleState
      /\ lock \in Handles \cup {Nobody}
      /\ journal \in [Handles -> Phases] /\ scratch \subseteq Handles
      /\ child \in [Handles -> Groups]
  BY TypesAre DEF ProcessInv
<1>1. HandleInv(h) /\ strangers = FALSE
  BY DEF ProcessInv
<1>2. OnlyHandle(h)
  BY <1>0, <1>1, ProcessAssumption DEF OnlyHandle, HostDies, At, Admitted, StopAt, HandleInv, LockInv, StopInv
<1>3. KeepsTypes(h)
  <2>1. [handle[h] EXCEPT !.up = FALSE] \in HandleState
    BY <1>0 DEF HandleState
  <2>. QED  BY <1>0, <2>1 DEF KeepsTypes, HostDies
<1>4. strangers' = FALSE
  BY <1>0, <1>1 DEF HostDies, At, Admitted, StopAt, HandleInv, ChildInv
<1>5. HandleInv(h)'
  BY <1>0, <1>1, ProcessAssumption DEF HandleInv, LockInv, ChildInv, StopInv, Alive, HostDies, At, Admitted, StopAt, HandleState, Preparing, Groups
<1>. QED  BY <1>2, <1>3, <1>4, <1>5, OneMoves

LEMMA StepMoves ==
  ASSUME ProcessInv, NEW h \in Handles, HandleSteps(h)
  PROVE  ProcessInv' /\ OnlyHandle(h)
BY InspectKeeps, TakeLockKeeps, RecordLockKeeps, MakeScratchKeeps, PrepareFailsKeeps, LaunchChildKeeps, LaunchFailsKeeps, LaunchCutShortKeeps, RootExitsKeeps, OrphansExitKeeps, GroupReusedKeeps, DrainedKeeps, StopHandleKeeps, TerminateKeeps, KillKeeps, ProbeKeeps, JoinKeeps, RemoveFilesKeeps, RecordReleaseKeeps, UnlinkKeeps, SyncReleaseKeeps, StopFailsKeeps, HostDiesKeeps
   DEF HandleSteps, Prepare, StopStep, ChildStep

LEMMA ProcessStep == ProcessInv /\ [ProcessNext]_processVars => ProcessInv'
<1> SUFFICES ASSUME ProcessInv, [ProcessNext]_processVars PROVE ProcessInv'
  OBVIOUS
<1>1. CASE UNCHANGED processVars
  BY <1>1 DEF processVars, ProcessInv, ProcessTypeOK, HandleInv, LockInv, ChildInv, StopInv, Alive
<1>2. ASSUME NEW h \in Handles, HandleSteps(h) PROVE ProcessInv'
  BY <1>2, StepMoves
<1>. QED  BY <1>1, <1>2 DEF ProcessNext, HandleSteps

\* The types and the invariant hold in every run of the owners.
THEOREM ProcessInvariant == ProcessSpec => []ProcessInv
<1>. QED  BY InitProcess, ProcessStep, PTL DEF ProcessSpec

\* A live process group has its lock file, its directories and a durable record
\* of its launch, and no signal reaches a stranger's group
\* (codex-account-process.ts: createCodexAccountProcess;
\* codex-managed-process.ts: createOwnedCore).
THEOREM CustodyHolds == ProcessSpec => []ProcessCustody
<1>1. ProcessInv => ProcessCustody
  BY DEF ProcessInv, HandleInv, LockInv, ChildInv, ProcessCustody
<1>. QED  BY ProcessInvariant, <1>1, PTL

\* A stop that answers "closed" leaves no process, no directory and no lock of
\* its own (the receipts of both stopAndJoin).
THEOREM ClosedIsGone == ProcessSpec => []ClosedMeansGone
<1>1. ProcessInv => ClosedMeansGone
  BY DEF ProcessInv, HandleInv, LockInv, StopInv, ClosedMeansGone
<1>. QED  BY ProcessInvariant, <1>1, PTL
-----------------------------------------------------------------------------
(* The lock file keeps what the stores promise of an account.              *)

\* The owner of the lock file made it, and one that has not reached it did not.
LockPast(h) ==
  /\ handle[h].prep \in {"new", "inspected"} => ~handle[h].had
  /\ handle[h].owned => handle[h].had

\* What a step of one handle can do to the account.
SameLock(h) == lock' = lock /\ (handle'[h].had <=> handle[h].had)
LockStep(h) ==
  \/ SameLock(h) /\ (Alive(h)' <=> Alive(h))
  \/ SameLock(h) /\ lock = h
  \/ SameLock(h) /\ ~Alive(h)'
  \/ lock = Nobody /\ lock' = h /\ ~handle[h].had /\ handle'[h].had /\ (Alive(h)' <=> Alive(h))
  \/ lock = h /\ lock' = Nobody /\ handle[h].had /\ handle'[h].had /\ ~Alive(h) /\ ~Alive(h)'

LEMMA StepOfLock ==
  ASSUME ProcessInv, NEW h \in Handles, HandleSteps(h), LockPast(h)
  PROVE  LockPast(h)' /\ LockStep(h)
<1>0. /\ handle \in [Handles -> HandleState] /\ handle[h] \in HandleState
      /\ lock \in Handles \cup {Nobody} /\ h # Nobody
      /\ journal \in [Handles -> Phases]
      /\ child \in [Handles -> Groups]
  BY TypesAre, ProcessAssumption DEF ProcessInv
<1>1. LockInv(h) /\ ChildInv(h) /\ StopInv(h)
  BY DEF ProcessInv, HandleInv
<1>2. CASE Inspect(h)
  <2>1. LockPast(h)'
    BY <1>0, <1>1, <1>2 DEF Inspect, LockPast, LockInv, StopInv, At, Admitted, StopAt, HandleState
  <2>2. LockStep(h)
    BY <1>0, <1>1, <1>2 DEF Inspect, LockStep, SameLock, Alive, LockPast, LockInv, StopInv, At, Admitted, StopAt, HandleState
  <2>. QED  BY <2>1, <2>2
<1>3. CASE TakeLock(h)
  <2>1. LockPast(h)'
    BY <1>0, <1>1, <1>3 DEF TakeLock, LockPast, LockInv, StopInv, At, Admitted, StopAt, HandleState
  <2>2. LockStep(h)
    BY <1>0, <1>1, <1>3 DEF TakeLock, LockStep, SameLock, Alive, LockPast, LockInv, StopInv, At, Admitted, StopAt, HandleState
  <2>. QED  BY <2>1, <2>2
<1>4. CASE RecordLock(h)
  <2>1. LockPast(h)'
    BY <1>0, <1>1, <1>4 DEF RecordLock, LockPast, LockInv, StopInv, At, Admitted, StopAt, HandleState
  <2>2. LockStep(h)
    BY <1>0, <1>1, <1>4 DEF RecordLock, LockStep, SameLock, Alive, LockPast, LockInv, StopInv, At, Admitted, StopAt, HandleState
  <2>. QED  BY <2>1, <2>2
<1>5. CASE MakeScratch(h)
  <2>1. LockPast(h)'
    BY <1>0, <1>1, <1>5 DEF MakeScratch, LockPast, LockInv, StopInv, At, Admitted, StopAt, HandleState
  <2>2. LockStep(h)
    BY <1>0, <1>1, <1>5 DEF MakeScratch, LockStep, SameLock, Alive, LockPast, LockInv, StopInv, At, Admitted, StopAt, HandleState
  <2>. QED  BY <2>1, <2>2
<1>6. CASE PrepareFails(h)
  <2>1. LockPast(h)'
    BY <1>0, <1>1, <1>6 DEF PrepareFails, LockPast, LockInv, StopInv, At, Admitted, StopAt, HandleState
  <2>2. LockStep(h)
    BY <1>0, <1>1, <1>6 DEF PrepareFails, LockStep, SameLock, Alive, LockPast, LockInv, StopInv, At, Admitted, StopAt, HandleState
  <2>. QED  BY <2>1, <2>2
<1>7. CASE LaunchChild(h)
  <2>1. LockPast(h)'
    BY <1>0, <1>1, <1>7 DEF LaunchChild, LockPast, LockInv, StopInv, At, Admitted, StopAt, HandleState
  <2>2. LockStep(h)
    BY <1>0, <1>1, <1>7 DEF LaunchChild, LockStep, SameLock, Alive, LockPast, LockInv, StopInv, At, Admitted, StopAt, HandleState
  <2>. QED  BY <2>1, <2>2
<1>8. CASE LaunchFails(h)
  <2>1. LockPast(h)'
    BY <1>0, <1>1, <1>8 DEF LaunchFails, LockPast, LockInv, StopInv, At, Admitted, StopAt, HandleState
  <2>2. LockStep(h)
    BY <1>0, <1>1, <1>8 DEF LaunchFails, LockStep, SameLock, Alive, LockPast, LockInv, StopInv, At, Admitted, StopAt, HandleState
  <2>. QED  BY <2>1, <2>2
<1>9. CASE LaunchCutShort(h)
  <2>1. LockPast(h)'
    BY <1>0, <1>1, <1>9 DEF LaunchCutShort, LockPast, LockInv, StopInv, At, Admitted, StopAt, HandleState
  <2>2. LockStep(h)
    BY <1>0, <1>1, <1>9 DEF LaunchCutShort, LockStep, SameLock, Alive, LockPast, LockInv, StopInv, At, Admitted, StopAt, HandleState
  <2>. QED  BY <2>1, <2>2
<1>10. CASE RootExits(h)
  <2>1. LockPast(h)'
    BY <1>0, <1>1, <1>10 DEF RootExits, LockPast, LockInv, StopInv, At, Admitted, StopAt, HandleState
  <2>2. LockStep(h)
    BY <1>0, <1>1, <1>10 DEF RootExits, LockStep, SameLock, Alive, LockPast, LockInv, StopInv, At, Admitted, StopAt, HandleState
  <2>. QED  BY <2>1, <2>2
<1>11. CASE OrphansExit(h)
  <2>1. LockPast(h)'
    BY <1>0, <1>1, <1>11 DEF OrphansExit, LockPast, LockInv, StopInv, At, Admitted, StopAt, HandleState
  <2>2. LockStep(h)
    BY <1>0, <1>1, <1>11 DEF OrphansExit, LockStep, SameLock, Alive, LockPast, LockInv, StopInv, At, Admitted, StopAt, HandleState
  <2>. QED  BY <2>1, <2>2
<1>12. CASE GroupReused(h)
  <2>1. LockPast(h)'
    BY <1>0, <1>1, <1>12 DEF GroupReused, LockPast, LockInv, StopInv, At, Admitted, StopAt, HandleState
  <2>2. LockStep(h)
    BY <1>0, <1>1, <1>12 DEF GroupReused, LockStep, SameLock, Alive, LockPast, LockInv, StopInv, At, Admitted, StopAt, HandleState
  <2>. QED  BY <2>1, <2>2
<1>13. CASE Drained(h)
  <2>1. LockPast(h)'
    BY <1>0, <1>1, <1>13 DEF Drained, LockPast, LockInv, StopInv, At, Admitted, StopAt, HandleState
  <2>2. LockStep(h)
    BY <1>0, <1>1, <1>13 DEF Drained, LockStep, SameLock, Alive, LockPast, LockInv, StopInv, At, Admitted, StopAt, HandleState
  <2>. QED  BY <2>1, <2>2
<1>14. CASE StopHandle(h)
  <2>1. LockPast(h)'
    BY <1>0, <1>1, <1>14 DEF StopHandle, LockPast, LockInv, StopInv, At, Admitted, StopAt, HandleState
  <2>2. LockStep(h)
    BY <1>0, <1>1, <1>14 DEF StopHandle, LockStep, SameLock, Alive, LockPast, LockInv, StopInv, At, Admitted, StopAt, HandleState
  <2>. QED  BY <2>1, <2>2
<1>15. CASE Terminate(h)
  <2>1. LockPast(h)'
    BY <1>0, <1>1, <1>15 DEF Terminate, LockPast, LockInv, StopInv, At, Admitted, StopAt, HandleState
  <2>2. LockStep(h)
    BY <1>0, <1>1, <1>15 DEF Terminate, LockStep, SameLock, Alive, LockPast, LockInv, StopInv, At, Admitted, StopAt, HandleState
  <2>. QED  BY <2>1, <2>2
<1>16. CASE Kill(h)
  <2>1. LockPast(h)'
    BY <1>0, <1>1, <1>16 DEF Kill, LockPast, LockInv, StopInv, At, Admitted, StopAt, HandleState
  <2>2. LockStep(h)
    BY <1>0, <1>1, <1>16 DEF Kill, LockStep, SameLock, Alive, LockPast, LockInv, StopInv, At, Admitted, StopAt, HandleState
  <2>. QED  BY <2>1, <2>2
<1>17. CASE Probe(h)
  <2>1. LockPast(h)'
    BY <1>0, <1>1, <1>17 DEF Probe, LockPast, LockInv, StopInv, At, Admitted, StopAt, HandleState
  <2>2. LockStep(h)
    BY <1>0, <1>1, <1>17 DEF Probe, LockStep, SameLock, Alive, LockPast, LockInv, StopInv, At, Admitted, StopAt, HandleState
  <2>. QED  BY <2>1, <2>2
<1>18. CASE Join(h)
  <2>1. LockPast(h)'
    BY <1>0, <1>1, <1>18 DEF Join, LockPast, LockInv, StopInv, At, Admitted, StopAt, HandleState
  <2>2. LockStep(h)
    BY <1>0, <1>1, <1>18 DEF Join, LockStep, SameLock, Alive, LockPast, LockInv, StopInv, At, Admitted, StopAt, HandleState
  <2>. QED  BY <2>1, <2>2
<1>19. CASE RemoveFiles(h)
  <2>1. LockPast(h)'
    BY <1>0, <1>1, <1>19 DEF RemoveFiles, LockPast, LockInv, StopInv, At, Admitted, StopAt, HandleState
  <2>2. LockStep(h)
    BY <1>0, <1>1, <1>19 DEF RemoveFiles, LockStep, SameLock, Alive, LockPast, LockInv, StopInv, At, Admitted, StopAt, HandleState
  <2>. QED  BY <2>1, <2>2
<1>20. CASE RecordRelease(h)
  <2>1. LockPast(h)'
    BY <1>0, <1>1, <1>20 DEF RecordRelease, LockPast, LockInv, StopInv, At, Admitted, StopAt, HandleState
  <2>2. LockStep(h)
    BY <1>0, <1>1, <1>20 DEF RecordRelease, LockStep, SameLock, Alive, LockPast, LockInv, StopInv, At, Admitted, StopAt, HandleState
  <2>. QED  BY <2>1, <2>2
<1>21. CASE Unlink(h)
  <2>1. LockPast(h)'
    BY <1>0, <1>1, <1>21 DEF Unlink, LockPast, LockInv, StopInv, At, Admitted, StopAt, HandleState
  <2>2. LockStep(h)
    BY <1>0, <1>1, <1>21 DEF Unlink, LockStep, SameLock, Alive, LockPast, LockInv, StopInv, At, Admitted, StopAt, HandleState
  <2>. QED  BY <2>1, <2>2
<1>22. CASE SyncRelease(h)
  <2>1. LockPast(h)'
    BY <1>0, <1>1, <1>22 DEF SyncRelease, LockPast, LockInv, StopInv, At, Admitted, StopAt, HandleState
  <2>2. LockStep(h)
    BY <1>0, <1>1, <1>22 DEF SyncRelease, LockStep, SameLock, Alive, LockPast, LockInv, StopInv, At, Admitted, StopAt, HandleState
  <2>. QED  BY <2>1, <2>2
<1>23. CASE StopFails(h)
  <2>1. LockPast(h)'
    BY <1>0, <1>1, <1>23 DEF StopFails, LockPast, LockInv, StopInv, At, Admitted, StopAt, HandleState
  <2>2. LockStep(h)
    BY <1>0, <1>1, <1>23 DEF StopFails, LockStep, SameLock, Alive, LockPast, LockInv, StopInv, At, Admitted, StopAt, HandleState
  <2>. QED  BY <2>1, <2>2
<1>24. CASE HostDies(h)
  <2>1. LockPast(h)'
    BY <1>0, <1>1, <1>24 DEF HostDies, LockPast, LockInv, StopInv, At, Admitted, StopAt, HandleState
  <2>2. LockStep(h)
    BY <1>0, <1>1, <1>24 DEF HostDies, LockStep, SameLock, Alive, LockPast, LockInv, StopInv, At, Admitted, StopAt, HandleState
  <2>. QED  BY <2>1, <2>2
<1>. QED  BY <1>2, <1>3, <1>4, <1>5, <1>6, <1>7, <1>8, <1>9, <1>10, <1>11, <1>12, <1>13, <1>14, <1>15, <1>16, <1>17, <1>18, <1>19, <1>20, <1>21, <1>22, <1>23, <1>24
   DEF HandleSteps, Prepare, StopStep, ChildStep

LEMMA OthersKeepLock ==
  ASSUME ProcessInv, NEW h \in Handles, OnlyHandle(h), NEW g \in Handles, g # h
  PROVE  (LockPast(g)' <=> LockPast(g)) /\ (Alive(g)' <=> Alive(g)) /\ (handle'[g].had <=> handle[g].had)
<1>1. handle'[g] = handle[g] /\ journal'[g] = journal[g] /\ child'[g] = child[g]
  BY TypesAre DEF OnlyHandle, ProcessInv
<1>. QED  BY <1>1 DEF LockPast, Alive

LEMMA LockRefines ==
  ASSUME ProcessInv, \A h \in Handles : LockPast(h), [ProcessNext]_processVars
  PROVE  (\A h \in Handles : LockPast(h)') /\ [Locking!CustodyNext]_(Locking!custodyVars)
<1> DEFINE acc == "account"
<1>1. CASE UNCHANGED processVars
  <2>1. \A g \in Handles : (LockPast(g)' <=> LockPast(g)) /\ (Alive(g)' <=> Alive(g)) /\ (handle'[g].had <=> handle[g].had)
    BY <1>1 DEF processVars, LockPast, Alive
  <2>2. lock' = lock
    BY <1>1 DEF processVars
  <2>. QED  BY <2>1, <2>2 DEF Locking!custodyVars
<1>2. ASSUME NEW h \in Handles, HandleSteps(h)
      PROVE  (\A g \in Handles : LockPast(g)') /\ [Locking!CustodyNext]_(Locking!custodyVars)
  <2>1. OnlyHandle(h) /\ LockPast(h)' /\ LockStep(h)
    BY <1>2, StepMoves, StepOfLock
  <2>2. \A g \in Handles : g # h => (LockPast(g)' <=> LockPast(g)) /\ (Alive(g)' <=> Alive(g)) /\ (handle'[g].had <=> handle[g].had)
    BY <2>1, OthersKeepLock
  <2>3. \A g \in Handles : LockPast(g)'
    BY <2>1, <2>2
  <2>4. h # Nobody
    BY ProcessAssumption
  <2>5. CASE SameLock(h) /\ (Alive(h)' <=> Alive(h))
    <3>1. UNCHANGED Locking!custodyVars
      BY <2>2, <2>5 DEF SameLock, Locking!custodyVars
    <3>. QED  BY <2>3, <3>1
  <2>6. CASE SameLock(h) /\ lock = h /\ Alive(h)'
    <3>1. Locking!Start("account")
      BY <2>2, <2>4, <2>6 DEF SameLock, Locking!Start
    <3>. QED  BY <2>3, <3>1 DEF Locking!CustodyNext
  <2>7. CASE SameLock(h) /\ ~Alive(h)'
    <3>1. Locking!Stop(h)
      BY <2>2, <2>7 DEF SameLock, Locking!Stop
    <3>. QED  BY <2>3, <3>1 DEF Locking!CustodyNext
  <2>8. CASE lock = Nobody /\ lock' = h /\ ~handle[h].had /\ handle'[h].had /\ (Alive(h)' <=> Alive(h))
    <3>1. Locking!Acquire("account", h)
      BY <2>2, <2>4, <2>8 DEF Locking!Acquire
    <3>. QED  BY <2>3, <3>1 DEF Locking!CustodyNext
  <2>9. CASE lock = h /\ lock' = Nobody /\ handle[h].had /\ handle'[h].had /\ ~Alive(h) /\ ~Alive(h)'
    <3>1. Locking!GiveBack("account")
      BY <2>2, <2>4, <2>9 DEF Locking!GiveBack
    <3>. QED  BY <2>3, <3>1 DEF Locking!CustodyNext
  <2>. QED  BY <2>1, <2>5, <2>6, <2>7, <2>8, <2>9 DEF LockStep
<1>. QED  BY <1>1, <1>2 DEF ProcessNext, HandleSteps

\* The lock file of an account keeps of it what the stores promise of theirs, for
\* the two owners of its process: AccountCustody is implemented, and a handle that
\* gave the account back does not take it again (codex-account-process.ts,
\* codex-managed-process.ts: the lock, stopAndJoin).
THEOREM LocksKeepCustody == ProcessSpec => LockCustody
<1>1. ProcessInit => Locking!CustodyInit /\ \A h \in Handles : LockPast(h)
  <2> SUFFICES ASSUME ProcessInit PROVE Locking!CustodyInit /\ \A h \in Handles : LockPast(h)
    OBVIOUS
  <2>1. \A h \in Handles : ~Alive(h) /\ ~handle[h].had /\ LockPast(h)
    BY DEF ProcessInit, NewHandle, Alive, LockPast
  <2>2. {h \in Handles : Alive(h)} = {} /\ {h \in Handles : handle[h].had} = {} /\ lock = Nobody
    BY <2>1 DEF ProcessInit
  <2>. QED  BY <2>1, <2>2 DEF Locking!CustodyInit
<1>2. ProcessInv /\ (\A h \in Handles : LockPast(h)) /\ [ProcessNext]_processVars
        => (\A h \in Handles : LockPast(h))' /\ [Locking!CustodyNext]_(Locking!custodyVars)
  BY LockRefines
<1>. QED  BY <1>1, <1>2, ProcessInvariant, PTL DEF ProcessSpec, LockCustody, Locking!CustodySpec
-----------------------------------------------------------------------------
(* The account: its types, and its release.                                 *)

States == {"unchecked", "unavailable", "recovery-required", "signed-in", "signed-out", "signing-in", "closed"}
Closes == {"none", "starting", "asking", "joined", "refused", "closed"}
Kinds == {"check", "login", "cancel", "logout"}
Operations == [kind : Kinds, gen : Nat, step : {"queued", "waiting", "called", "answered"}, aborted : BOOLEAN,
          returned : BOOLEAN, settled : BOOLEAN, dispatched : BOOLEAN, completed : BOOLEAN,
          login : Nat, signed : BOOLEAN, ver : Nat]
Answers == [type : {"answer"}, id : Nat \ {0}, login : Nat, signed : BOOLEAN, ver : Nat]
Events == [type : {"completed"}, login : Nat] \cup [type : {"updated"}, ver : Nat]
Controllers == [gen : Nat, pending : Nat, state : States, basis : Nat, dispatch : BOOLEAN,
                unresolved : BOOLEAN, early : SUBSET Nat, closing : BOOLEAN, close : Closes, closes : Nat]
Transports == [made : BOOLEAN, ready : BOOLEAN, failed : BOOLEAN, closing : BOOLEAN, next : Nat,
               pending : Nat, retired : SUBSET Nat, attempt : {"none", "stopping", "complete"},
               stop : {"none", "running", "proven"}]
Wires == [queue : Seq(Nat), writing : Nat, kinds : Seq(Kinds \cup {"models"}), pipe : Seq(Answers \cup Events)]
Providers == [alive : BOOLEAN, ver : Nat, signed : BOOLEAN, asked : SUBSET (Nat \ {0}), logins : SUBSET Nat]
Tolds == [ver : Nat, done : SUBSET Nat, full : BOOLEAN, lost : BOOLEAN, at : Nat, closes : Nat]

AccountTypeOK ==
    /\ ctl \in Controllers
    /\ task \in Operations \cup {NoTask}
    /\ lease \in {"none", "held", "released"}
    /\ tr \in Transports
    /\ wire \in Wires
    /\ prov \in Providers
    /\ told \in Tolds
    /\ Len(wire.kinds) = tr.next
    /\ tr.pending <= tr.next
    /\ task.kind # "none" /\ task.step \in {"called", "answered"} => tr.next > 0

LEMMA InitAccount == AccountInit => AccountTypeOK
BY DEF AccountInit, AccountTypeOK, Controllers, Transports, Wires, Providers, Tolds, NoTask, NoLogin, States, Closes

LEMMA TypeTask == ASSUME AccountTypeOK PROVE Aborted(task) \in Operations \cup {NoTask} /\ Retired(tr) \in Transports
   /\ JoinTransport(tr) \in Transports
BY ZenonT(60) DEF AccountTypeOK, Aborted, Operations, NoTask, Retired, Transports, JoinTransport


\* What the controller's functions do to its locals.
LEMMA TypeControllers ==
  ASSUME NEW c \in Controllers
  PROVE  /\ \A s \in States : Invalidate(c, s) \in Controllers
         /\ \A p \in Nat : [c EXCEPT !.pending = p] \in Controllers
         /\ \A b \in BOOLEAN : [c EXCEPT !.dispatch = b] \in Controllers
         /\ \A s \in States : [c EXCEPT !.state = s] \in Controllers
         /\ \A E \in SUBSET Nat : [c EXCEPT !.early = E] \in Controllers
         /\ [c EXCEPT !.unresolved = TRUE] \in Controllers
         /\ [c EXCEPT !.closing = TRUE] \in Controllers
<1>1. c.gen + 1 \in Nat
  BY DEF Controllers
<1>2. ASSUME NEW s \in States PROVE [c EXCEPT !.gen = c.gen + 1, !.state = s] \in Controllers
  BY <1>1 DEF Controllers
<1>3. ASSUME NEW p \in Nat PROVE [c EXCEPT !.pending = p] \in Controllers
  BY DEF Controllers
<1>4. ASSUME NEW b \in BOOLEAN PROVE [c EXCEPT !.dispatch = b] \in Controllers
  BY DEF Controllers
<1>5. ASSUME NEW s \in States PROVE [c EXCEPT !.state = s] \in Controllers
  BY DEF Controllers
<1>6. ASSUME NEW E \in SUBSET Nat PROVE [c EXCEPT !.early = E] \in Controllers
  BY DEF Controllers
<1>7. [c EXCEPT !.unresolved = TRUE] \in Controllers /\ [c EXCEPT !.closing = TRUE] \in Controllers
  BY DEF Controllers
<1>. QED  BY <1>2, <1>3, <1>4, <1>5, <1>6, <1>7 DEF Invalidate

LEMMA TypeEvent ==
  ASSUME AccountTypeOK, NEW e \in Events \cup {[type |-> "disconnected"]}
  PROVE  OnEvent(ctl, e) \in Controllers
<1>1. ctl \in Controllers
  BY DEF AccountTypeOK
<1>2. CASE e.type = "completed" /\ ctl.pending = NoLogin /\ ctl.dispatch
  <2>1. e.login \in Nat
    BY <1>2 DEF Events
  <2>2. ctl.early \cup {e.login} \in SUBSET Nat
    BY <1>1, <2>1 DEF Controllers
  <2>3. [ctl EXCEPT !.early = ctl.early \cup {e.login}] \in Controllers
    BY <1>1, <2>2, TypeControllers
  <2>. QED  BY <1>1, <1>2, <2>3 DEF OnEvent
<1>3. CASE ~(e.type = "completed" /\ ctl.pending = NoLogin /\ ctl.dispatch)
  <2>1. [ctl EXCEPT !.pending = NoLogin] \in Controllers
    BY <1>1, TypeControllers DEF NoLogin
  <2>2. \A s \in States : Invalidate([ctl EXCEPT !.pending = NoLogin], s) \in Controllers
    BY <2>1, TypeControllers
  <2>3. (IF e.type = "disconnected" THEN "unavailable" ELSE "unchecked") \in States
    BY DEF States
  <2>. QED  BY <1>1, <1>3, <2>2, <2>3 DEF OnEvent
<1>. QED  BY <1>2, <1>3

LEMMA TypeReturn ==
  ASSUME NEW c \in Controllers, NEW t \in Operations
  PROVE  /\ RunFailed(c, t) \in Controllers
         /\ LoginFailed(c, t) \in Controllers
         /\ LoginReturned(c, t) \in Controllers
<1>1. RunFailed(c, t) \in Controllers
  BY TypeControllers DEF RunFailed, States
<1>2. LoginFailed(c, t) \in Controllers
  <2>1. [c EXCEPT !.unresolved = TRUE] \in Controllers
    BY TypeControllers
  <2>2. [[c EXCEPT !.unresolved = TRUE] EXCEPT !.pending = NoLogin] \in Controllers
    BY <2>1, TypeControllers DEF NoLogin
  <2>3. [c EXCEPT !.unresolved = TRUE, !.pending = NoLogin] = [[c EXCEPT !.unresolved = TRUE] EXCEPT !.pending = NoLogin]
    OBVIOUS
  <2>4. Invalidate([c EXCEPT !.unresolved = TRUE, !.pending = NoLogin], "recovery-required") \in Controllers
    BY <2>2, <2>3, TypeControllers DEF States
  <2>. QED  BY <2>4 DEF LoginFailed
<1>3. LoginReturned(c, t) \in Controllers
  <2>1. [c EXCEPT !.dispatch = FALSE] \in Controllers
    BY TypeControllers
  <2>2. [[c EXCEPT !.dispatch = FALSE] EXCEPT !.early = {}] \in Controllers
    BY <2>1, TypeControllers
  <2>3. [c EXCEPT !.dispatch = FALSE, !.early = {}] = [[c EXCEPT !.dispatch = FALSE] EXCEPT !.early = {}]
    OBVIOUS
  <2>. QED  BY <2>2, <2>3 DEF LoginReturned
<1>. QED  BY <1>1, <1>2, <1>3

LEMMA TypeControllerStep == ASSUME AccountTypeOK, ControllerStep PROVE AccountTypeOK'
<1>0. ctl \in Controllers /\ tr \in Transports /\ wire \in Wires /\ (CallActive => task \in Operations)
  BY DEF AccountTypeOK, CallActive
<1>1. CASE Dispatch
  <2>1. ctl' \in Controllers
    BY <1>0, <1>1, TypeControllers DEF Dispatch
  <2>2. task' \in Operations /\ task'.step = "waiting"
    BY <1>0, <1>1 DEF Dispatch, Operations
  <2>. QED BY <1>1, <2>1, <2>2 DEF Dispatch, AccountTypeOK
<1>2. ASSUME NEW kind \in Kinds \cup {"models"}, Request(kind)
      PROVE  tr' \in Transports /\ wire' \in Wires /\ Len(wire'.kinds) = tr'.next /\ tr'.pending <= tr'.next /\ tr'.next > 0
  <2>1. tr' \in Transports /\ tr'.next = tr.next + 1 /\ tr'.pending = tr.next + 1 /\ tr.next \in Nat
    <3>1. tr.next \in Nat /\ tr.next + 1 \in Nat
      BY <1>0 DEF Transports
    <3>2. tr' = [tr EXCEPT !.next = tr.next + 1, !.pending = tr.next + 1]
      BY <1>2 DEF Request
    <3>3. [tr EXCEPT !.next = tr.next + 1, !.pending = tr.next + 1] \in Transports
      BY <1>0, <3>1 DEF Transports
    <3>4. tr'.next = tr.next + 1 /\ tr'.pending = tr.next + 1
      BY <1>0, <3>2 DEF Transports
    <3>. QED  BY <3>1, <3>2, <3>3, <3>4
  <2>2. Append(wire.queue, tr.next + 1) \in Seq(Nat) /\ Append(wire.kinds, kind) \in Seq(Kinds \cup {"models"})
        /\ Len(Append(wire.kinds, kind)) = Len(wire.kinds) + 1
    BY <1>0, <1>2 DEF Transports, Wires
  <2>3. wire' = [wire EXCEPT !.queue = Append(@, tr.next + 1), !.kinds = Append(@, kind)]
    BY <1>2 DEF Request
  <2>4. wire' \in Wires /\ wire'.kinds = Append(wire.kinds, kind)
    BY <1>0, <2>2, <2>3 DEF Wires
  <2>. QED BY <2>1, <2>2, <2>4 DEF AccountTypeOK
<1>3. CASE Send
  <2>1. task \in Operations /\ task.kind \in Kinds \cup {"models"} /\ Request(task.kind)
    BY <1>0, <1>3 DEF Send, Operations
  <2>2. tr' \in Transports /\ wire' \in Wires /\ Len(wire'.kinds) = tr'.next /\ tr'.pending <= tr'.next /\ tr'.next > 0
    BY <2>1, <1>2
  <2>3. task' \in Operations
    BY <2>1, <1>3 DEF Send, Operations
  <2>. QED BY <2>2, <2>3, <1>3 DEF Send, AccountTypeOK
<1>4. CASE Continue
  <2>1. task \in Operations /\ UNCHANGED <<lease, prov, told>>
    BY <1>0, <1>4 DEF Continue
  <2>2. CASE ReadAccount
    <3>1. CASE Request("models") /\ task' = [task EXCEPT !.step = "called"] /\ UNCHANGED ctl
      BY <3>1, <2>1, <1>2 DEF AccountTypeOK, Operations
    <3>2. CASE \E s \in {"signed-out", "signing-in", "unavailable"} :
                 ctl' = [ctl EXCEPT !.state = s] /\ task' = NoTask /\ UNCHANGED <<tr, wire>>
      <4>1. PICK s \in {"signed-out", "signing-in", "unavailable"} :
               ctl' = [ctl EXCEPT !.state = s] /\ task' = NoTask /\ UNCHANGED <<tr, wire>>
        BY <3>2
      <4>2. ctl' \in Controllers
        BY <1>0, <4>1, TypeControllers DEF States
      <4>. QED  BY <2>1, <4>1, <4>2 DEF AccountTypeOK, NoTask
    <3>. QED  BY <2>2, <3>1, <3>2 DEF ReadAccount
  <2>3. CASE ReadModels
    BY <2>1, <2>3 DEF ReadModels, AccountTypeOK, Operations, Controllers, States, NoTask
  <2>4. CASE StartLogin
    <3>1. CASE task.login \in ctl.early
      <4>1. ctl' \in Controllers
        BY <1>0, <2>4, <3>1, TypeControllers DEF StartLogin, States
      <4>2. task' \in Operations /\ task'.step = task.step
        <5>1. task' = [task EXCEPT !.settled = TRUE, !.completed = TRUE]
          BY <2>4, <3>1 DEF StartLogin
        <5>. QED  BY <2>1, <5>1 DEF Operations
      <4>3. UNCHANGED <<tr, wire>> /\ task.kind # "none"
        BY <2>1, <2>4 DEF StartLogin, Operations, Kinds
      <4>. QED  BY <2>1, <4>1, <4>2, <4>3 DEF AccountTypeOK
    <3>2. CASE task.login \notin ctl.early
      <4>1. [ctl EXCEPT !.pending = task.login, !.state = "signing-in"] \in Controllers
        BY <1>0, <2>1 DEF Controllers, Operations, States
      <4>2. ctl' \in Controllers
        BY <2>1, <2>4, <3>2, <4>1, TypeReturn DEF StartLogin
      <4>. QED  BY <2>1, <2>4, <3>2, <4>2 DEF StartLogin, AccountTypeOK, NoTask
    <3>. QED  BY <3>1, <3>2
  <2>5. CASE CancelLogin
    BY <2>1, <2>5 DEF CancelLogin, AccountTypeOK, Operations, Controllers, States, NoLogin, NoTask
  <2>6. CASE Logout
    <3>1. ctl' \in Controllers
      BY <1>0, <2>6, TypeControllers DEF Logout, NoLogin
    <3>2. task' \in Operations
      BY <2>1, <2>6 DEF Logout, Operations
    <3>. QED  BY <2>1, <2>6, <3>1, <3>2, <1>2 DEF Logout, AccountTypeOK, Kinds
  <2>7. wire.kinds[tr.next] \in Kinds \cup {"models"}
    BY <1>0, <2>1, <1>4 DEF Continue, AccountTypeOK, Operations, Kinds, Transports, Wires
  <2>8. ReadAccount \/ ReadModels \/ StartLogin \/ CancelLogin \/ Logout
    BY <2>7, <1>4 DEF Continue, Kinds
  <2>. QED BY <2>2, <2>3, <2>4, <2>5, <2>6, <2>8
<1>5. CASE FailTransport
  <2>1. ctl' \in Controllers
    <3>1. [ctl EXCEPT !.pending = NoLogin] \in Controllers
      BY <1>0, TypeControllers DEF NoLogin
    <3>2. ctl' = ctl \/ ctl' = [ctl EXCEPT !.pending = NoLogin]
      BY <1>5 DEF FailTransport
    <3>. QED  BY <1>0, <3>1, <3>2
  <2>2. task \in Operations /\ task' \in {NoTask, [task EXCEPT !.settled = TRUE]}
    BY <1>0, <1>5 DEF FailTransport
  <2>3. [task EXCEPT !.settled = TRUE] \in Operations /\ [task EXCEPT !.settled = TRUE].step = task.step
    BY <2>2 DEF Operations
  <2>. QED  BY <2>1, <2>2, <2>3, <1>5 DEF FailTransport, AccountTypeOK, NoTask, Operations
<1>6. CASE AnswerCaller
  <2>1. task \in Operations
    BY <1>6 DEF AnswerCaller, AccountTypeOK
  <2>2. ctl' \in Controllers
    BY <1>0, <1>6, <2>1, TypeReturn DEF AnswerCaller
  <2>3. task' \in Operations \cup {NoTask} /\ (task' # NoTask => task'.step = task.step)
    BY <2>1, <1>6 DEF AnswerCaller, Operations
  <2>4. told' \in Tolds
    BY <1>6, <1>0 DEF AnswerCaller, AccountTypeOK, Tolds, Transports
  <2>. QED  BY <1>6, <2>1, <2>2, <2>3, <2>4 DEF AnswerCaller, AccountTypeOK, NoTask, Operations
<1>. QED BY <1>1, <1>3, <1>4, <1>5, <1>6 DEF ControllerStep

LEMMA TypeTransportSteps ==
  ASSUME AccountTypeOK, TransportStep \/ FinishWrite \/ Disconnect
  PROVE  AccountTypeOK'
<1>0. ctl \in Controllers /\ tr \in Transports /\ wire \in Wires /\ prov \in Providers /\ told \in Tolds
  BY DEF AccountTypeOK
<1>1. CASE Initialize
  BY <1>1 DEF Initialize, AccountTypeOK, Transports
<1>2. CASE AccountWrite
  <2>1. Tail(wire.queue) \in Seq(Nat) /\ Head(wire.queue) \in Nat
    BY <1>0, <1>2 DEF AccountWrite, Wires
  <2>2. PICK n \in Nat : wire' = [wire EXCEPT !.queue = Tail(wire.queue), !.writing = n]
    <3>1. wire' = [wire EXCEPT !.queue = Tail(wire.queue), !.writing =
            IF Listening /\ tr.pending = Head(wire.queue) THEN Head(wire.queue) ELSE 0]
      BY <1>2 DEF AccountWrite
    <3>2. (IF Listening /\ tr.pending = Head(wire.queue) THEN Head(wire.queue) ELSE 0) \in Nat
      BY <2>1
    <3>. QED  BY <3>1, <3>2
  <2>3. wire' \in Wires /\ wire'.kinds = wire.kinds
    BY <1>0, <2>1, <2>2 DEF Wires
  <2>. QED  BY <2>3, <1>2 DEF AccountWrite, AccountTypeOK
<1>3. CASE FinishWrite
  <2>1. wire' \in Wires /\ wire'.kinds = wire.kinds
    BY <1>0, <1>3 DEF FinishWrite, Wires
  <2>2. wire.writing \in Nat \ {0}
    BY <1>0, <1>3 DEF FinishWrite, Wires
  <2>3. PICK L \in SUBSET Nat : prov' = [prov EXCEPT !.asked = prov.asked \cup {wire.writing}, !.logins = L]
    <3>1. prov.logins \cup {wire.writing} \in SUBSET Nat /\ prov.logins \in SUBSET Nat
      BY <1>0, <2>2 DEF Providers
    <3>. QED  BY <3>1, <1>3 DEF FinishWrite
  <2>4. prov' \in Providers
    BY <1>0, <2>2, <2>3 DEF Providers
  <2>. QED  BY <2>1, <2>4, <1>3 DEF FinishWrite, AccountTypeOK
<1>4. ASSUME TransportFails PROVE ctl' \in Controllers /\ tr' \in Transports /\ task' \in Operations \cup {NoTask}
             /\ tr'.next = tr.next /\ tr'.pending = 0 /\ (task' # NoTask => task \in Operations /\ task'.step = task.step)
  <2>1. ctl' \in Controllers
    BY <1>0, <1>4, TypeEvent DEF TransportFails
  <2>2. tr' \in Transports /\ tr'.next = tr.next /\ tr'.pending = 0
    <3>1. JoinTransport(tr) \in Transports /\ JoinTransport(tr).next = tr.next /\ JoinTransport(tr).pending = 0
      BY <1>0, TypeTask DEF JoinTransport, Transports
    <3>2. tr' = [JoinTransport(tr) EXCEPT !.failed = TRUE]
      BY <1>4 DEF TransportFails
    <3>. QED  BY <3>1, <3>2 DEF Transports
  <2>3. task' \in {task, Aborted(task)}
    BY <1>4 DEF TransportFails
  <2>. QED  BY <2>1, <2>2, <2>3, TypeTask DEF Aborted, Operations, AccountTypeOK
<1>5. CASE Disconnect
  <2>1. wire' \in Wires /\ wire'.kinds = wire.kinds
    <3>1. wire' = [wire EXCEPT !.writing = 0, !.pipe = <<>>] /\ <<>> \in Seq(Answers \cup Events)
      BY <1>5 DEF Disconnect
    <3>. QED  BY <1>0, <3>1 DEF Wires
  <2>2. tr.next \in Nat
    BY <1>0 DEF Transports
  <2>. QED  BY <2>1, <2>2, <1>4, <1>5 DEF Disconnect, AccountTypeOK, NoTask, Operations, Kinds
<1>6. CASE Receive
  <2>1. Head(wire.pipe) \in Answers \cup Events /\ Tail(wire.pipe) \in Seq(Answers \cup Events)
    BY <1>0, <1>6 DEF Receive, Wires
  <2>2. wire' \in Wires /\ wire'.kinds = wire.kinds /\ UNCHANGED <<lease, prov>>
    BY <1>0, <1>6, <2>1 DEF Receive, Wires
  <2>0. tr.next \in Nat /\ tr.pending \in Nat
    BY <1>0 DEF Transports
  <2>3. CASE Head(wire.pipe).type = "answer"
    <3> DEFINE a == Head(wire.pipe)
    <3>1. a \in Answers /\ ReceiveAnswer(a)
      BY <1>6, <2>1, <2>3 DEF Receive, Events
    <3>2. CASE a.id \in tr.retired
      <4>1. tr' \in Transports /\ tr'.next = tr.next
        BY <1>0, <3>1, <3>2 DEF ReceiveAnswer, Transports
      <4>2. tr'.pending = tr.pending
        BY <1>0, <3>1, <3>2 DEF ReceiveAnswer, Transports
      <4>. QED  BY <2>2, <3>1, <3>2, <4>1, <4>2 DEF ReceiveAnswer, AccountTypeOK
    <3>3. CASE a.id \notin tr.retired /\ a.id = tr.pending
      <4>1. tr' \in Transports /\ tr'.next = tr.next /\ tr'.pending = 0 /\ tr.next > 0
        BY <1>0, <3>1, <3>3 DEF ReceiveAnswer, Transports, AccountTypeOK, Answers
      <4>2. task' = [task EXCEPT !.step = "answered", !.login = a.login, !.signed = a.signed,
                                 !.ver = IF a.signed THEN a.ver ELSE @]
            /\ UNCHANGED <<ctl, told>>
        BY <3>1, <3>3 DEF ReceiveAnswer
      <4>3. task' \in Operations \cup {NoTask}
        <5>1. a.login \in Nat /\ a.signed \in BOOLEAN /\ a.ver \in Nat
          BY <3>1 DEF Answers
        <5>2. CASE task = NoTask
          BY <4>2, <5>2 DEF NoTask
        <5>3. CASE task \in Operations
          <6>1. (IF a.signed THEN a.ver ELSE task.ver) \in Nat
            BY <5>1, <5>3 DEF Operations
          <6>. QED  BY <4>2, <5>1, <5>3, <6>1 DEF Operations
        <5>. QED  BY <5>2, <5>3 DEF AccountTypeOK
      <4>. QED  BY <2>2, <4>1, <4>2, <4>3 DEF AccountTypeOK
    <3>4. CASE a.id \notin tr.retired /\ a.id # tr.pending
      BY <2>0, <2>2, <3>1, <3>4, <1>4 DEF ReceiveAnswer, AccountTypeOK, NoTask, Operations, Kinds
    <3>. QED  BY <3>2, <3>3, <3>4
  <2>4. CASE Head(wire.pipe).type # "answer"
    <3> DEFINE e == Head(wire.pipe)
    <3>1. e \in Events /\ ReceiveEvent(e)
      BY <1>6, <2>1, <2>4 DEF Receive, Answers
    <3>2. ctl' \in Controllers
      BY <3>1, TypeEvent DEF ReceiveEvent
    <3>3. task' \in {task, Aborted(task)} /\ tr' \in {tr, Retired(tr)}
      BY <3>1 DEF ReceiveEvent
    <3>4. tr' \in Transports /\ tr'.next = tr.next /\ tr'.pending <= tr'.next
      <4>1. Retired(tr).next = tr.next /\ Retired(tr).pending = 0
        BY <1>0 DEF Retired, Transports
      <4>. QED  BY <1>0, <2>0, <3>3, <4>1, TypeTask DEF AccountTypeOK
    <3>5. task' \in Operations \cup {NoTask} /\ (task' # NoTask => task \in Operations /\ task'.step = task.step)
      BY <3>3, TypeTask DEF Aborted, Operations, AccountTypeOK
    <3>6. told' \in Tolds
      BY <1>0, <3>1 DEF ReceiveEvent, Tolds, Events
    <3>. QED  BY <2>2, <3>2, <3>4, <3>5, <3>6 DEF AccountTypeOK, NoTask, Operations, Kinds
  <2>. QED  BY <2>3, <2>4
<1>7. CASE AttemptEnds
  <2>1. tr' \in Transports /\ tr'.next = tr.next /\ tr'.pending = tr.pending
    BY <1>0, <1>7 DEF AttemptEnds, Transports
  <2>2. PICK x \in Closes : ctl' = [ctl EXCEPT !.closes = 0, !.close = x]
    BY <1>0, <1>7 DEF AttemptEnds, Controllers, Closes
  <2>3. ctl' \in Controllers
    BY <1>0, <2>2 DEF Controllers
  <2>. QED  BY <2>1, <2>3, <1>7 DEF AttemptEnds, AccountTypeOK
<1>8. CASE StopSettles
  BY <1>8 DEF StopSettles, AccountTypeOK, Transports
<1>. QED  BY <1>1, <1>2, <1>3, <1>5, <1>6, <1>7, <1>8 DEF TransportStep

LEMMA TypeOtherSteps ==
  ASSUME AccountTypeOK,
         \/ \E kind \in {"check", "login", "cancel", "logout"} : RunCall(kind)
         \/ RunRefused \/ TimeOut \/ CloseAccount \/ CloseStep
         \/ \E id \in 1..tr.next : ProviderAnswers(id) \/ ProviderCompletes(id)
         \/ ProviderChanges \/ ProviderExits
  PROVE  AccountTypeOK'
<1>0. ctl \in Controllers /\ tr \in Transports /\ wire \in Wires /\ prov \in Providers /\ told \in Tolds
  BY DEF AccountTypeOK
<1>1. tr.next \in Nat /\ tr.pending \in Nat /\ tr.pending <= tr.next /\ Retired(tr).next = tr.next /\ Retired(tr).pending = 0
  BY <1>0 DEF Transports, Retired, AccountTypeOK
<1>2. Aborted(task) \in Operations \cup {NoTask} /\ (Aborted(task) # NoTask => task \in Operations /\ Aborted(task).step = task.step)
  BY TypeTask DEF AccountTypeOK, Aborted, Operations
<1>3. ASSUME NEW kind \in {"check", "login", "cancel", "logout"}, RunCall(kind) PROVE AccountTypeOK'
  <2>1. ctl' \in Controllers
    BY <1>0, <1>3, TypeControllers DEF RunCall, States
  <2>2. task' \in Operations /\ task'.step = "queued"
    <3>1. ctl.gen + 1 \in Nat
      BY <1>0 DEF Controllers
    <3>. QED  BY <1>3, <3>1 DEF RunCall, Operation, Operations, Kinds, NoLogin
  <2>3. tr' \in Transports /\ tr'.next = tr.next /\ tr'.pending = tr.pending
    BY <1>0, <1>3 DEF RunCall, Transports
  <2>4. prov' \in Providers
    BY <1>0, <1>3 DEF RunCall, Providers
  <2>. QED  BY <1>3, <2>1, <2>2, <2>3, <2>4 DEF RunCall, AccountTypeOK
<1>4. CASE RunRefused
  <2>1. ctl' \in Controllers
    BY <1>0, <1>4, TypeControllers DEF RunRefused, States
  <2>. QED  BY <1>4, <2>1 DEF RunRefused, AccountTypeOK
<1>5. CASE TimeOut
  BY <1>1, <1>2, <1>5, TypeTask DEF TimeOut, AccountTypeOK, NoTask, Operations, Kinds
<1>6. CASE CloseAccount
  <2>1. ctl' \in Controllers
    <3>1. [ctl EXCEPT !.closing = TRUE, !.pending = NoLogin, !.close = "starting"] \in Controllers
      BY <1>0 DEF Controllers, Closes, NoLogin
    <3>. QED  BY <1>6, <3>1, TypeControllers DEF CloseAccount, States
  <2>2. told' \in Tolds
    BY <1>0, <1>6 DEF CloseAccount, Tolds
  <2>. QED  BY <1>1, <1>2, <1>6, <2>1, <2>2, TypeTask DEF CloseAccount, AccountTypeOK, NoTask, Operations, Kinds
<1>7. CASE CloseStarts
  <2>1. ctl' \in Controllers
    <3>1. ctl' \in {[ctl EXCEPT !.state = "closed", !.close = "closed"], [ctl EXCEPT !.close = "joined"],
                    [ctl EXCEPT !.close = "asking", !.closes = ctl.closes + 1]}
      BY <1>7 DEF CloseStarts
    <3>2. ctl.closes + 1 \in Nat
      BY <1>0 DEF Controllers
    <3>. QED  BY ZenonT(60), <1>0, <3>1, <3>2 DEF Controllers, Closes, States
  <2>2. CASE UNCHANGED <<tr, wire>>
    BY <1>7, <2>1, <2>2 DEF CloseStarts, AccountTypeOK
  <2>3. CASE tr' = JoinTransport(tr) /\ wire' = [wire EXCEPT !.pipe = <<>>]
    <3>1. tr' \in Transports /\ tr'.next = tr.next /\ tr'.pending = 0
      BY <1>0, <2>3, TypeTask DEF JoinTransport, Transports
    <3>2. wire' \in Wires /\ wire'.kinds = wire.kinds
      <4>1. <<>> \in Seq(Answers \cup Events)
        OBVIOUS
      <4>. QED  BY <1>0, <2>3, <4>1 DEF Wires
    <3>. QED  BY <1>1, <1>7, <2>1, <3>1, <3>2 DEF CloseStarts, AccountTypeOK
  <2>. QED  BY <1>7, <2>2, <2>3 DEF CloseStarts
<1>8. CASE CloseReleases
  BY <1>8 DEF CloseReleases, AccountTypeOK, Controllers, Closes, States
<1>9. CASE CloseUnproven
  BY <1>9 DEF CloseUnproven, AccountTypeOK, Controllers, Closes, States
<1>10. ASSUME NEW f \in Answers \cup Events, Prints(f) PROVE wire' \in Wires /\ wire'.kinds = wire.kinds
  <2>1. Append(wire.pipe, f) \in Seq(Answers \cup Events)
    BY <1>0 DEF Wires
  <2>. QED  BY <1>0, <1>10, <2>1 DEF Prints, Wires
<1>11. ASSUME NEW id \in 1..tr.next, ProviderAnswers(id) PROVE AccountTypeOK'
  <2> DEFINE f == [type |-> "answer", id |-> id,
             login |-> IF wire.kinds[id] = "login" THEN id ELSE NoLogin,
             signed |-> wire.kinds[id] = "check" /\ prov.signed, ver |-> prov.ver]
  <2>1. prov.ver \in Nat /\ prov.signed \in BOOLEAN /\ id \in Nat \ {0}
    BY <1>0, <1>1, <1>11 DEF Providers
  <2>2. (IF wire.kinds[id] = "login" THEN id ELSE NoLogin) \in Nat
    BY <2>1 DEF NoLogin
  <2>3. f \in Answers
    BY <2>1, <2>2 DEF Answers
  <2>4. wire' \in Wires /\ wire'.kinds = wire.kinds
    BY <1>10, <1>11, <2>3 DEF ProviderAnswers
  <2>5. prov' \in Providers
    BY <1>0, <1>11 DEF ProviderAnswers, Providers
  <2>. QED  BY <1>11, <2>4, <2>5 DEF ProviderAnswers, AccountTypeOK
<1>12. ASSUME NEW id \in 1..tr.next, ProviderCompletes(id) PROVE AccountTypeOK'
  <2>1. [type |-> "completed", login |-> id] \in Events
    BY <1>1 DEF Events
  <2>2. wire' \in Wires /\ wire'.kinds = wire.kinds
    BY <1>10, <1>12, <2>1 DEF ProviderCompletes
  <2>3. prov' \in Providers
    BY <1>0, <1>12 DEF ProviderCompletes, Providers
  <2>. QED  BY <1>12, <2>2, <2>3 DEF ProviderCompletes, AccountTypeOK
<1>13. CASE ProviderChanges
  <2>1. prov.ver + 1 \in Nat
    BY <1>0 DEF Providers
  <2>2. [type |-> "updated", ver |-> prov.ver + 1] \in Events
    BY <2>1 DEF Events
  <2>3. wire' \in Wires /\ wire'.kinds = wire.kinds
    BY <1>10, <1>13, <2>2 DEF ProviderChanges
  <2>4. prov' \in Providers
    BY <1>0, <1>13, <2>1 DEF ProviderChanges, Providers
  <2>. QED  BY <1>13, <2>3, <2>4 DEF ProviderChanges, AccountTypeOK
<1>14. CASE ProviderExits
  BY <1>14 DEF ProviderExits, AccountTypeOK, Providers
<1>. QED
  BY <1>3, <1>4, <1>5, <1>6, <1>7, <1>8, <1>9, <1>11, <1>12, <1>13, <1>14 DEF CloseStep

LEMMA AccountTypes == AccountSpec => []AccountTypeOK
<1>1. AccountTypeOK /\ [AccountNext]_accountVars => AccountTypeOK'
  <2>1. CASE UNCHANGED accountVars
    BY <2>1 DEF accountVars, AccountTypeOK
  <2>. QED  BY <2>1, TypeControllerStep, TypeTransportSteps, TypeOtherSteps DEF AccountNext
<1>. QED  BY InitAccount, <1>1, PTL DEF AccountSpec

-----------------------------------------------------------------------------
(* The release.                                                              *)

\* A complete attempt of the transport to join has the proof that the process is
\* gone and nothing left to write, and a closing transport takes on nothing; the
\* controller releases on such an attempt, and from its close on it admits nothing.
ReleaseInv ==
    /\ prov.alive \/ tr.attempt # "none" \/ tr.stop # "none" \/ wire.pipe # <<>> => tr.made
    /\ tr.made => lease # "none"
    /\ tr.attempt # "none" => tr.closing
    /\ tr.stop = "proven" => ~prov.alive
    /\ tr.attempt = "complete" =>
         tr.stop = "proven" /\ tr.pending = 0 /\ wire.queue = <<>> /\ wire.writing = 0
    /\ ctl.close # "none" => ctl.closing
    /\ ctl.close = "joined" => tr.attempt = "complete"
    /\ lease = "released" =>
         ctl.close = "closed" /\ tr.attempt = "complete" /\ ctl.closes = 0 /\ ~CallActive

LEMMA InitRelease == AccountInit => ReleaseInv
BY DEF AccountInit, ReleaseInv, CallActive, NoTask

\* What the controller's functions leave alone.
LEMMA CloseKept ==
  ASSUME NEW c \in Controllers, NEW c2,
         \/ \E s : c2 = Invalidate(c, s)
         \/ \E e : c2 = OnEvent(c, e)
         \/ \E t : c2 = LoginReturned(LoginFailed(RunFailed(c, t), t), t)
         \/ \E s : c2 = [c EXCEPT !.state = s]
         \/ \E n, s : c2 = [c EXCEPT !.pending = n, !.state = s]
         \/ \E n, s, t : c2 = LoginReturned([c EXCEPT !.pending = n, !.state = s], t)
         \/ \E n : c2 = [c EXCEPT !.pending = n]
         \/ \E b : c2 = [c EXCEPT !.dispatch = b]
         \/ \E s, b : c2 = [c EXCEPT !.state = s, !.basis = b]
  PROVE  c2.close = c.close /\ c2.closing = c.closing /\ c2.closes = c.closes
<1>1. ASSUME NEW s, c2 = Invalidate(c, s) PROVE c2.close = c.close /\ c2.closing = c.closing /\ c2.closes = c.closes
  BY <1>1 DEF Invalidate, Controllers
<1>2. ASSUME NEW e, c2 = OnEvent(c, e) PROVE c2.close = c.close /\ c2.closing = c.closing /\ c2.closes = c.closes
  BY <1>2 DEF OnEvent, Invalidate, Controllers
<1>3. ASSUME NEW t, c2 = LoginReturned(LoginFailed(RunFailed(c, t), t), t)
      PROVE  c2.close = c.close /\ c2.closing = c.closing /\ c2.closes = c.closes
  BY <1>3 DEF LoginReturned, LoginFailed, RunFailed, Invalidate, Controllers
<1>4. ASSUME NEW n, NEW s, NEW t, c2 = LoginReturned([c EXCEPT !.pending = n, !.state = s], t)
      PROVE  c2.close = c.close /\ c2.closing = c.closing /\ c2.closes = c.closes
  BY <1>4 DEF LoginReturned, Controllers
<1>. QED  BY <1>1, <1>2, <1>3, <1>4 DEF Controllers

\* A step that leaves the release, the process and the close alone.
LEMMA ReleaseKept ==
  ASSUME ReleaseInv, UNCHANGED <<lease, prov>>,
         ctl'.close = ctl.close, ctl'.closing = ctl.closing, ctl'.closes = ctl.closes,
         tr'.made = tr.made, tr'.closing = tr.closing, tr'.attempt = tr.attempt, tr'.stop = tr.stop,
         tr.closing => tr'.pending \in {tr.pending, 0} /\ wire'.queue = wire.queue,
         wire'.writing = wire.writing, wire'.pipe = wire.pipe \/ tr.made,
         CallActive' => CallActive
  PROVE  ReleaseInv'
BY DEF ReleaseInv

LEMMA ReleaseController ==
  ASSUME AccountTypeOK, ReleaseInv, ControllerStep
  PROVE  ReleaseInv'
<1>0. ctl \in Controllers /\ tr \in Transports /\ wire \in Wires /\ UNCHANGED <<lease, prov>>
  BY DEF AccountTypeOK, ControllerStep, Dispatch, Send, Continue, FailTransport, AnswerCaller
<1>1. /\ ctl'.close = ctl.close /\ ctl'.closing = ctl.closing /\ ctl'.closes = ctl.closes
  <2>1. CASE Dispatch
    BY <2>1, <1>0, CloseKept DEF Dispatch
  <2>2. CASE Send
    BY <2>2 DEF Send
  <2>3. CASE Continue
    <3>1. wire.kinds[tr.next] \in Kinds \cup {"models"}
      BY <2>3, <1>0 DEF Continue, CallActive, AccountTypeOK, Operations, Kinds, Transports, Wires
    <3>2. ReadAccount \/ ReadModels \/ StartLogin \/ CancelLogin \/ Logout
      BY <3>1, <2>3 DEF Continue, Kinds
    <3>3. CASE ReadAccount
      BY <3>3, <1>0, CloseKept DEF ReadAccount
    <3>4. CASE ReadModels
      BY <3>4, <1>0, CloseKept DEF ReadModels
    <3>5. CASE StartLogin
      <4>1. CASE task.login \in ctl.early
        BY <3>5, <4>1, <1>0, CloseKept DEF StartLogin
      <4>2. CASE task.login \notin ctl.early
        <5>. DEFINE c == [ctl EXCEPT !.pending = task.login, !.state = "signing-in"]
        <5>1. ctl' = LoginReturned(c, task)
          BY <3>5, <4>2 DEF StartLogin
        <5>2. ctl' = IF task.dispatched THEN [c EXCEPT !.dispatch = FALSE, !.early = {}] ELSE c
          BY <5>1 DEF LoginReturned
        <5>3. c.close = ctl.close /\ c.closing = ctl.closing /\ c.closes = ctl.closes
              /\ DOMAIN c = DOMAIN ctl
          BY <1>0 DEF Controllers
        <5>4. CASE task.dispatched
          BY <5>2, <5>4, <1>0 DEF Controllers
        <5>5. CASE ~task.dispatched
          BY <5>2, <5>3, <5>5
        <5>. QED  BY <5>4, <5>5
      <4>. QED  BY <4>1, <4>2
    <3>6. CASE CancelLogin
      BY <3>6, <1>0, CloseKept DEF CancelLogin
    <3>7. CASE Logout
      BY <3>7, <1>0, CloseKept DEF Logout
    <3>. QED  BY <3>2, <3>3, <3>4, <3>5, <3>6, <3>7
  <2>4. CASE FailTransport
    BY <2>4, <1>0, CloseKept DEF FailTransport
  <2>5. CASE AnswerCaller
    BY <2>5, <1>0, CloseKept DEF AnswerCaller
  <2>. QED  BY <2>1, <2>2, <2>3, <2>4, <2>5 DEF ControllerStep
<1>2. ASSUME NEW kind, Request(kind)
      PROVE  /\ ~tr.closing /\ tr'.made = tr.made /\ tr'.closing = tr.closing
             /\ tr'.attempt = tr.attempt /\ tr'.stop = tr.stop
             /\ wire'.writing = wire.writing /\ wire'.pipe = wire.pipe
  BY <1>0, <1>2 DEF Request, Listening, Transports, Wires
<1>3. CASE Dispatch \/ FailTransport \/ AnswerCaller
  <2>1. UNCHANGED <<tr, wire>>
    BY <1>3 DEF Dispatch, FailTransport, AnswerCaller
  <2>2. CallActive' => CallActive
    BY <1>3 DEF Dispatch, FailTransport, AnswerCaller, CallActive, AccountTypeOK, Operations, NoTask
  <2>. QED  BY <1>0, <1>1, <2>1, <2>2, ReleaseKept
<1>4. CASE Send
  BY <1>0, <1>1, <1>2, <1>4, ReleaseKept DEF Send
<1>5. CASE Continue
  <2>1. CallActive
    BY <1>5 DEF Continue
  <2>2. wire.kinds[tr.next] \in Kinds \cup {"models"}
    BY <1>5, <1>0 DEF Continue, CallActive, AccountTypeOK, Operations, Kinds, Transports, Wires
  <2>3. ReadAccount \/ ReadModels \/ StartLogin \/ CancelLogin \/ Logout
    BY <2>2, <1>5 DEF Continue, Kinds
  <2>4. CASE UNCHANGED <<tr, wire>>
    BY <1>0, <1>1, <2>1, <2>4, ReleaseKept
  <2>5. CASE \E kind : Request(kind)
    BY <1>0, <1>1, <1>2, <2>1, <2>5, ReleaseKept
  <2>. QED  BY <2>3, <2>4, <2>5 DEF ReadAccount, ReadModels, StartLogin, CancelLogin, Logout
<1>. QED  BY <1>3, <1>4, <1>5 DEF ControllerStep

LEMMA ReleaseTransport ==
  ASSUME AccountTypeOK, ReleaseInv, TransportStep \/ FinishWrite \/ Disconnect
  PROVE  ReleaseInv'
<1>0. ctl \in Controllers /\ tr \in Transports /\ wire \in Wires /\ prov \in Providers
  BY DEF AccountTypeOK
<1>1. ASSUME TransportFails, tr.made, UNCHANGED <<lease, prov>>, wire'.queue = wire.queue,
             wire'.writing \in {wire.writing, 0}
      PROVE  ReleaseInv'
  <2>1. ctl'.close = ctl.close /\ ctl'.closing = ctl.closing /\ ctl'.closes = ctl.closes
    BY <1>0, <1>1, CloseKept DEF TransportFails
  <2>2. CallActive' => CallActive
    BY <1>1 DEF TransportFails, Aborted, CallActive, AccountTypeOK, Operations, NoTask
  <2>3. /\ tr'.made = tr.made /\ tr'.closing /\ tr'.pending = 0
        /\ tr'.attempt = IF tr.attempt = "none" THEN "stopping" ELSE tr.attempt
        /\ tr'.stop = IF tr.stop = "none" THEN "running" ELSE tr.stop
    BY <1>0, <1>1 DEF TransportFails, JoinTransport, Transports
  <2>. QED  BY <1>1, <2>1, <2>2, <2>3 DEF ReleaseInv
<1>2. CASE Initialize
  BY <1>0, <1>2, ReleaseKept DEF Initialize, Transports, CallActive
<1>3. CASE AccountWrite
  <2>1. tr.attempt # "complete"
    BY <1>3 DEF AccountWrite, ReleaseInv
  <2>2. UNCHANGED <<ctl, task, lease, tr, prov>> /\ wire'.pipe = wire.pipe
    BY <1>0, <1>3 DEF AccountWrite, Wires
  <2>. QED  BY <2>1, <2>2 DEF ReleaseInv, CallActive
<1>4. CASE FinishWrite
  <2>1. tr.attempt # "complete"
    BY <1>4 DEF FinishWrite, ReleaseInv
  <2>2. UNCHANGED <<ctl, task, lease, tr>> /\ wire'.pipe = wire.pipe /\ prov'.alive = prov.alive
    BY <1>0, <1>4 DEF FinishWrite, Wires, Providers
  <2>. QED  BY <2>1, <2>2 DEF ReleaseInv, CallActive
<1>5. CASE Disconnect
  BY <1>0, <1>1, <1>5 DEF Disconnect, Wires
<1>6. CASE Receive
  <2>1. tr.made /\ UNCHANGED <<lease, prov>> /\ wire'.queue = wire.queue /\ wire'.writing = wire.writing
    BY <1>0, <1>6 DEF Receive, Wires, ReleaseInv
  <2>2. CASE ReceiveAnswer(Head(wire.pipe)) /\ ~TransportFails
    <3>1. ctl' = ctl /\ tr'.made = tr.made /\ tr'.closing = tr.closing /\ tr'.attempt = tr.attempt
          /\ tr'.stop = tr.stop /\ tr'.pending \in {tr.pending, 0}
      BY <1>0, <2>2 DEF ReceiveAnswer, Transports
    <3>2. CallActive' => CallActive
      BY <2>2 DEF ReceiveAnswer, CallActive, AccountTypeOK, Operations, NoTask
    <3>. QED  BY <2>1, <3>1, <3>2, ReleaseKept
  <2>3. CASE ReceiveEvent(Head(wire.pipe))
    <3>1. ctl'.close = ctl.close /\ ctl'.closing = ctl.closing /\ ctl'.closes = ctl.closes
      BY <1>0, <2>3, CloseKept DEF ReceiveEvent
    <3>2. CallActive' => CallActive
      BY <2>3 DEF ReceiveEvent, Aborted, CallActive, AccountTypeOK, Operations, NoTask
    <3>3. tr'.made = tr.made /\ tr'.closing = tr.closing /\ tr'.attempt = tr.attempt
          /\ tr'.stop = tr.stop /\ tr'.pending \in {tr.pending, 0}
      BY <1>0, <2>3 DEF ReceiveEvent, Retired, Transports
    <3>. QED  BY <2>1, <3>1, <3>2, <3>3, ReleaseKept
  <2>. QED  BY <1>1, <1>6, <2>1, <2>2, <2>3 DEF Receive
<1>7. CASE AttemptEnds
  <2>1. /\ ctl'.closing = ctl.closing /\ ctl'.closes = 0
        /\ ctl'.close = IF ctl.close # "asking" THEN ctl.close ELSE IF JoinComplete THEN "joined" ELSE "refused"
    BY <1>0, <1>7 DEF AttemptEnds, Controllers
  <2>2. /\ tr'.made = tr.made /\ tr'.closing = tr.closing /\ tr'.stop = tr.stop /\ tr'.pending = tr.pending
        /\ tr'.attempt = IF JoinComplete THEN "complete" ELSE "none"
    BY <1>0, <1>7 DEF AttemptEnds, Transports
  <2>3. UNCHANGED <<task, lease, wire, prov>> /\ tr.attempt = "stopping"
    BY <1>7 DEF AttemptEnds
  <2>4. tr'.attempt = "complete" => JoinComplete
    BY <2>2
  <2>5. ctl'.close = "joined" => tr'.attempt = "complete"
    BY <2>1, <2>2, <2>3 DEF ReleaseInv
  <2>. QED  BY <2>1, <2>2, <2>3, <2>4, <2>5 DEF ReleaseInv, JoinComplete
<1>8. CASE StopSettles
  <2>1. /\ UNCHANGED <<ctl, task, lease, wire, prov>> /\ tr.stop = "running"
        /\ tr'.made = tr.made /\ tr'.closing = tr.closing /\ tr'.pending = tr.pending /\ tr'.attempt = tr.attempt
        /\ (tr'.stop = "none" \/ (tr'.stop = "proven" /\ ~prov.alive))
    <3>1. UNCHANGED <<ctl, task, lease, wire, prov>> /\ tr.stop = "running"
      BY <1>8 DEF StopSettles
    <3>2. CASE ~prov.alive /\ tr' = [tr EXCEPT !.stop = "proven"]
      BY <3>1, <3>2, <1>0 DEF Transports
    <3>3. CASE tr' = [tr EXCEPT !.stop = "none"]
      BY <3>1, <3>3, <1>0 DEF Transports
    <3>. QED  BY <1>8, <3>2, <3>3 DEF StopSettles
  <2>. QED  BY <2>1 DEF ReleaseInv, CallActive
<1>. QED  BY <1>2, <1>3, <1>4, <1>5, <1>6, <1>7, <1>8 DEF TransportStep

LEMMA ReleaseOthers ==
  ASSUME AccountTypeOK, ReleaseInv,
         \/ \E kind \in {"check", "login", "cancel", "logout"} : RunCall(kind)
         \/ RunRefused \/ TimeOut \/ CloseAccount \/ CloseStep
         \/ \E id \in 1..tr.next : ProviderAnswers(id) \/ ProviderCompletes(id)
         \/ ProviderChanges \/ ProviderExits
  PROVE  ReleaseInv'
<1>0. ctl \in Controllers /\ tr \in Transports /\ wire \in Wires /\ prov \in Providers
  BY DEF AccountTypeOK
<1>1. Aborted(task) # NoTask /\ ~Aborted(task).settled <=> CallActive
  BY DEF Aborted, CallActive, AccountTypeOK, Operations, NoTask
<1>2. /\ Retired(tr).made = tr.made /\ Retired(tr).closing = tr.closing /\ Retired(tr).attempt = tr.attempt
      /\ Retired(tr).stop = tr.stop /\ Retired(tr).pending = 0
  BY <1>0 DEF Retired, Transports
<1>3. ASSUME NEW kind \in {"check", "login", "cancel", "logout"}, RunCall(kind) PROVE ReleaseInv'
  <2>1. ~ctl.closing /\ wire' = wire
        /\ ctl'.close = ctl.close /\ ctl'.closing = ctl.closing /\ ctl'.closes = ctl.closes
    BY <1>0, <1>3, CloseKept DEF RunCall, CanRun
  <2>2. CASE tr.made /\ UNCHANGED <<lease, tr, prov>>
    BY <2>1, <2>2 DEF ReleaseInv
  <2>3. CASE lease = "none" /\ lease' = "held" /\ tr' = [tr EXCEPT !.made = TRUE] /\ prov' = [prov EXCEPT !.alive = TRUE]
    <3>1. tr'.made /\ tr'.closing = tr.closing /\ tr'.attempt = tr.attempt /\ tr'.stop = tr.stop /\ tr'.pending = tr.pending
      BY <1>0, <2>3 DEF Transports
    <3>. QED  BY <2>1, <2>3, <3>1 DEF ReleaseInv
  <2>. QED  BY <1>3, <2>2, <2>3 DEF RunCall
<1>4. CASE RunRefused
  <2>1. UNCHANGED <<task, tr, wire, prov>> /\ lease = "none" /\ lease' \in {"none", "held"}
        /\ ctl'.close = ctl.close /\ ctl'.closing = ctl.closing /\ ctl'.closes = ctl.closes
    BY <1>0, <1>4, CloseKept DEF RunRefused
  <2>. QED  BY <2>1 DEF ReleaseInv
<1>5. CASE TimeOut
  BY <1>1, <1>2, <1>5, ReleaseKept DEF TimeOut, CallActive
<1>6. CASE CloseAccount
  <2>1. ctl'.closing /\ ctl'.close = "starting" /\ ctl.close = "none"
    BY <1>0, <1>6 DEF CloseAccount, Invalidate, Controllers
  <2>2. UNCHANGED <<lease, wire, prov>> /\ tr' \in {tr, Retired(tr)}
    BY <1>6 DEF CloseAccount
  <2>. QED  BY <1>2, <2>1, <2>2 DEF ReleaseInv
<1>7. CASE CloseStarts
  <2>1. CASE lease = "none" /\ ctl' = [ctl EXCEPT !.state = "closed", !.close = "closed"] /\ UNCHANGED <<tr, wire>>
    <3>1. ctl'.close = "closed" /\ ctl'.closing = ctl.closing /\ UNCHANGED <<task, lease, prov>> /\ ctl.close = "starting"
      BY <1>0, <1>7, <2>1 DEF CloseStarts, Controllers
    <3>. QED  BY <2>1, <3>1 DEF ReleaseInv
  <2>2. CASE tr.made /\ tr' = JoinTransport(tr) /\ wire' = [wire EXCEPT !.pipe = <<>>]
             /\ ctl' = IF tr.attempt = "complete" THEN [ctl EXCEPT !.close = "joined"]
                       ELSE [ctl EXCEPT !.close = "asking", !.closes = @ + 1]
    <3>1. ctl'.closing = ctl.closing /\ UNCHANGED <<task, lease, prov>> /\ ctl.close = "starting"
          /\ ctl'.close = IF tr.attempt = "complete" THEN "joined" ELSE "asking"
      BY <1>0, <1>7, <2>2 DEF CloseStarts, Controllers
    <3>2. /\ tr'.made = tr.made /\ tr'.closing /\ tr'.pending = 0
          /\ tr'.attempt = IF tr.attempt = "none" THEN "stopping" ELSE tr.attempt
          /\ tr'.stop = IF tr.stop = "none" THEN "running" ELSE tr.stop
      BY <1>0, <2>2 DEF JoinTransport, Transports
    <3>3. wire'.queue = wire.queue /\ wire'.writing = wire.writing
      BY <1>0, <2>2 DEF Wires
    <3>. QED  BY <2>2, <3>1, <3>2, <3>3 DEF ReleaseInv
  <2>. QED  BY <1>7, <2>1, <2>2 DEF CloseStarts
<1>8. CASE CloseReleases
  <2>1. ctl'.close = "closed" /\ ctl'.closing = ctl.closing /\ ctl'.closes = ctl.closes
    BY <1>0, <1>8 DEF CloseReleases, Controllers
  <2>2. UNCHANGED <<task, tr, wire, prov>> /\ ctl.close = "joined" /\ ~CallActive /\ ctl.closes = 0
    BY <1>8 DEF CloseReleases
  <2>3. lease' = "released"
    BY <1>8 DEF CloseReleases
  <2>. QED  BY <2>1, <2>2, <2>3 DEF ReleaseInv, CallActive
<1>9. CASE CloseUnproven
  <2>1. ctl'.close = "none" /\ ctl'.closing = ctl.closing /\ UNCHANGED <<task, lease, tr, wire, prov>>
        /\ ctl.close # "closed"
    BY <1>0, <1>9 DEF CloseUnproven, Controllers
  <2>. QED  BY <2>1 DEF ReleaseInv
<1>10. ASSUME NEW f, Prints(f) PROVE wire'.queue = wire.queue /\ wire'.writing = wire.writing
  BY <1>0, <1>10 DEF Prints, Wires
<1>11. ASSUME CanPrint, \E f : Prints(f), prov'.alive = prov.alive, UNCHANGED <<ctl, task, lease, tr>> PROVE ReleaseInv'
  BY <1>10, <1>11 DEF ReleaseInv, CanPrint, CallActive
<1>12. ASSUME NEW id \in 1..tr.next, ProviderAnswers(id) PROVE ReleaseInv'
  BY <1>0, <1>11, <1>12 DEF ProviderAnswers, Providers
<1>13. ASSUME NEW id \in 1..tr.next, ProviderCompletes(id) PROVE ReleaseInv'
  BY <1>0, <1>11, <1>13 DEF ProviderCompletes, Providers
<1>14. CASE ProviderChanges
  BY <1>0, <1>11, <1>14 DEF ProviderChanges, Providers
<1>15. CASE ProviderExits
  BY <1>0, <1>15 DEF ProviderExits, Providers, ReleaseInv, CallActive
<1>. QED
  BY <1>3, <1>4, <1>5, <1>6, <1>7, <1>8, <1>9, <1>12, <1>13, <1>14, <1>15 DEF CloseStep

LEMMA ReleaseInvariant == AccountSpec => []ReleaseInv
<1>1. AccountTypeOK /\ ReleaseInv /\ [AccountNext]_accountVars => ReleaseInv'
  <2>1. CASE UNCHANGED accountVars
    BY <2>1 DEF accountVars, ReleaseInv, CallActive
  <2>. QED  BY <2>1, ReleaseController, ReleaseTransport, ReleaseOthers DEF AccountNext
<1>. QED  BY InitRelease, AccountTypes, <1>1, PTL DEF AccountSpec

\* The account goes back only when its process is gone, nothing is written or awaited
\* and no close of the transport is still running, for any bounds of the queue, the
\* calls and the closes (managed-account.ts: close; codex-account-transport.ts:
\* closeBound).
THEOREM ReleasedIsGone == AccountSpec => []ReleaseMeansGone
<1>1. ReleaseInv => ReleaseMeansGone
  BY DEF ReleaseInv, ReleaseMeansGone
<1>. QED  BY ReleaseInvariant, <1>1, PTL
-----------------------------------------------------------------------------
(* The operations of an account: what the controller believes, and what is *)
(* still on its way to it.                                                 *)

\* What the types say of the numbers, the flags and the queues.
Numbers ==
  /\ tr.next \in Nat /\ tr.pending \in Nat /\ tr.retired \subseteq Nat /\ prov.ver \in Nat /\ wire.writing \in Nat
  /\ ctl.gen \in Nat /\ ctl.pending \in Nat /\ ctl.basis \in Nat /\ told.ver \in Nat /\ told.at \in Nat
  /\ Len(wire.kinds) = tr.next /\ Len(wire.queue) \in Nat /\ Len(wire.pipe) \in Nat
  /\ \A i \in 1..Len(wire.pipe) :
       /\ wire.pipe[i].type \in {"answer", "completed", "updated"}
       /\ wire.pipe[i].type = "answer" => wire.pipe[i].id \in Nat /\ wire.pipe[i].ver \in Nat /\ wire.pipe[i].signed \in BOOLEAN
       /\ wire.pipe[i].type = "updated" => wire.pipe[i].ver \in Nat
       /\ wire.pipe[i].type = "completed" => wire.pipe[i].login \in Nat
  /\ task # NoTask => task.gen \in Nat /\ task.ver \in Nat /\ task.kind \in Kinds

\* What a request is: waiting to be written, or answered in the pipe.
AnswerIn(p, n) == \E i \in 1..Len(p) : p[i].type = "answer" /\ p[i].id = n
Waits(q, n) == \E i \in 1..Len(q) : q[i] = n
Expected == tr.retired \cup {tr.pending}

\* Ids are those of requests made, and a login is named by its own.
FrameKnown(i) ==
  LET f == wire.pipe[i] IN
  /\ f.type = "completed" => f.login \in 1..tr.next
  /\ f.type = "answer" => f.id \in 1..tr.next /\ (wire.kinds[f.id] = "login" => f.login = f.id)
IdsInv ==
  /\ wire.writing \in 0..tr.next /\ prov.asked \subseteq 1..tr.next /\ prov.logins \subseteq 1..tr.next
  /\ told.done \subseteq 1..tr.next /\ tr.retired \subseteq 1..tr.next
  /\ \A i \in 1..Len(wire.queue) : wire.queue[i] \in 1..tr.next
  /\ \A i \in 1..Len(wire.pipe) : FrameKnown(i)

\* The last request is that of the operation.
CallInv ==
  /\ tr.pending # 0 => CallActive /\ task.step = "called" /\ tr.pending = tr.next
  /\ CallActive /\ task.step = "answered" /\ wire.kinds[tr.next] = "login" => task.login = tr.next
  /\ CallActive /\ task.step \in {"called", "answered"} /\ wire.kinds[tr.next] = "login" => task.kind = "login"

\* A request is in one place: it waits, is written, is asked or is answered.
OnceInv ==
  /\ \A i, j \in 1..Len(wire.queue) : wire.queue[i] = wire.queue[j] => i = j
  /\ \A n \in 1..tr.next : Waits(wire.queue, n) => n # wire.writing /\ n \notin prov.asked /\ ~AnswerIn(wire.pipe, n)
  /\ \A n \in 1..tr.next : n = wire.writing => n \notin prov.asked /\ ~AnswerIn(wire.pipe, n)
  /\ \A n \in prov.asked : ~AnswerIn(wire.pipe, n)
  /\ \A i, j \in 1..Len(wire.pipe) :
       wire.pipe[i].type = "answer" /\ wire.pipe[j].type = "answer" /\ wire.pipe[i].id = wire.pipe[j].id => i = j

\* While the transport listens, what may still be answered is known to it.
LateInv ==
  Listening =>
    \A n \in 1..tr.next : n = wire.writing \/ n \in prov.asked \/ AnswerIn(wire.pipe, n) => n \in Expected

\* After a lost login and after a close the controller admits nothing.
LostInv ==
  /\ ctl.closing \/ ctl.unresolved => ctl.pending = NoLogin /\ ctl.state # "signed-in" /\ (CallActive => task.aborted)
  /\ ctl.close # "none" => ctl.closing
  /\ ctl.unresolved => told.lost
  /\ told.lost => /\ told.at = tr.next
                  /\ ctl.closing \/ (ctl.unresolved /\ ctl.state = "recovery-required")

\* While a login is dispatched its completion is kept.
EarlyInv ==
  /\ CallActive /\ task.step # "queued" => (task.dispatched <=> task.kind = "login")
  /\ task # NoTask /\ task.kind = "login" => ctl.pending = NoLogin
  /\ CallActive /\ task.dispatched /\ ~task.returned => ctl.dispatch
  /\ task # NoTask /\ task.returned => task.settled \/ task.aborted
  /\ CallActive /\ task.kind = "login" /\ task.step \in {"called", "answered"} /\ Current(ctl, task) /\ ~told.full
       /\ tr.next \in told.done => tr.next \in ctl.early
  /\ ~told.full /\ ctl.pending # NoLogin => ctl.pending \notin told.done

\* Versions only grow along the pipe.
VersionOK(i) == wire.pipe[i].type \in {"answer", "updated"} => told.ver <= wire.pipe[i].ver /\ wire.pipe[i].ver <= prov.ver
OrderInv ==
  /\ told.ver <= prov.ver
  /\ \A i \in 1..Len(wire.pipe) : VersionOK(i)
  /\ \A i, j \in 1..Len(wire.pipe) :
       i < j /\ wire.pipe[i].type = "updated" /\ wire.pipe[j].type \in {"answer", "updated"} => wire.pipe[i].ver <= wire.pipe[j].ver

\* An operation that is still wanted read the last version, and so did a
\* published sign-in.
CurrentInv ==
  /\ CallActive => task.gen <= ctl.gen
  /\ CallActive /\ Current(ctl, task) /\ task.step = "answered" /\ task.signed => told.ver <= task.ver
  /\ CallActive /\ Current(ctl, task) /\ task.step \in {"called", "answered"} /\ wire.kinds[tr.next] = "models" => told.ver <= task.ver
  /\ ctl.state = "signed-in" => told.ver <= ctl.basis

LoginInv == CallInv /\ IdsInv /\ OnceInv /\ LateInv /\ OrderInv /\ LostInv /\ EarlyInv /\ CurrentInv

LEMMA NumbersTyped == ASSUME AccountTypeOK PROVE Numbers
<1>0. ctl \in Controllers /\ tr \in Transports /\ wire \in Wires /\ prov \in Providers /\ told \in Tolds
      /\ (task # NoTask => task \in Operations) /\ Len(wire.kinds) = tr.next
  BY DEF AccountTypeOK
<1>1. tr.next \in Nat /\ tr.pending \in Nat /\ tr.retired \subseteq Nat /\ prov.ver \in Nat /\ wire.writing \in Nat
  BY <1>0 DEF Transports, Providers, Wires
<1>2. ctl.gen \in Nat /\ ctl.pending \in Nat /\ ctl.basis \in Nat /\ told.ver \in Nat /\ told.at \in Nat
  BY <1>0 DEF Controllers, Tolds
<1>3. wire.queue \in Seq(Nat) /\ wire.pipe \in Seq(Answers \cup Events)
  BY <1>0 DEF Wires
<1>4. Len(wire.queue) \in Nat /\ Len(wire.pipe) \in Nat /\ \A i \in 1..Len(wire.pipe) : wire.pipe[i] \in Answers \cup Events
  BY <1>3
<1>5. ASSUME NEW i \in 1..Len(wire.pipe)
      PROVE  /\ wire.pipe[i].type \in {"answer", "completed", "updated"}
             /\ wire.pipe[i].type = "answer" => wire.pipe[i].id \in Nat /\ wire.pipe[i].ver \in Nat /\ wire.pipe[i].signed \in BOOLEAN
             /\ wire.pipe[i].type = "updated" => wire.pipe[i].ver \in Nat
             /\ wire.pipe[i].type = "completed" => wire.pipe[i].login \in Nat
  <2>1. wire.pipe[i] \in Answers \cup Events
    BY <1>4
  <2>. QED  BY <2>1 DEF Answers, Events
<1>6. task # NoTask => task.gen \in Nat /\ task.ver \in Nat /\ task.kind \in Kinds
  BY <1>0 DEF Operations
<1>. QED  BY <1>0, <1>1, <1>2, <1>4, <1>5, <1>6 DEF Numbers

\* Aborting an operation that still runs changes no other field of it.
LEMMA AbortedFields ==
  ASSUME AccountTypeOK, task' = Aborted(task)
  PROVE  /\ task' = NoTask <=> task = NoTask
         /\ CallActive' <=> CallActive
         /\ CallActive => task'.aborted
         /\ task # NoTask => /\ task'.kind = task.kind /\ task'.gen = task.gen /\ task'.step = task.step
                             /\ task'.returned = task.returned /\ task'.settled = task.settled
                             /\ task'.dispatched = task.dispatched /\ task'.login = task.login
                             /\ task'.signed = task.signed /\ task'.ver = task.ver /\ (task.aborted => task'.aborted)
<1>1. CASE task = NoTask
  BY <1>1 DEF Aborted, CallActive
<1>2. CASE task # NoTask /\ task.settled
  BY <1>2 DEF Aborted, CallActive
<1>3. CASE task # NoTask /\ ~task.settled
  <2>1. task \in Operations /\ task' = [task EXCEPT !.aborted = TRUE]
    BY <1>3 DEF Aborted, AccountTypeOK
  <2>2. task' \in Operations
    BY <2>1 DEF Operations
  <2>3. task'.kind \in Kinds /\ NoTask.kind \notin Kinds
    BY <2>2 DEF Operations, Kinds, NoTask
  <2>4. task' # NoTask
    BY <2>3
  <2>5. /\ task'.kind = task.kind /\ task'.gen = task.gen /\ task'.step = task.step
        /\ task'.returned = task.returned /\ task'.settled = task.settled
        /\ task'.dispatched = task.dispatched /\ task'.login = task.login
        /\ task'.signed = task.signed /\ task'.ver = task.ver /\ task'.aborted
    BY <2>1 DEF Operations
  <2>. QED  BY <1>3, <2>4, <2>5 DEF CallActive
<1>. QED  BY <1>1, <1>2, <1>3

\* A request that is given up is still known.
LEMMA RetiredFields ==
  ASSUME AccountTypeOK, tr' = Retired(tr)
  PROVE  /\ tr'.next = tr.next /\ tr'.pending = 0 /\ tr'.failed = tr.failed /\ tr'.closing = tr.closing
         /\ tr'.retired = IF tr.pending = 0 THEN tr.retired ELSE tr.retired \cup {tr.pending}
BY DEF AccountTypeOK, Transports, Retired

LEMMA JoinFields ==
  ASSUME tr \in Transports
  PROVE  /\ JoinTransport(tr).next = tr.next /\ JoinTransport(tr).pending = 0 /\ JoinTransport(tr).failed = tr.failed
         /\ JoinTransport(tr).closing = TRUE /\ JoinTransport(tr).retired = tr.retired
BY DEF Transports, JoinTransport

\* A frame that was answered is the first, or still in the pipe.
LEMMA AnswerPopped ==
  ASSUME NEW p, NEW q, Popped(p, q), NEW n
  PROVE  AnswerIn(p, n) <=> AnswerIn(q, n) \/ (p[1].type = "answer" /\ p[1].id = n)
<1>1. ASSUME NEW i \in 1..Len(p), p[i].type = "answer", p[i].id = n, i # 1 PROVE AnswerIn(q, n)
  <2>1. i - 1 \in 1..Len(q) /\ q[i - 1] = p[i]
    BY <1>1 DEF Popped
  <2>. QED  BY <1>1, <2>1 DEF AnswerIn
<1>2. ASSUME NEW i \in 1..Len(q), q[i].type = "answer", q[i].id = n PROVE AnswerIn(p, n)
  <2>1. i + 1 \in 1..Len(p) /\ q[i] = p[i + 1]
    BY <1>2 DEF Popped
  <2>. QED  BY <1>2, <2>1 DEF AnswerIn
<1>3. p[1].type = "answer" /\ p[1].id = n => AnswerIn(p, n)
  BY DEF Popped, AnswerIn
<1>. QED  BY <1>1, <1>2, <1>3 DEF AnswerIn

LEMMA AnswerPushed ==
  ASSUME NEW p, NEW q, NEW x, Pushed(p, q, x), NEW n
  PROVE  AnswerIn(q, n) <=> AnswerIn(p, n) \/ (x.type = "answer" /\ x.id = n)
BY DEF Pushed, AnswerIn

LEMMA WaitPopped ==
  ASSUME NEW p, NEW q, Popped(p, q), NEW n
  PROVE  Waits(p, n) <=> Waits(q, n) \/ p[1] = n
<1>1. ASSUME NEW i \in 1..Len(p), p[i] = n, i # 1 PROVE Waits(q, n)
  <2>1. i - 1 \in 1..Len(q) /\ q[i - 1] = p[i]
    BY <1>1 DEF Popped
  <2>. QED  BY <1>1, <2>1 DEF Waits
<1>2. ASSUME NEW i \in 1..Len(q), q[i] = n PROVE Waits(p, n)
  <2>1. i + 1 \in 1..Len(p) /\ q[i] = p[i + 1]
    BY <1>2 DEF Popped
  <2>. QED  BY <1>2, <2>1 DEF Waits
<1>3. p[1] = n => Waits(p, n)
  BY DEF Popped, Waits
<1>. QED  BY <1>1, <1>2, <1>3 DEF Waits

LEMMA WaitPushed ==
  ASSUME NEW p, NEW q, NEW x, Pushed(p, q, x), NEW n
  PROVE  Waits(q, n) <=> Waits(p, n) \/ x = n
BY DEF Pushed, Waits

LEMMA NothingWaits == Len(<<>>) = 0 /\ \A n : ~AnswerIn(<<>>, n) /\ ~Waits(<<>>, n)
<1>1. Len(<<>>) = 0 /\ 1..0 = {}
  OBVIOUS
<1>. QED  BY <1>1 DEF AnswerIn, Waits

\* The wire as it was, and a transport that has forgotten no request.
LEMMA SameWire ==
  ASSUME IdsInv, OnceInv, LateInv, wire'.queue = wire.queue, wire'.writing = wire.writing, wire'.pipe = wire.pipe,
         wire'.kinds = wire.kinds, prov'.asked \subseteq prov.asked, prov'.logins \subseteq prov.logins, tr'.next = tr.next,
         told'.done \subseteq 1..tr.next, tr'.retired \subseteq 1..tr.next, Listening' => Listening /\ Expected \subseteq Expected'
  PROVE  IdsInv' /\ OnceInv' /\ LateInv'
<1>1. IdsInv'
  BY DEF IdsInv, FrameKnown
<1>2. OnceInv'
  BY DEF OnceInv, AnswerIn, Waits
<1>3. LateInv'
  BY DEF LateInv, AnswerIn
<1>. QED  BY <1>1, <1>2, <1>3

\* The wire once a frame is read.
LEMMA PoppedWire ==
  ASSUME IdsInv, OnceInv, LateInv, wire'.queue = wire.queue, wire'.writing = wire.writing, Popped(wire.pipe, wire'.pipe),
         wire'.kinds = wire.kinds, prov'.asked = prov.asked, prov'.logins = prov.logins, tr'.next = tr.next,
         told'.done \subseteq 1..tr.next, tr'.retired \subseteq 1..tr.next,
         Listening' => /\ Listening
                       /\ \A n \in Expected : n \in Expected' \/ (wire.pipe[1].type = "answer" /\ n = wire.pipe[1].id)
  PROVE  IdsInv' /\ OnceInv' /\ LateInv'
<1>p. /\ \A i \in 1..Len(wire'.pipe) : i + 1 \in 1..Len(wire.pipe) /\ wire'.pipe[i] = wire.pipe[i + 1] /\ i + 1 # 1
      /\ 1 \in 1..Len(wire.pipe)
  BY DEF Popped
<1>a. \A n : AnswerIn(wire.pipe, n) <=> AnswerIn(wire'.pipe, n) \/ (wire.pipe[1].type = "answer" /\ wire.pipe[1].id = n)
  BY AnswerPopped
<1>1. IdsInv'
  <2>1. ASSUME NEW i \in 1..Len(wire'.pipe) PROVE FrameKnown(i)'
    <3>1. FrameKnown(i + 1) /\ wire'.pipe[i] = wire.pipe[i + 1]
      BY <1>p, <2>1 DEF IdsInv
    <3>. QED  BY <3>1 DEF FrameKnown
  <2>. QED  BY <2>1 DEF IdsInv
<1>u. \A i, j \in 1..Len(wire'.pipe) :
        wire'.pipe[i].type = "answer" /\ wire'.pipe[j].type = "answer" /\ wire'.pipe[i].id = wire'.pipe[j].id => i = j
  <2> SUFFICES ASSUME NEW i \in 1..Len(wire'.pipe), NEW j \in 1..Len(wire'.pipe), wire'.pipe[i].type = "answer",
                      wire'.pipe[j].type = "answer", wire'.pipe[i].id = wire'.pipe[j].id
               PROVE  i = j
    OBVIOUS
  <2>1. i + 1 \in 1..Len(wire.pipe) /\ j + 1 \in 1..Len(wire.pipe) /\ wire'.pipe[i] = wire.pipe[i + 1] /\ wire'.pipe[j] = wire.pipe[j + 1]
    BY <1>p
  <2>2. i + 1 = j + 1
    BY <2>1 DEF OnceInv
  <2>. QED  BY <2>2
<1>2. OnceInv'
  BY <1>a, <1>u DEF OnceInv
<1>f. ASSUME wire.pipe[1].type = "answer", NEW n, n = wire'.writing \/ n \in prov'.asked \/ AnswerIn(wire'.pipe, n), n \in 1..tr.next
      PROVE  n # wire.pipe[1].id
  <2>1. AnswerIn(wire.pipe, wire.pipe[1].id) /\ wire.pipe[1].id \in 1..tr.next
    <3>1. FrameKnown(1)
      BY <1>p DEF IdsInv
    <3>. QED  BY <1>a, <1>f, <3>1 DEF FrameKnown
  <2>2. wire.pipe[1].id # wire.writing /\ wire.pipe[1].id \notin prov.asked
    BY <2>1 DEF OnceInv
  <2>3. ~AnswerIn(wire'.pipe, wire.pipe[1].id)
    <3> SUFFICES ASSUME NEW i \in 1..Len(wire'.pipe), wire'.pipe[i].type = "answer", wire'.pipe[i].id = wire.pipe[1].id PROVE FALSE
      BY DEF AnswerIn
    <3>1. i + 1 \in 1..Len(wire.pipe) /\ wire'.pipe[i] = wire.pipe[i + 1] /\ i + 1 # 1
      BY <1>p
    <3>. QED  BY <3>1, <1>f, <1>p DEF OnceInv
  <2>. QED  BY <1>f, <2>2, <2>3
<1>3. LateInv'
  <2> SUFFICES ASSUME Listening', NEW n \in 1..tr.next, n = wire'.writing \/ n \in prov'.asked \/ AnswerIn(wire'.pipe, n)
               PROVE  n \in Expected'
    BY DEF LateInv
  <2>1. n \in Expected
    BY <1>a DEF LateInv
  <2>. QED  BY <2>1, <1>f
<1>. QED  BY <1>1, <1>2, <1>3

\* The wire of a transport that no longer listens.
LEMMA ClearedWire ==
  ASSUME IdsInv, OnceInv, wire'.queue = wire.queue, wire'.writing = 0 \/ wire'.writing = wire.writing, wire'.pipe = <<>>,
         wire'.kinds = wire.kinds, prov'.asked = prov.asked, prov'.logins = prov.logins, tr'.next = tr.next,
         told'.done \subseteq 1..tr.next, tr'.retired \subseteq 1..tr.next, ~Listening', tr.next \in Nat
  PROVE  IdsInv' /\ OnceInv' /\ LateInv'
<1>0. Len(wire'.pipe) = 0 /\ 1..0 = {} /\ \A n : ~AnswerIn(wire'.pipe, n)
  BY NothingWaits
<1>1. IdsInv'
  BY <1>0 DEF IdsInv
<1>2. OnceInv'
  <2>1. \A n \in 1..tr.next : n # 0
    OBVIOUS
  <2>2. \A i, j \in 1..Len(wire'.pipe) :
          wire'.pipe[i].type = "answer" /\ wire'.pipe[j].type = "answer" /\ wire'.pipe[i].id = wire'.pipe[j].id => i = j
    BY <1>0
  <2>. QED  BY <1>0, <2>1, <2>2 DEF OnceInv
<1>3. LateInv'
  BY DEF LateInv
<1>. QED  BY <1>1, <1>2, <1>3

\* The wire once a request is queued.
LEMMA RequestWire ==
  ASSUME IdsInv, OnceInv, LateInv, tr.next \in Nat, Pushed(wire.queue, wire'.queue, tr.next + 1), wire'.writing = wire.writing,
         wire'.pipe = wire.pipe, \A n \in 1..tr.next : wire'.kinds[n] = wire.kinds[n],
         prov' = prov, told' = told, tr'.next = tr.next + 1, tr'.pending = tr.next + 1, tr'.retired = tr.retired, Listening, tr.pending = 0
  PROVE  IdsInv' /\ OnceInv' /\ LateInv'
<1>n. /\ \A n \in 1..tr'.next : n \in 1..tr.next \/ n = tr.next + 1
      /\ \A n \in 1..tr.next : n \in 1..tr'.next /\ n # tr.next + 1 /\ n # 0
      /\ tr.next + 1 \in 1..tr'.next /\ tr.next + 1 # 0
      /\ \A n \in 0..tr.next : n \in 0..tr'.next /\ n # tr.next + 1
  OBVIOUS
<1>q. \A n : Waits(wire'.queue, n) <=> Waits(wire.queue, n) \/ n = tr.next + 1
  BY WaitPushed
<1>w. /\ \A n : Waits(wire.queue, n) \/ n = wire.writing \/ n \in prov.asked \/ AnswerIn(wire.pipe, n) => n # tr.next + 1
      /\ \A n : Waits(wire.queue, n) \/ n \in prov.asked \/ AnswerIn(wire.pipe, n) => n \in 1..tr.next
  <2>1. \A n : AnswerIn(wire.pipe, n) => n \in 1..tr.next
    BY DEF IdsInv, FrameKnown, AnswerIn
  <2>2. \A n : Waits(wire.queue, n) => n \in 1..tr.next
    BY DEF IdsInv, Waits
  <2>3. \A n : n \in prov.asked => n \in 1..tr.next
    BY DEF IdsInv
  <2>4. \A n : n = wire.writing => n \in 0..tr.next
    BY DEF IdsInv
  <2>. QED  BY <1>n, <2>1, <2>2, <2>3, <2>4
<1>1. IdsInv'
  <2>1. ASSUME NEW i \in 1..Len(wire'.pipe) PROVE FrameKnown(i)'
    <3>1. FrameKnown(i)
      BY <2>1 DEF IdsInv
    <3>. QED  BY <3>1, <1>n DEF FrameKnown
  <2>2. \A i \in 1..Len(wire'.queue) : wire'.queue[i] \in 1..tr'.next
    <3> SUFFICES ASSUME NEW i \in 1..Len(wire'.queue) PROVE wire'.queue[i] \in 1..tr'.next
      OBVIOUS
    <3>1. CASE i \in 1..Len(wire.queue)
      <4>1. wire'.queue[i] = wire.queue[i] /\ wire.queue[i] \in 1..tr.next
        BY <3>1 DEF IdsInv, Pushed
      <4>. QED  BY <4>1, <1>n
    <3>2. CASE i = Len(wire'.queue)
      BY <3>2, <1>n DEF Pushed
    <3>. QED  BY <3>1, <3>2 DEF Pushed
  <2>3. /\ wire'.writing \in 0..tr'.next /\ prov'.asked \subseteq 1..tr'.next /\ prov'.logins \subseteq 1..tr'.next
        /\ told'.done \subseteq 1..tr'.next /\ tr'.retired \subseteq 1..tr'.next
    BY <1>n DEF IdsInv
  <2>. QED  BY <2>1, <2>2, <2>3 DEF IdsInv
<1>2. OnceInv'
  <2>1. ASSUME NEW i \in 1..Len(wire'.queue), NEW j \in 1..Len(wire'.queue), wire'.queue[i] = wire'.queue[j] PROVE i = j
    <3>1. \A m \in 1..Len(wire.queue) : wire'.queue[m] = wire.queue[m] /\ wire.queue[m] # tr.next + 1 /\ m < Len(wire'.queue)
      BY <1>w DEF Pushed, Waits
    <3>2. wire'.queue[Len(wire'.queue)] = tr.next + 1 /\ \A m \in 1..Len(wire'.queue) : m \in 1..Len(wire.queue) \/ m = Len(wire'.queue)
      BY DEF Pushed
    <3>. QED  BY <2>1, <3>1, <3>2 DEF OnceInv
  <2>2. \A n \in 1..tr'.next : Waits(wire'.queue, n) => n # wire'.writing /\ n \notin prov'.asked /\ ~AnswerIn(wire'.pipe, n)
    BY <1>q, <1>w, <1>n DEF OnceInv
  <2>3. \A n \in 1..tr'.next : n = wire'.writing => n \notin prov'.asked /\ ~AnswerIn(wire'.pipe, n)
    BY <1>w, <1>n DEF OnceInv
  <2>4. \A i, j \in 1..Len(wire'.pipe) :
          wire'.pipe[i].type = "answer" /\ wire'.pipe[j].type = "answer" /\ wire'.pipe[i].id = wire'.pipe[j].id => i = j
    BY DEF OnceInv
  <2>5. \A n \in prov'.asked : ~AnswerIn(wire'.pipe, n)
    BY DEF OnceInv
  <2>. QED  BY <2>1, <2>2, <2>3, <2>4, <2>5 DEF OnceInv
<1>3. LateInv'
  <2> SUFFICES ASSUME NEW n \in 1..tr'.next, n = wire.writing \/ n \in prov.asked \/ AnswerIn(wire.pipe, n)
               PROVE  n \in Expected'
    BY DEF LateInv
  <2>1. n \in 1..tr.next
    BY <1>w, <1>n
  <2>2. n \in Expected
    BY <2>1 DEF LateInv
  <2>. QED  BY <1>n, <2>1, <2>2 DEF Expected
<1>. QED  BY <1>1, <1>2, <1>3

\* The wire once a frame is printed, for a request that was asked or on the
\* provider's own account.
LEMMA PrintedWire ==
  ASSUME IdsInv, OnceInv, LateInv, NEW f, Pushed(wire.pipe, wire'.pipe, f), wire'.queue = wire.queue, wire'.writing = wire.writing,
         wire'.kinds = wire.kinds, tr' = tr, told' = told, prov'.logins \subseteq prov.logins,
         \/ f.type = "answer" /\ f.id \in prov.asked /\ prov'.asked = prov.asked \ {f.id}
            /\ (wire.kinds[f.id] = "login" => f.login = f.id)
         \/ f.type # "answer" /\ prov'.asked = prov.asked /\ (f.type = "completed" => f.login \in 1..tr.next)
  PROVE  IdsInv' /\ OnceInv' /\ LateInv'
<1>a. \A n : AnswerIn(wire'.pipe, n) <=> AnswerIn(wire.pipe, n) \/ (f.type = "answer" /\ f.id = n)
  BY AnswerPushed
<1>p. /\ \A i \in 1..Len(wire'.pipe) : i \in 1..Len(wire.pipe) \/ i = Len(wire'.pipe)
      /\ wire'.pipe[Len(wire'.pipe)] = f
      /\ \A i \in 1..Len(wire.pipe) : wire'.pipe[i] = wire.pipe[i]
  BY DEF Pushed
<1>1. IdsInv'
  <2>1. ASSUME NEW i \in 1..Len(wire'.pipe) PROVE FrameKnown(i)'
    <3>1. CASE i \in 1..Len(wire.pipe)
      BY <3>1, <1>p DEF IdsInv, FrameKnown
    <3>2. CASE wire'.pipe[i] = f
      BY <3>2 DEF IdsInv, FrameKnown
    <3>. QED  BY <2>1, <3>1, <3>2, <1>p
  <2>2. prov'.asked \subseteq prov.asked
    OBVIOUS
  <2>. QED  BY <2>1, <2>2 DEF IdsInv
<1>2. OnceInv'
  <2>1. ASSUME NEW i \in 1..Len(wire'.pipe), NEW j \in 1..Len(wire'.pipe), wire'.pipe[i].type = "answer",
               wire'.pipe[j].type = "answer", wire'.pipe[i].id = wire'.pipe[j].id
        PROVE  i = j
    <3>1. \A m \in 1..Len(wire.pipe) : wire.pipe[m].type = "answer" => wire.pipe[m].id \notin prov.asked
      BY DEF OnceInv, AnswerIn
    <3>2. \A m \in 1..Len(wire.pipe) : wire'.pipe[m].type = "answer" /\ f.type = "answer" => wire'.pipe[m].id # f.id
      BY <3>1, <1>p
    <3>3. \A m, k \in 1..Len(wire.pipe) :
            wire'.pipe[m].type = "answer" /\ wire'.pipe[k].type = "answer" /\ wire'.pipe[m].id = wire'.pipe[k].id => m = k
      BY <1>p DEF OnceInv
    <3>. QED  BY <2>1, <3>2, <3>3, <1>p
  <2>2. \A n \in 1..tr.next : Waits(wire.queue, n) => n # wire.writing /\ n \notin prov'.asked /\ ~AnswerIn(wire'.pipe, n)
    BY <1>a DEF OnceInv
  <2>3. \A n \in 1..tr.next : n = wire.writing => n \notin prov'.asked /\ ~AnswerIn(wire'.pipe, n)
    BY <1>a DEF OnceInv
  <2>4. \A n \in prov'.asked : ~AnswerIn(wire'.pipe, n)
    BY <1>a DEF OnceInv
  <2>. QED  BY <2>1, <2>2, <2>3, <2>4 DEF OnceInv
<1>3. LateInv'
  BY <1>a DEF LateInv, Listening, Expected
<1>. QED  BY <1>1, <1>2, <1>3

\* The pipe of versions as it was, without its first frame, and with one more.
LEMMA SameOrder ==
  ASSUME OrderInv, wire'.pipe = wire.pipe, told'.ver = told.ver, prov'.ver = prov.ver
  PROVE  OrderInv'
BY DEF OrderInv, VersionOK

LEMMA ClearedOrder ==
  ASSUME OrderInv, wire'.pipe = <<>>, told'.ver = told.ver, prov'.ver = prov.ver
  PROVE  OrderInv'
BY NothingWaits DEF OrderInv

LEMMA PoppedOrder ==
  ASSUME Numbers, OrderInv, Popped(wire.pipe, wire'.pipe), prov'.ver = prov.ver,
         told'.ver = IF wire.pipe[1].type = "updated" THEN wire.pipe[1].ver ELSE told.ver
  PROVE  OrderInv' /\ told.ver <= told'.ver
<1>p. /\ \A i \in 1..Len(wire'.pipe) : i + 1 \in 1..Len(wire.pipe) /\ wire'.pipe[i] = wire.pipe[i + 1] /\ 1 < i + 1
      /\ 1 \in 1..Len(wire.pipe) /\ Len(wire'.pipe) \in Nat
  BY DEF Popped
<1>v. VersionOK(1) /\ told.ver \in Nat /\ prov.ver \in Nat
  BY <1>p DEF OrderInv, Numbers
<1>1. told.ver <= told'.ver /\ told'.ver <= prov.ver /\ told'.ver \in Nat
  <2>1. CASE wire.pipe[1].type = "updated"
    BY <2>1, <1>p, <1>v DEF VersionOK, Numbers
  <2>2. CASE wire.pipe[1].type # "updated"
    BY <2>2, <1>v DEF OrderInv
  <2>. QED  BY <2>1, <2>2
<1>2. ASSUME NEW i \in 1..Len(wire'.pipe) PROVE VersionOK(i)'
  <2>1. i + 1 \in 1..Len(wire.pipe) /\ wire'.pipe[i] = wire.pipe[i + 1] /\ 1 < i + 1
    BY <1>p, <1>2
  <2>2. VersionOK(i + 1)
    BY <2>1 DEF OrderInv
  <2>3. wire.pipe[1].type = "updated" /\ wire.pipe[i + 1].type \in {"answer", "updated"} => wire.pipe[1].ver <= wire.pipe[i + 1].ver
    BY <1>p, <2>1 DEF OrderInv
  <2>. QED  BY <2>1, <2>2, <2>3 DEF VersionOK
<1>3. ASSUME NEW i \in 1..Len(wire'.pipe), NEW j \in 1..Len(wire'.pipe), i < j, wire'.pipe[i].type = "updated",
             wire'.pipe[j].type \in {"answer", "updated"}
      PROVE  wire'.pipe[i].ver <= wire'.pipe[j].ver
  <2>1. i + 1 \in 1..Len(wire.pipe) /\ wire'.pipe[i] = wire.pipe[i + 1] /\ j + 1 \in 1..Len(wire.pipe) /\ wire'.pipe[j] = wire.pipe[j + 1]
    BY <1>p
  <2>2. i + 1 < j + 1
    BY <1>3
  <2>. QED  BY <1>3, <2>1, <2>2 DEF OrderInv
<1>. QED  BY <1>1, <1>2, <1>3 DEF OrderInv

LEMMA PushedOrder ==
  ASSUME Numbers, OrderInv, NEW f, Pushed(wire.pipe, wire'.pipe, f), told'.ver = told.ver, prov'.ver \in Nat, prov.ver <= prov'.ver,
         f.type \in {"answer", "updated"} => f.ver = prov'.ver
  PROVE  OrderInv'
<1>p. /\ \A i \in 1..Len(wire'.pipe) : i \in 1..Len(wire.pipe) \/ i = Len(wire'.pipe)
      /\ wire'.pipe[Len(wire'.pipe)] = f
      /\ \A i \in 1..Len(wire.pipe) : wire'.pipe[i] = wire.pipe[i] /\ i < Len(wire'.pipe)
      /\ Len(wire'.pipe) \in Nat /\ Len(wire.pipe) \in Nat
  BY DEF Pushed
<1>v. told.ver \in Nat /\ prov.ver \in Nat /\ told.ver <= prov.ver
  BY DEF OrderInv, Numbers
<1>t. ASSUME NEW i \in 1..Len(wire.pipe) PROVE wire.pipe[i].type \in {"answer", "updated"} => wire.pipe[i].ver \in Nat
  BY <1>t DEF Numbers
<1>2. ASSUME NEW i \in 1..Len(wire'.pipe) PROVE VersionOK(i)'
  <2>1. CASE i \in 1..Len(wire.pipe)
    <3>1. VersionOK(i) /\ wire'.pipe[i] = wire.pipe[i]
      BY <1>p, <2>1 DEF OrderInv
    <3>. QED  BY <3>1, <1>t, <1>v, <2>1 DEF VersionOK
  <2>2. CASE i = Len(wire'.pipe)
    BY <2>2, <1>p, <1>v DEF VersionOK
  <2>. QED  BY <1>2, <1>p, <2>1, <2>2
<1>3. ASSUME NEW i \in 1..Len(wire'.pipe), NEW j \in 1..Len(wire'.pipe), i < j, wire'.pipe[i].type = "updated",
             wire'.pipe[j].type \in {"answer", "updated"}
      PROVE  wire'.pipe[i].ver <= wire'.pipe[j].ver
  <2>1. i \in 1..Len(wire.pipe) /\ wire'.pipe[i] = wire.pipe[i]
    <3>1. i # Len(wire'.pipe)
      BY <1>3, <1>p
    <3>. QED  BY <3>1, <1>3, <1>p
  <2>2. CASE j \in 1..Len(wire.pipe)
    BY <1>3, <1>p, <2>1, <2>2 DEF OrderInv
  <2>3. CASE j = Len(wire'.pipe)
    <3>1. VersionOK(i) /\ wire.pipe[i].ver \in Nat
      BY <1>3, <1>t, <2>1 DEF OrderInv
    <3>2. wire'.pipe[j].ver = prov'.ver
      BY <1>3, <2>3, <1>p
    <3>. QED  BY <1>3, <1>v, <2>1, <3>1, <3>2 DEF VersionOK
  <2>. QED  BY <1>3, <1>p, <2>2, <2>3
<1>. QED  BY <1>v, <1>2, <1>3 DEF OrderInv

\* What a request changes.
LEMMA RequestFields ==
  ASSUME AccountTypeOK, NEW kind \in Kinds \cup {"models"}, Request(kind)
  PROVE  /\ Listening /\ tr'.next = tr.next + 1 /\ tr'.pending = tr.next + 1 /\ tr'.retired = tr.retired
         /\ Pushed(wire.queue, wire'.queue, tr.next + 1) /\ wire'.writing = wire.writing /\ wire'.pipe = wire.pipe
         /\ \A n \in 1..tr.next : wire'.kinds[n] = wire.kinds[n]
         /\ wire'.kinds[tr.next + 1] = kind
<1>0. tr \in Transports /\ wire \in Wires /\ Len(wire.kinds) = tr.next
  BY DEF AccountTypeOK
<1>1. tr.next \in Nat /\ tr.next + 1 \in Nat
  BY <1>0 DEF Transports
<1>2. tr' = [tr EXCEPT !.next = tr.next + 1, !.pending = tr.next + 1] /\ Listening
      /\ wire' = [wire EXCEPT !.queue = Append(wire.queue, tr.next + 1), !.kinds = Append(wire.kinds, kind)]
  BY DEF Request
<1>3. tr'.next = tr.next + 1 /\ tr'.pending = tr.next + 1 /\ tr'.retired = tr.retired
  BY <1>0, <1>2 DEF Transports
<1>4. /\ wire'.queue = Append(wire.queue, tr.next + 1) /\ wire'.kinds = Append(wire.kinds, kind)
      /\ wire'.writing = wire.writing /\ wire'.pipe = wire.pipe
  BY <1>0, <1>2 DEF Wires
<1>5. Pushed(wire.queue, wire'.queue, tr.next + 1)
  <2>1. wire.queue \in Seq(Nat)
    BY <1>0 DEF Wires
  <2>. QED  BY <1>1, <1>4, <2>1, PushedSeq
<1>6. (\A n \in 1..tr.next : wire'.kinds[n] = wire.kinds[n]) /\ wire'.kinds[tr.next + 1] = kind
  <2>1. wire.kinds \in Seq(Kinds \cup {"models"})
    BY <1>0 DEF Wires
  <2>2. Pushed(wire.kinds, wire'.kinds, kind)
    BY <1>4, <2>1, PushedSeq
  <2>. QED  BY <1>0, <2>2 DEF Pushed
<1>. QED  BY <1>2, <1>3, <1>4, <1>5, <1>6

\* What the failure of the transport changes.
LEMMA FailsFields ==
  ASSUME AccountTypeOK, TransportFails
  PROVE  /\ tr'.next = tr.next /\ tr'.pending = 0 /\ tr'.retired = tr.retired /\ ~Listening'
         /\ \/ ctl' = ctl /\ task' = task
            \/ ~ctl.closing /\ ~ctl.unresolved /\ task' = Aborted(task)
               /\ ctl' = [ctl EXCEPT !.gen = ctl.gen + 1, !.pending = NoLogin, !.state = "unavailable"]
<1>0. ctl \in Controllers /\ tr \in Transports
  BY DEF AccountTypeOK
<1>1. tr' = [JoinTransport(tr) EXCEPT !.failed = TRUE] /\ JoinTransport(tr) \in Transports
  BY TypeTask DEF TransportFails
<1>2. tr'.next = tr.next /\ tr'.pending = 0 /\ tr'.retired = tr.retired /\ tr'.failed
  BY <1>0, <1>1, JoinFields DEF Transports
<1>3. CASE tr.closing \/ ctl.closing \/ ctl.unresolved
  <2>1. ctl' = ctl
    BY <1>3 DEF TransportFails, OnEvent
  <2>. QED  BY <1>2, <2>1 DEF TransportFails, Listening
<1>4. CASE ~(tr.closing \/ ctl.closing \/ ctl.unresolved)
  <2>1. ctl' = Invalidate([ctl EXCEPT !.pending = NoLogin], "unavailable")
    BY <1>4 DEF TransportFails, OnEvent
  <2>2. ctl' = [ctl EXCEPT !.gen = ctl.gen + 1, !.pending = NoLogin, !.state = "unavailable"]
    BY <1>0, <2>1 DEF Invalidate, Controllers
  <2>3. ctl'.gen = ctl.gen + 1 /\ ctl.gen \in Nat
    BY <1>0, <2>2 DEF Controllers
  <2>4. ctl'.gen # ctl.gen
    BY <2>3
  <2>5. task' = Aborted(task)
    BY <2>4 DEF TransportFails
  <2>. QED  BY <1>2, <1>4, <2>2, <2>5 DEF Listening
<1>. QED  BY <1>3, <1>4

\* An invalidation: the generation moves on and the operation is aborted.
LEMMA Invalidated ==
  ASSUME AccountTypeOK, CallInv, LostInv, EarlyInv, CurrentInv, ~ctl.closing, ~ctl.unresolved, task' = Aborted(task),
         NEW s \in {"unavailable", "unchecked"},
         ctl' = [ctl EXCEPT !.gen = ctl.gen + 1, !.pending = NoLogin, !.state = s],
         tr'.pending = 0, tr'.next = tr.next, wire'.kinds = wire.kinds, told'.lost = told.lost, told'.at = told.at
  PROVE  CallInv' /\ LostInv' /\ EarlyInv' /\ CurrentInv'
<1>0. ctl \in Controllers /\ Numbers
  BY NumbersTyped DEF AccountTypeOK
<1>1. /\ ctl'.gen = ctl.gen + 1 /\ ctl'.pending = NoLogin /\ ctl'.state = s /\ ctl'.basis = ctl.basis
      /\ ctl'.dispatch = ctl.dispatch /\ ctl'.unresolved = ctl.unresolved /\ ctl'.early = ctl.early
      /\ ctl'.closing = ctl.closing /\ ctl'.close = ctl.close
  BY <1>0 DEF Controllers
<1>2. /\ task' = NoTask <=> task = NoTask
      /\ CallActive' <=> CallActive
      /\ CallActive => task'.aborted
      /\ task # NoTask => /\ task'.kind = task.kind /\ task'.gen = task.gen /\ task'.step = task.step
                          /\ task'.returned = task.returned /\ task'.settled = task.settled
                          /\ task'.dispatched = task.dispatched /\ task'.login = task.login
                          /\ (task.aborted => task'.aborted)
  BY AbortedFields
<1>3. CallInv'
  BY <1>2 DEF CallInv, CallActive
<1>4. LostInv'
  BY <1>1, <1>2 DEF LostInv, NoLogin
<1>5. EarlyInv'
  BY <1>1, <1>2 DEF EarlyInv, Current, NoLogin, CallActive
<1>6. CurrentInv'
  <2>1. CallActive => task.gen \in Nat
    BY <1>0 DEF Numbers, CallActive
  <2>2. CallActive' => task'.gen <= ctl'.gen
    BY <1>0, <1>1, <1>2, <2>1 DEF CurrentInv, CallActive, Numbers
  <2>. QED  BY <1>1, <1>2, <2>2 DEF CurrentInv, Current
<1>. QED  BY <1>3, <1>4, <1>5, <1>6

\* The controller and its operation as they were.
LEMMA SameControl ==
  ASSUME CallInv, LostInv, EarlyInv, CurrentInv, ctl'.gen = ctl.gen, ctl'.pending = ctl.pending, ctl'.basis = ctl.basis,
         ctl'.state = ctl.state, ctl'.dispatch = ctl.dispatch, ctl'.unresolved = ctl.unresolved, ctl'.early = ctl.early,
         ctl'.closing = ctl.closing, ctl'.close # "none" => ctl.closing, task' = task, tr'.pending = 0 \/ tr'.pending = tr.pending,
         tr'.next = tr.next, wire'.kinds = wire.kinds, told'.ver = told.ver, told'.done = told.done, told'.full = told.full,
         told'.lost = told.lost, told'.at = told.at
  PROVE  CallInv' /\ LostInv' /\ EarlyInv' /\ CurrentInv'
<1>1. CallInv' /\ LostInv'
  BY DEF CallInv, LostInv, CallActive
<1>2. EarlyInv'
  BY DEF EarlyInv, CallActive, Current
<1>3. CurrentInv'
  BY DEF CurrentInv, CallActive, Current
<1>. QED  BY <1>1, <1>2, <1>3

\* What an answer to the caller changes.
LEMMA ReturnFields ==
  ASSUME NEW c \in Controllers, NEW t \in Operations, NEW d, d = LoginReturned(LoginFailed(RunFailed(c, t), t), t),
         NEW lost, lost <=> t.dispatched /\ ~t.completed
  PROVE  /\ d.closing = c.closing /\ d.close = c.close /\ d.basis = c.basis
         /\ t.dispatched \/ (d.dispatch = c.dispatch /\ d.early = c.early)
         /\ lost /\ ~c.closing => d.gen = c.gen + 1 /\ d.pending = NoLogin /\ d.state = "recovery-required" /\ d.unresolved
         /\ ~(lost /\ ~c.closing) => /\ d.gen = c.gen /\ d.pending = c.pending /\ d.unresolved = c.unresolved
                                     /\ d.state = c.state \/ (d.state = "unavailable" /\ ~c.closing /\ c.state # "recovery-required")
<1>1. PICK f \in Controllers : f = RunFailed(c, t)
  BY TypeReturn
<1>2. PICK g \in Controllers : g = LoginFailed(f, t)
  BY TypeReturn
<1>3. /\ f.closing = c.closing /\ f.close = c.close /\ f.basis = c.basis /\ f.dispatch = c.dispatch /\ f.early = c.early
      /\ f.gen = c.gen /\ f.pending = c.pending /\ f.unresolved = c.unresolved
      /\ f.state = c.state \/ (f.state = "unavailable" /\ ~c.closing /\ c.state # "recovery-required")
  BY <1>1 DEF RunFailed, Controllers
<1>4. /\ g.closing = f.closing /\ g.close = f.close /\ g.basis = f.basis /\ g.dispatch = f.dispatch /\ g.early = f.early
      /\ lost /\ ~f.closing => g.gen = f.gen + 1 /\ g.pending = NoLogin /\ g.state = "recovery-required" /\ g.unresolved
      /\ ~(lost /\ ~f.closing) => g = f
  BY <1>2 DEF LoginFailed, Invalidate, Controllers
<1>5. /\ d.closing = g.closing /\ d.close = g.close /\ d.basis = g.basis /\ d.gen = g.gen /\ d.pending = g.pending
      /\ d.unresolved = g.unresolved /\ d.state = g.state /\ (t.dispatched \/ (d.dispatch = g.dispatch /\ d.early = g.early))
  BY <1>1, <1>2 DEF LoginReturned, Controllers
<1>. QED  BY <1>3, <1>4, <1>5

\* What an event changes that is no invalidation.
LEMMA EventCases ==
  ASSUME AccountTypeOK, NEW e, e.type \in {"completed", "updated"}, ctl' = OnEvent(ctl, e)
  PROVE  \/ ctl' = ctl /\ (ctl.closing \/ ctl.unresolved)
         \/ /\ ~ctl.closing /\ ~ctl.unresolved /\ e.type = "completed" /\ ctl.pending = NoLogin /\ ctl.dispatch
            /\ ctl' = IF Cardinality(ctl.early) < MaxEarly THEN [ctl EXCEPT !.early = ctl.early \cup {e.login}] ELSE ctl
         \/ /\ ~ctl.closing /\ ~ctl.unresolved /\ e.type = "completed" /\ ~(ctl.pending = NoLogin /\ ctl.dispatch)
            /\ ctl.pending # e.login /\ ctl' = ctl
         \/ /\ ~ctl.closing /\ ~ctl.unresolved
            /\ ctl' = [ctl EXCEPT !.gen = ctl.gen + 1, !.pending = NoLogin, !.state = "unchecked"]
<1>1. CASE ctl.closing \/ ctl.unresolved
  BY <1>1 DEF OnEvent
<1>2. CASE ~(ctl.closing \/ ctl.unresolved) /\ e.type = "completed" /\ ctl.pending = NoLogin /\ ctl.dispatch
  BY <1>2 DEF OnEvent
<1>3. CASE ~(ctl.closing \/ ctl.unresolved) /\ e.type = "completed" /\ ~(ctl.pending = NoLogin /\ ctl.dispatch) /\ ctl.pending # e.login
  BY <1>3 DEF OnEvent
<1>4. CASE ~(ctl.closing \/ ctl.unresolved) /\ ~(e.type = "completed" /\ ctl.pending = NoLogin /\ ctl.dispatch)
           /\ ~(e.type = "completed" /\ ctl.pending # e.login)
  <2>1. ctl' = Invalidate([ctl EXCEPT !.pending = NoLogin], "unchecked")
    BY <1>4 DEF OnEvent
  <2>2. ctl \in Controllers
    BY DEF AccountTypeOK
  <2>3. ctl' = [ctl EXCEPT !.gen = ctl.gen + 1, !.pending = NoLogin, !.state = "unchecked"]
    BY <2>1, <2>2 DEF Invalidate, Controllers
  <2>. QED  BY <1>4, <2>3
<1>. QED  BY <1>1, <1>2, <1>3, <1>4

LEMMA RunRefusedKeeps ==
  ASSUME AccountTypeOK, LoginInv, RunRefused
  PROVE  LoginInv'
<1>t. /\ ctl \in Controllers /\ tr \in Transports /\ wire \in Wires /\ prov \in Providers /\ told \in Tolds
      /\ task # NoTask => task \in Operations
  BY DEF AccountTypeOK
<1>n. Numbers
  BY NumbersTyped
<1>d. IdsInv /\ OnceInv /\ LateInv
  BY DEF LoginInv
<1>c. CallInv
  BY DEF LoginInv
<1>r. OrderInv
  BY DEF LoginInv
<1>s. LostInv
  BY DEF LoginInv
<1>e. EarlyInv
  BY DEF LoginInv
<1>v. CurrentInv
  BY DEF LoginInv
<1>1. ASSUME ~ctl.closing,
             ctl.state \notin {"closed", "recovery-required"},
             ~CallActive,
             ctl' = [ctl EXCEPT !.gen = ctl.gen + 1, !.state = "unavailable"],
             UNCHANGED <<task, tr, wire, prov, told>>
     PROVE  LoginInv'
  <2>h. ~ctl.closing /\ ctl.state \notin {"closed", "recovery-required"} /\ ~CallActive
    BY <1>1
  <2>g. task' = task /\ tr' = tr /\ wire' = wire /\ prov' = prov /\ told' = told
    BY <1>1
  <2>g1. /\ ctl'.gen = ctl.gen + 1 /\ ctl'.pending = ctl.pending /\ ctl'.state = "unavailable" /\ ctl'.basis = ctl.basis
         /\ ctl'.dispatch = ctl.dispatch /\ ctl'.unresolved = ctl.unresolved /\ ctl'.early = ctl.early
         /\ ctl'.closing = ctl.closing /\ ctl'.close = ctl.close
    BY <1>t, <1>1 DEF Controllers
  <2>1. CallInv'
    BY <1>c, <1>n, <2>h, <2>g, <2>g1 DEF CallInv, CallActive, Numbers
  <2>2. IdsInv' /\ OnceInv' /\ LateInv'
    BY <1>d, <1>n, SameWire, <2>h, <2>g, <2>g1 DEF IdsInv, Listening, Expected
  <2>3. OrderInv'
    BY <1>r, SameOrder, <2>h, <2>g, <2>g1
  <2>4. LostInv'
    BY <1>s, <2>h, <2>g, <2>g1 DEF LostInv, CallActive, Current, NoLogin
  <2>5. EarlyInv'
    BY <1>e, <1>s, <1>v, <1>c, <1>n, <2>h, <2>g, <2>g1 DEF EarlyInv, LostInv, CallActive, Current, NoLogin, Numbers, IdsInv, CallInv
  <2>6. CurrentInv'
    BY <1>v, <1>s, <1>n, <2>h, <2>g, <2>g1 DEF CurrentInv, LostInv, CallActive, Current, Numbers
  <2>. QED  BY <2>1, <2>2, <2>3, <2>4, <2>5, <2>6 DEF LoginInv
<1>2. ASSUME ~ctl.closing,
             ctl.state \notin {"closed", "recovery-required"},
             ~CallActive,
             ctl' = [ctl EXCEPT !.gen = ctl.gen + 1, !.state = "recovery-required"],
             UNCHANGED <<task, tr, wire, prov, told>>
     PROVE  LoginInv'
  <2>h. ~ctl.closing /\ ctl.state \notin {"closed", "recovery-required"} /\ ~CallActive
    BY <1>2
  <2>g. task' = task /\ tr' = tr /\ wire' = wire /\ prov' = prov /\ told' = told
    BY <1>2
  <2>g1. /\ ctl'.gen = ctl.gen + 1 /\ ctl'.pending = ctl.pending /\ ctl'.state = "recovery-required"
         /\ ctl'.basis = ctl.basis /\ ctl'.dispatch = ctl.dispatch /\ ctl'.unresolved = ctl.unresolved
         /\ ctl'.early = ctl.early /\ ctl'.closing = ctl.closing /\ ctl'.close = ctl.close
    BY <1>t, <1>2 DEF Controllers
  <2>1. CallInv'
    BY <1>c, <1>n, <2>h, <2>g, <2>g1 DEF CallInv, CallActive, Numbers
  <2>2. IdsInv' /\ OnceInv' /\ LateInv'
    BY <1>d, <1>n, SameWire, <2>h, <2>g, <2>g1 DEF IdsInv, Listening, Expected
  <2>3. OrderInv'
    BY <1>r, SameOrder, <2>h, <2>g, <2>g1
  <2>4. LostInv'
    BY <1>s, <2>h, <2>g, <2>g1 DEF LostInv, CallActive, Current, NoLogin
  <2>5. EarlyInv'
    BY <1>e, <1>s, <1>v, <1>c, <1>n, <2>h, <2>g, <2>g1 DEF EarlyInv, LostInv, CallActive, Current, NoLogin, Numbers, IdsInv, CallInv
  <2>6. CurrentInv'
    BY <1>v, <1>s, <1>n, <2>h, <2>g, <2>g1 DEF CurrentInv, LostInv, CallActive, Current, Numbers
  <2>. QED  BY <2>1, <2>2, <2>3, <2>4, <2>5, <2>6 DEF LoginInv
<1>. QED
  BY <1>1, <1>2 DEF RunRefused, CanRun, Invalidate

LEMMA DispatchKeeps ==
  ASSUME AccountTypeOK, LoginInv, Dispatch
  PROVE  LoginInv'
<1>t. /\ ctl \in Controllers /\ tr \in Transports /\ wire \in Wires /\ prov \in Providers /\ told \in Tolds
      /\ task # NoTask => task \in Operations
  BY DEF AccountTypeOK
<1>n. Numbers
  BY NumbersTyped
<1>d. IdsInv /\ OnceInv /\ LateInv
  BY DEF LoginInv
<1>c. CallInv
  BY DEF LoginInv
<1>r. OrderInv
  BY DEF LoginInv
<1>s. LostInv
  BY DEF LoginInv
<1>e. EarlyInv
  BY DEF LoginInv
<1>v. CurrentInv
  BY DEF LoginInv
<1>1. ASSUME CallActive,
             task.step = "queued",
             Current(ctl, task),
             ctl' = [ctl EXCEPT !.dispatch = (task.kind = "login")],
             task' = [task EXCEPT !.step = "waiting", !.dispatched = (task.kind = "login")],
             UNCHANGED <<tr, wire, prov, told>>
     PROVE  LoginInv'
  <2>h. CallActive /\ task.step = "queued" /\ Current(ctl, task)
    BY <1>1
  <2>k. task \in Operations /\ task # NoTask
    BY <1>t, <2>h DEF CallActive
  <2>g. tr' = tr /\ wire' = wire /\ prov' = prov /\ told' = told
    BY <1>1
  <2>g1. /\ ctl'.gen = ctl.gen /\ ctl'.pending = ctl.pending /\ ctl'.state = ctl.state /\ ctl'.basis = ctl.basis
         /\ ctl'.dispatch = (task.kind = "login") /\ ctl'.unresolved = ctl.unresolved /\ ctl'.early = ctl.early
         /\ ctl'.closing = ctl.closing /\ ctl'.close = ctl.close
    BY <1>t, <1>1 DEF Controllers
  <2>g2. /\ task'.kind = task.kind /\ task'.gen = task.gen /\ task'.step = "waiting" /\ task'.aborted = task.aborted
         /\ task'.returned = task.returned /\ task'.settled = task.settled /\ task'.dispatched = (task.kind = "login")
         /\ task'.login = task.login /\ task'.signed = task.signed /\ task'.ver = task.ver
    BY <1>t, <1>1, <2>k DEF Operations
  <2>j. task' # NoTask
    BY <2>k, <2>g2 DEF Operations, Kinds, NoTask
  <2>1. CallInv'
    BY <1>c, <1>n, <2>h, <2>g, <2>g1, <2>g2, <2>j DEF CallInv, CallActive, Numbers
  <2>2. IdsInv' /\ OnceInv' /\ LateInv'
    BY <1>d, <1>n, SameWire, <2>h, <2>g, <2>g1, <2>g2, <2>j DEF IdsInv, Listening, Expected
  <2>3. OrderInv'
    BY <1>r, SameOrder, <2>h, <2>g, <2>g1, <2>g2, <2>j
  <2>4. LostInv'
    BY <1>s, <2>h, <2>g, <2>g1, <2>g2, <2>j DEF LostInv, CallActive, Current, NoLogin
  <2>5. EarlyInv'
    BY <1>e, <1>s, <1>v, <1>c, <1>n, <2>h, <2>g, <2>g1, <2>g2, <2>j DEF EarlyInv, LostInv, CallActive, Current, NoLogin, Numbers, IdsInv, CallInv
  <2>6. CurrentInv'
    BY <1>v, <1>s, <1>n, <2>h, <2>g, <2>g1, <2>g2, <2>j DEF CurrentInv, LostInv, CallActive, Current, Numbers
  <2>. QED  BY <2>1, <2>2, <2>3, <2>4, <2>5, <2>6 DEF LoginInv
<1>. QED
  BY <1>1 DEF Dispatch

LEMMA SendKeeps ==
  ASSUME AccountTypeOK, LoginInv, Send
  PROVE  LoginInv'
<1>t. /\ ctl \in Controllers /\ tr \in Transports /\ wire \in Wires /\ prov \in Providers /\ told \in Tolds
      /\ task # NoTask => task \in Operations
  BY DEF AccountTypeOK
<1>n. Numbers
  BY NumbersTyped
<1>d. IdsInv /\ OnceInv /\ LateInv
  BY DEF LoginInv
<1>c. CallInv
  BY DEF LoginInv
<1>r. OrderInv
  BY DEF LoginInv
<1>s. LostInv
  BY DEF LoginInv
<1>e. EarlyInv
  BY DEF LoginInv
<1>v. CurrentInv
  BY DEF LoginInv
<1>1. ASSUME CallActive,
             task.step = "waiting",
             ~task.aborted,
             task' = [task EXCEPT !.step = "called"],
             Request(task.kind),
             UNCHANGED <<ctl, prov, told>>
     PROVE  LoginInv'
  <2>h. CallActive /\ task.step = "waiting" /\ ~task.aborted
    BY <1>1
  <2>k. task \in Operations /\ task # NoTask
    BY <1>t, <2>h DEF CallActive
  <2>g. ctl' = ctl /\ prov' = prov /\ told' = told
    BY <1>1
  <2>g1. /\ task'.kind = task.kind /\ task'.gen = task.gen /\ task'.step = "called" /\ task'.aborted = task.aborted
         /\ task'.returned = task.returned /\ task'.settled = task.settled /\ task'.dispatched = task.dispatched
         /\ task'.login = task.login /\ task'.signed = task.signed /\ task'.ver = task.ver
    BY <1>t, <1>1, <2>k DEF Operations
  <2>g2. /\ Listening /\ tr'.next = tr.next + 1 /\ tr'.pending = tr.next + 1 /\ tr'.retired = tr.retired
         /\ Pushed(wire.queue, wire'.queue, tr.next + 1) /\ wire'.writing = wire.writing /\ wire'.pipe = wire.pipe
         /\ (\A n \in 1..tr.next : wire'.kinds[n] = wire.kinds[n]) /\ wire'.kinds[tr.next + 1] = task.kind
    BY <1>1, <2>k, RequestFields DEF Operations
  <2>j. task' # NoTask
    BY <2>k, <2>g1 DEF Operations, Kinds, NoTask
  <2>i. tr'.next \notin told.done /\ (task.kind \in Kinds => task.kind # "models")
    <3>1. tr.next + 1 \notin 1..tr.next
      BY <1>n DEF Numbers
    <3>2. tr'.next = tr.next + 1 /\ told.done \subseteq 1..tr.next
      BY <1>d, <2>g, <2>g1, <2>g2, <2>j DEF IdsInv
    <3>3. task.kind \in Kinds => task.kind # "models"
      BY DEF Kinds
    <3>. QED  BY <3>1, <3>2, <3>3
  <2>1. CallInv'
    BY <1>c, <1>n, <2>h, <2>g, <2>g1, <2>g2, <2>j, <2>i DEF CallInv, CallActive, Numbers
  <2>2. IdsInv' /\ OnceInv' /\ LateInv'
    BY <1>d, <1>n, <1>c, <2>h, <2>g, <2>g1, <2>g2, <2>j, <2>i, RequestWire DEF CallInv, Numbers
  <2>3. OrderInv'
    BY <1>r, SameOrder, <2>h, <2>g, <2>g1, <2>g2, <2>j, <2>i
  <2>4. LostInv'
    BY <1>s, <2>h, <2>g, <2>g1, <2>g2, <2>j, <2>i DEF LostInv, CallActive, Current, NoLogin
  <2>5. EarlyInv'
    BY <1>e, <1>s, <1>v, <1>c, <1>n, <2>h, <2>g, <2>g1, <2>g2, <2>j, <2>i DEF EarlyInv, LostInv, CallActive, Current, NoLogin, Numbers, IdsInv, CallInv
  <2>6. CurrentInv'
    BY <1>v, <1>s, <1>n, <2>h, <2>g, <2>g1, <2>g2, <2>j, <2>i DEF CurrentInv, LostInv, CallActive, Current, Numbers
  <2>. QED  BY <2>1, <2>2, <2>3, <2>4, <2>5, <2>6 DEF LoginInv
<1>. QED
  BY <1>1 DEF Send

LEMMA ContinueKeeps ==
  ASSUME AccountTypeOK, LoginInv, Continue
  PROVE  LoginInv'
<1>t. /\ ctl \in Controllers /\ tr \in Transports /\ wire \in Wires /\ prov \in Providers /\ told \in Tolds
      /\ task # NoTask => task \in Operations
  BY DEF AccountTypeOK
<1>n. Numbers
  BY NumbersTyped
<1>d. IdsInv /\ OnceInv /\ LateInv
  BY DEF LoginInv
<1>c. CallInv
  BY DEF LoginInv
<1>r. OrderInv
  BY DEF LoginInv
<1>s. LostInv
  BY DEF LoginInv
<1>e. EarlyInv
  BY DEF LoginInv
<1>v. CurrentInv
  BY DEF LoginInv
<1>1. ASSUME CallActive,
             task.step = "answered",
             Current(ctl, task),
             wire.kinds[tr.next] = "check",
             task.signed,
             task' = [task EXCEPT !.step = "called"],
             Request("models"),
             UNCHANGED <<ctl, prov, told>>
     PROVE  LoginInv'
  <2>h. CallActive /\ task.step = "answered" /\ Current(ctl, task) /\ wire.kinds[tr.next] = "check" /\ task.signed
    BY <1>1
  <2>k. task \in Operations /\ task # NoTask
    BY <1>t, <2>h DEF CallActive
  <2>g. ctl' = ctl /\ prov' = prov /\ told' = told
    BY <1>1
  <2>g1. /\ task'.kind = task.kind /\ task'.gen = task.gen /\ task'.step = "called" /\ task'.aborted = task.aborted
         /\ task'.returned = task.returned /\ task'.settled = task.settled /\ task'.dispatched = task.dispatched
         /\ task'.login = task.login /\ task'.signed = task.signed /\ task'.ver = task.ver
    BY <1>t, <1>1, <2>k DEF Operations
  <2>g2. /\ Listening /\ tr'.next = tr.next + 1 /\ tr'.pending = tr.next + 1 /\ tr'.retired = tr.retired
         /\ Pushed(wire.queue, wire'.queue, tr.next + 1) /\ wire'.writing = wire.writing /\ wire'.pipe = wire.pipe
         /\ (\A n \in 1..tr.next : wire'.kinds[n] = wire.kinds[n]) /\ wire'.kinds[tr.next + 1] = "models"
    BY <1>1, RequestFields
  <2>j. task' # NoTask
    BY <2>k, <2>g1 DEF Operations, Kinds, NoTask
  <2>i. tr'.next \notin told.done /\ (task.kind \in Kinds => task.kind # "models")
    <3>1. tr.next + 1 \notin 1..tr.next
      BY <1>n DEF Numbers
    <3>2. tr'.next = tr.next + 1 /\ told.done \subseteq 1..tr.next
      BY <1>d, <2>g, <2>g1, <2>g2, <2>j DEF IdsInv
    <3>3. task.kind \in Kinds => task.kind # "models"
      BY DEF Kinds
    <3>. QED  BY <3>1, <3>2, <3>3
  <2>1. CallInv'
    BY <1>c, <1>n, <2>h, <2>g, <2>g1, <2>g2, <2>j, <2>i DEF CallInv, CallActive, Numbers
  <2>2. IdsInv' /\ OnceInv' /\ LateInv'
    BY <1>d, <1>n, <1>c, <2>h, <2>g, <2>g1, <2>g2, <2>j, <2>i, RequestWire DEF CallInv, Numbers
  <2>3. OrderInv'
    BY <1>r, SameOrder, <2>h, <2>g, <2>g1, <2>g2, <2>j, <2>i
  <2>4. LostInv'
    BY <1>s, <2>h, <2>g, <2>g1, <2>g2, <2>j, <2>i DEF LostInv, CallActive, Current, NoLogin
  <2>5. EarlyInv'
    BY <1>e, <1>s, <1>v, <1>c, <1>n, <2>h, <2>g, <2>g1, <2>g2, <2>j, <2>i DEF EarlyInv, LostInv, CallActive, Current, NoLogin, Numbers, IdsInv, CallInv
  <2>6. CurrentInv'
    BY <1>v, <1>s, <1>n, <2>h, <2>g, <2>g1, <2>g2, <2>j, <2>i DEF CurrentInv, LostInv, CallActive, Current, Numbers
  <2>. QED  BY <2>1, <2>2, <2>3, <2>4, <2>5, <2>6 DEF LoginInv
<1>2. ASSUME NEW s \in {"signed-out", "signing-in", "unavailable"},
             CallActive,
             task.step = "answered",
             Current(ctl, task),
             ctl' = [ctl EXCEPT !.state = s],
             task' = NoTask,
             UNCHANGED <<tr, wire, prov, told>>
     PROVE  LoginInv'
  <2>h. s \in {"signed-out", "signing-in", "unavailable"} /\ CallActive /\ task.step = "answered" /\ Current(ctl, task)
    BY <1>2
  <2>g. task' = NoTask /\ tr' = tr /\ wire' = wire /\ prov' = prov /\ told' = told
    BY <1>2
  <2>g1. /\ ctl'.gen = ctl.gen /\ ctl'.pending = ctl.pending /\ ctl'.state = s /\ ctl'.basis = ctl.basis
         /\ ctl'.dispatch = ctl.dispatch /\ ctl'.unresolved = ctl.unresolved /\ ctl'.early = ctl.early
         /\ ctl'.closing = ctl.closing /\ ctl'.close = ctl.close
    BY <1>t, <1>2 DEF Controllers
  <2>1. CallInv'
    BY <1>c, <1>n, <2>h, <2>g, <2>g1 DEF CallInv, CallActive, Numbers
  <2>2. IdsInv' /\ OnceInv' /\ LateInv'
    BY <1>d, <1>n, SameWire, <2>h, <2>g, <2>g1 DEF IdsInv, Listening, Expected
  <2>3. OrderInv'
    BY <1>r, SameOrder, <2>h, <2>g, <2>g1
  <2>4. LostInv'
    BY <1>s, <2>h, <2>g, <2>g1 DEF LostInv, CallActive, Current, NoLogin
  <2>5. EarlyInv'
    BY <1>e, <1>s, <1>v, <1>c, <1>n, <2>h, <2>g, <2>g1 DEF EarlyInv, LostInv, CallActive, Current, NoLogin, Numbers, IdsInv, CallInv
  <2>6. CurrentInv'
    BY <1>v, <1>s, <1>n, <2>h, <2>g, <2>g1 DEF CurrentInv, LostInv, CallActive, Current, Numbers
  <2>. QED  BY <2>1, <2>2, <2>3, <2>4, <2>5, <2>6 DEF LoginInv
<1>3. ASSUME CallActive,
             task.step = "answered",
             Current(ctl, task),
             wire.kinds[tr.next] = "models",
             ctl' = [ctl EXCEPT !.state = "signed-in", !.basis = task.ver],
             task' = NoTask,
             UNCHANGED <<tr, wire, prov, told>>
     PROVE  LoginInv'
  <2>h. CallActive /\ task.step = "answered" /\ Current(ctl, task) /\ wire.kinds[tr.next] = "models"
    BY <1>3
  <2>g. task' = NoTask /\ tr' = tr /\ wire' = wire /\ prov' = prov /\ told' = told
    BY <1>3
  <2>g1. /\ ctl'.gen = ctl.gen /\ ctl'.pending = ctl.pending /\ ctl'.state = "signed-in" /\ ctl'.basis = task.ver
         /\ ctl'.dispatch = ctl.dispatch /\ ctl'.unresolved = ctl.unresolved /\ ctl'.early = ctl.early
         /\ ctl'.closing = ctl.closing /\ ctl'.close = ctl.close
    BY <1>t, <1>3 DEF Controllers
  <2>1. CallInv'
    BY <1>c, <1>n, <2>h, <2>g, <2>g1 DEF CallInv, CallActive, Numbers
  <2>2. IdsInv' /\ OnceInv' /\ LateInv'
    BY <1>d, <1>n, SameWire, <2>h, <2>g, <2>g1 DEF IdsInv, Listening, Expected
  <2>3. OrderInv'
    BY <1>r, SameOrder, <2>h, <2>g, <2>g1
  <2>4. LostInv'
    BY <1>s, <2>h, <2>g, <2>g1 DEF LostInv, CallActive, Current, NoLogin
  <2>5. EarlyInv'
    BY <1>e, <1>s, <1>v, <1>c, <1>n, <2>h, <2>g, <2>g1 DEF EarlyInv, LostInv, CallActive, Current, NoLogin, Numbers, IdsInv, CallInv
  <2>6. CurrentInv'
    BY <1>v, <1>s, <1>n, <2>h, <2>g, <2>g1 DEF CurrentInv, LostInv, CallActive, Current, Numbers
  <2>. QED  BY <2>1, <2>2, <2>3, <2>4, <2>5, <2>6 DEF LoginInv
<1>4. ASSUME CallActive,
             task.step = "answered",
             Current(ctl, task),
             wire.kinds[tr.next] = "login",
             task.login \in ctl.early,
             ctl' = [ctl EXCEPT !.gen = ctl.gen + 1, !.state = "unchecked"],
             task' = [task EXCEPT !.settled = TRUE, !.completed = TRUE],
             UNCHANGED <<tr, wire, prov, told>>
     PROVE  LoginInv'
  <2>h. /\ CallActive /\ task.step = "answered" /\ Current(ctl, task) /\ wire.kinds[tr.next] = "login"
        /\ task.login \in ctl.early
    BY <1>4
  <2>k. task \in Operations /\ task # NoTask
    BY <1>t, <2>h DEF CallActive
  <2>g. tr' = tr /\ wire' = wire /\ prov' = prov /\ told' = told
    BY <1>4
  <2>g1. /\ ctl'.gen = ctl.gen + 1 /\ ctl'.pending = ctl.pending /\ ctl'.state = "unchecked" /\ ctl'.basis = ctl.basis
         /\ ctl'.dispatch = ctl.dispatch /\ ctl'.unresolved = ctl.unresolved /\ ctl'.early = ctl.early
         /\ ctl'.closing = ctl.closing /\ ctl'.close = ctl.close
    BY <1>t, <1>4 DEF Controllers
  <2>g2. /\ task'.kind = task.kind /\ task'.gen = task.gen /\ task'.step = task.step /\ task'.aborted = task.aborted
         /\ task'.returned = task.returned /\ task'.settled = TRUE /\ task'.dispatched = task.dispatched
         /\ task'.login = task.login /\ task'.signed = task.signed /\ task'.ver = task.ver
    BY <1>t, <1>4, <2>k DEF Operations
  <2>j. task' # NoTask
    BY <2>k, <2>g2 DEF Operations, Kinds, NoTask
  <2>1. CallInv'
    BY <1>c, <1>n, <2>h, <2>g, <2>g1, <2>g2, <2>j DEF CallInv, CallActive, Numbers
  <2>2. IdsInv' /\ OnceInv' /\ LateInv'
    BY <1>d, <1>n, SameWire, <2>h, <2>g, <2>g1, <2>g2, <2>j DEF IdsInv, Listening, Expected
  <2>3. OrderInv'
    BY <1>r, SameOrder, <2>h, <2>g, <2>g1, <2>g2, <2>j
  <2>4. LostInv'
    BY <1>s, <2>h, <2>g, <2>g1, <2>g2, <2>j DEF LostInv, CallActive, Current, NoLogin
  <2>5. EarlyInv'
    BY <1>e, <1>s, <1>v, <1>c, <1>n, <2>h, <2>g, <2>g1, <2>g2, <2>j DEF EarlyInv, LostInv, CallActive, Current, NoLogin, Numbers, IdsInv, CallInv
  <2>6. CurrentInv'
    BY <1>v, <1>s, <1>n, <2>h, <2>g, <2>g1, <2>g2, <2>j DEF CurrentInv, LostInv, CallActive, Current, Numbers
  <2>. QED  BY <2>1, <2>2, <2>3, <2>4, <2>5, <2>6 DEF LoginInv
<1>5. ASSUME CallActive,
             task.step = "answered",
             Current(ctl, task),
             wire.kinds[tr.next] = "login",
             task.login \notin ctl.early,
             task' = NoTask,
             ctl' = LoginReturned([ctl EXCEPT !.pending = task.login, !.state = "signing-in"], task),
             UNCHANGED <<tr, wire, prov, told>>
     PROVE  LoginInv'
  <2>h. /\ CallActive /\ task.step = "answered" /\ Current(ctl, task) /\ wire.kinds[tr.next] = "login"
        /\ task.login \notin ctl.early
    BY <1>5
  <2>g. task' = NoTask /\ tr' = tr /\ wire' = wire /\ prov' = prov /\ told' = told
    BY <1>5
  <2>g1. /\ ctl'.gen = ctl.gen /\ ctl'.pending = task.login /\ ctl'.state = "signing-in" /\ ctl'.basis = ctl.basis
         /\ ctl'.unresolved = ctl.unresolved /\ ctl'.closing = ctl.closing /\ ctl'.close = ctl.close
    BY <1>t, <1>5 DEF LoginReturned, Controllers
  <2>1. CallInv'
    BY <1>c, <1>n, <2>h, <2>g, <2>g1 DEF CallInv, CallActive, Numbers
  <2>2. IdsInv' /\ OnceInv' /\ LateInv'
    BY <1>d, <1>n, SameWire, <2>h, <2>g, <2>g1 DEF IdsInv, Listening, Expected
  <2>3. OrderInv'
    BY <1>r, SameOrder, <2>h, <2>g, <2>g1
  <2>4. LostInv'
    BY <1>s, <2>h, <2>g, <2>g1 DEF LostInv, CallActive, Current, NoLogin
  <2>5. EarlyInv'
    BY <1>e, <1>s, <1>v, <1>c, <1>n, <2>h, <2>g, <2>g1 DEF EarlyInv, LostInv, CallActive, Current, NoLogin, Numbers, IdsInv, CallInv
  <2>6. CurrentInv'
    BY <1>v, <1>s, <1>n, <2>h, <2>g, <2>g1 DEF CurrentInv, LostInv, CallActive, Current, Numbers
  <2>. QED  BY <2>1, <2>2, <2>3, <2>4, <2>5, <2>6 DEF LoginInv
<1>6. ASSUME CallActive,
             task.step = "answered",
             Current(ctl, task),
             ctl' = [ctl EXCEPT !.pending = NoLogin, !.state = "unchecked"],
             task' = NoTask,
             UNCHANGED <<tr, wire, prov, told>>
     PROVE  LoginInv'
  <2>h. CallActive /\ task.step = "answered" /\ Current(ctl, task)
    BY <1>6
  <2>g. task' = NoTask /\ tr' = tr /\ wire' = wire /\ prov' = prov /\ told' = told
    BY <1>6
  <2>g1. /\ ctl'.gen = ctl.gen /\ ctl'.pending = NoLogin /\ ctl'.state = "unchecked" /\ ctl'.basis = ctl.basis
         /\ ctl'.dispatch = ctl.dispatch /\ ctl'.unresolved = ctl.unresolved /\ ctl'.early = ctl.early
         /\ ctl'.closing = ctl.closing /\ ctl'.close = ctl.close
    BY <1>t, <1>6 DEF Controllers
  <2>1. CallInv'
    BY <1>c, <1>n, <2>h, <2>g, <2>g1 DEF CallInv, CallActive, Numbers
  <2>2. IdsInv' /\ OnceInv' /\ LateInv'
    BY <1>d, <1>n, SameWire, <2>h, <2>g, <2>g1 DEF IdsInv, Listening, Expected
  <2>3. OrderInv'
    BY <1>r, SameOrder, <2>h, <2>g, <2>g1
  <2>4. LostInv'
    BY <1>s, <2>h, <2>g, <2>g1 DEF LostInv, CallActive, Current, NoLogin
  <2>5. EarlyInv'
    BY <1>e, <1>s, <1>v, <1>c, <1>n, <2>h, <2>g, <2>g1 DEF EarlyInv, LostInv, CallActive, Current, NoLogin, Numbers, IdsInv, CallInv
  <2>6. CurrentInv'
    BY <1>v, <1>s, <1>n, <2>h, <2>g, <2>g1 DEF CurrentInv, LostInv, CallActive, Current, Numbers
  <2>. QED  BY <2>1, <2>2, <2>3, <2>4, <2>5, <2>6 DEF LoginInv
<1>7. ASSUME CallActive,
             task.step = "answered",
             Current(ctl, task),
             wire.kinds[tr.next] = "logout",
             ctl' = [ctl EXCEPT !.pending = NoLogin],
             task' = [task EXCEPT !.step = "called"],
             Request("check"),
             UNCHANGED <<prov, told>>
     PROVE  LoginInv'
  <2>h. CallActive /\ task.step = "answered" /\ Current(ctl, task) /\ wire.kinds[tr.next] = "logout"
    BY <1>7
  <2>k. task \in Operations /\ task # NoTask
    BY <1>t, <2>h DEF CallActive
  <2>g. prov' = prov /\ told' = told
    BY <1>7
  <2>g1. /\ ctl'.gen = ctl.gen /\ ctl'.pending = NoLogin /\ ctl'.state = ctl.state /\ ctl'.basis = ctl.basis
         /\ ctl'.dispatch = ctl.dispatch /\ ctl'.unresolved = ctl.unresolved /\ ctl'.early = ctl.early
         /\ ctl'.closing = ctl.closing /\ ctl'.close = ctl.close
    BY <1>t, <1>7 DEF Controllers
  <2>g2. /\ task'.kind = task.kind /\ task'.gen = task.gen /\ task'.step = "called" /\ task'.aborted = task.aborted
         /\ task'.returned = task.returned /\ task'.settled = task.settled /\ task'.dispatched = task.dispatched
         /\ task'.login = task.login /\ task'.signed = task.signed /\ task'.ver = task.ver
    BY <1>t, <1>7, <2>k DEF Operations
  <2>g3. /\ Listening /\ tr'.next = tr.next + 1 /\ tr'.pending = tr.next + 1 /\ tr'.retired = tr.retired
         /\ Pushed(wire.queue, wire'.queue, tr.next + 1) /\ wire'.writing = wire.writing /\ wire'.pipe = wire.pipe
         /\ (\A n \in 1..tr.next : wire'.kinds[n] = wire.kinds[n]) /\ wire'.kinds[tr.next + 1] = "check"
    BY <1>7, RequestFields DEF Kinds
  <2>j. task' # NoTask
    BY <2>k, <2>g2 DEF Operations, Kinds, NoTask
  <2>i. tr'.next \notin told.done /\ (task.kind \in Kinds => task.kind # "models")
    <3>1. tr.next + 1 \notin 1..tr.next
      BY <1>n DEF Numbers
    <3>2. tr'.next = tr.next + 1 /\ told.done \subseteq 1..tr.next
      BY <1>d, <2>g, <2>g1, <2>g2, <2>g3, <2>j DEF IdsInv
    <3>3. task.kind \in Kinds => task.kind # "models"
      BY DEF Kinds
    <3>. QED  BY <3>1, <3>2, <3>3
  <2>1. CallInv'
    BY <1>c, <1>n, <2>h, <2>g, <2>g1, <2>g2, <2>g3, <2>j, <2>i DEF CallInv, CallActive, Numbers
  <2>2. IdsInv' /\ OnceInv' /\ LateInv'
    BY <1>d, <1>n, <1>c, <2>h, <2>g, <2>g1, <2>g2, <2>g3, <2>j, <2>i, RequestWire DEF CallInv, Numbers
  <2>3. OrderInv'
    BY <1>r, SameOrder, <2>h, <2>g, <2>g1, <2>g2, <2>g3, <2>j, <2>i
  <2>4. LostInv'
    BY <1>s, <2>h, <2>g, <2>g1, <2>g2, <2>g3, <2>j, <2>i DEF LostInv, CallActive, Current, NoLogin
  <2>5. EarlyInv'
    BY <1>e, <1>s, <1>v, <1>c, <1>n, <2>h, <2>g, <2>g1, <2>g2, <2>g3, <2>j, <2>i DEF EarlyInv, LostInv, CallActive, Current, NoLogin, Numbers, IdsInv, CallInv
  <2>6. CurrentInv'
    BY <1>v, <1>s, <1>n, <2>h, <2>g, <2>g1, <2>g2, <2>g3, <2>j, <2>i DEF CurrentInv, LostInv, CallActive, Current, Numbers
  <2>. QED  BY <2>1, <2>2, <2>3, <2>4, <2>5, <2>6 DEF LoginInv
<1>8. CallActive /\ task.step = "answered" /\ Current(ctl, task) /\ UNCHANGED <<prov, told>>
  BY DEF Continue
<1>9. CASE ReadAccount /\ wire.kinds[tr.next] = "check"
  BY <1>1, <1>2, <1>8, <1>9 DEF ReadAccount
<1>10. CASE ReadModels /\ wire.kinds[tr.next] = "models"
  BY <1>3, <1>8, <1>10 DEF ReadModels
<1>11. CASE StartLogin /\ wire.kinds[tr.next] = "login"
  <2>1. UNCHANGED <<tr, wire>>
    BY <1>11 DEF StartLogin
  <2>2. CASE task.login \in ctl.early
    BY <1>4, <1>8, <1>11, <2>1, <2>2 DEF StartLogin, Invalidate
  <2>3. CASE task.login \notin ctl.early
    BY <1>5, <1>8, <1>11, <2>1, <2>3 DEF StartLogin
  <2>. QED  BY <2>2, <2>3
<1>12. CASE CancelLogin
  BY <1>6, <1>8, <1>12 DEF CancelLogin
<1>13. CASE Logout /\ wire.kinds[tr.next] = "logout"
  BY <1>7, <1>8, <1>13 DEF Logout
<1>14. wire.kinds[tr.next] \in Kinds \cup {"models"}
  <2>1. tr.next > 0 /\ tr.next \in Nat /\ Len(wire.kinds) = tr.next
    <3>1. task.kind # "none"
      BY <1>t, <1>8 DEF CallActive, Operations, Kinds
    <3>. QED  BY <1>8, <1>n, <3>1 DEF AccountTypeOK, Numbers
  <2>2. wire.kinds \in Seq(Kinds \cup {"models"})
    BY <1>t DEF Wires
  <2>. QED  BY <2>1, <2>2
<1>. QED  BY <1>9, <1>10, <1>11, <1>12, <1>13, <1>14 DEF Continue, Kinds

LEMMA FailTransportKeeps ==
  ASSUME AccountTypeOK, LoginInv, FailTransport
  PROVE  LoginInv'
<1>t. /\ ctl \in Controllers /\ tr \in Transports /\ wire \in Wires /\ prov \in Providers /\ told \in Tolds
      /\ task # NoTask => task \in Operations
  BY DEF AccountTypeOK
<1>n. Numbers
  BY NumbersTyped
<1>d. IdsInv /\ OnceInv /\ LateInv
  BY DEF LoginInv
<1>c. CallInv
  BY DEF LoginInv
<1>r. OrderInv
  BY DEF LoginInv
<1>s. LostInv
  BY DEF LoginInv
<1>e. EarlyInv
  BY DEF LoginInv
<1>v. CurrentInv
  BY DEF LoginInv
<1>1. ASSUME CallActive,
             task.step \in {"queued", "answered"} \/ tr.pending = 0 \/ task.step = "waiting",
             task' = NoTask,
             ctl' = ctl \/ ctl' = [ctl EXCEPT !.pending = NoLogin],
             UNCHANGED <<tr, wire, prov, told>>
     PROVE  LoginInv'
  <2>h. CallActive /\ (task.step \in {"queued", "answered"} \/ tr.pending = 0 \/ task.step = "waiting")
    BY <1>1
  <2>g. task' = NoTask /\ tr' = tr /\ wire' = wire /\ prov' = prov /\ told' = told
    BY <1>1
  <2>g1. /\ ctl'.gen = ctl.gen /\ ctl'.pending \in {ctl.pending, NoLogin} /\ ctl'.state = ctl.state
         /\ ctl'.basis = ctl.basis /\ ctl'.dispatch = ctl.dispatch /\ ctl'.unresolved = ctl.unresolved
         /\ ctl'.early = ctl.early /\ ctl'.closing = ctl.closing /\ ctl'.close = ctl.close
    BY <1>t, <1>1 DEF Controllers
  <2>p. tr.pending = 0
    BY <2>h, <1>c DEF CallInv
  <2>1. CallInv'
    BY <1>c, <1>n, <2>h, <2>g, <2>g1, <2>p DEF CallInv, CallActive, Numbers
  <2>2. IdsInv' /\ OnceInv' /\ LateInv'
    BY <1>d, <1>n, SameWire, <2>h, <2>g, <2>g1, <2>p DEF IdsInv, Listening, Expected
  <2>3. OrderInv'
    BY <1>r, SameOrder, <2>h, <2>g, <2>g1, <2>p
  <2>4. LostInv'
    BY <1>s, <2>h, <2>g, <2>g1, <2>p DEF LostInv, CallActive, Current, NoLogin
  <2>5. EarlyInv'
    BY <1>e, <1>s, <1>v, <1>c, <1>n, <2>h, <2>g, <2>g1, <2>p DEF EarlyInv, LostInv, CallActive, Current, NoLogin, Numbers, IdsInv, CallInv
  <2>6. CurrentInv'
    BY <1>v, <1>s, <1>n, <2>h, <2>g, <2>g1, <2>p DEF CurrentInv, LostInv, CallActive, Current, Numbers
  <2>. QED  BY <2>1, <2>2, <2>3, <2>4, <2>5, <2>6 DEF LoginInv
<1>2. ASSUME CallActive,
             task.step \in {"queued", "answered"} \/ tr.pending = 0 \/ task.step = "waiting",
             task' = [task EXCEPT !.settled = TRUE],
             ctl' = ctl \/ ctl' = [ctl EXCEPT !.pending = NoLogin],
             UNCHANGED <<tr, wire, prov, told>>
     PROVE  LoginInv'
  <2>h. CallActive /\ (task.step \in {"queued", "answered"} \/ tr.pending = 0 \/ task.step = "waiting")
    BY <1>2
  <2>k. task \in Operations /\ task # NoTask
    BY <1>t, <2>h DEF CallActive
  <2>g. tr' = tr /\ wire' = wire /\ prov' = prov /\ told' = told
    BY <1>2
  <2>g1. /\ task'.kind = task.kind /\ task'.gen = task.gen /\ task'.step = task.step /\ task'.aborted = task.aborted
         /\ task'.returned = task.returned /\ task'.settled = TRUE /\ task'.dispatched = task.dispatched
         /\ task'.login = task.login /\ task'.signed = task.signed /\ task'.ver = task.ver
    BY <1>t, <1>2, <2>k DEF Operations
  <2>g2. /\ ctl'.gen = ctl.gen /\ ctl'.pending \in {ctl.pending, NoLogin} /\ ctl'.state = ctl.state
         /\ ctl'.basis = ctl.basis /\ ctl'.dispatch = ctl.dispatch /\ ctl'.unresolved = ctl.unresolved
         /\ ctl'.early = ctl.early /\ ctl'.closing = ctl.closing /\ ctl'.close = ctl.close
    BY <1>t, <1>2 DEF Controllers
  <2>j. task' # NoTask
    BY <2>k, <2>g1 DEF Operations, Kinds, NoTask
  <2>p. tr.pending = 0
    BY <2>h, <1>c DEF CallInv
  <2>1. CallInv'
    BY <1>c, <1>n, <2>h, <2>g, <2>g1, <2>g2, <2>j, <2>p DEF CallInv, CallActive, Numbers
  <2>2. IdsInv' /\ OnceInv' /\ LateInv'
    BY <1>d, <1>n, SameWire, <2>h, <2>g, <2>g1, <2>g2, <2>j, <2>p DEF IdsInv, Listening, Expected
  <2>3. OrderInv'
    BY <1>r, SameOrder, <2>h, <2>g, <2>g1, <2>g2, <2>j, <2>p
  <2>4. LostInv'
    BY <1>s, <2>h, <2>g, <2>g1, <2>g2, <2>j, <2>p DEF LostInv, CallActive, Current, NoLogin
  <2>5. EarlyInv'
    BY <1>e, <1>s, <1>v, <1>c, <1>n, <2>h, <2>g, <2>g1, <2>g2, <2>j, <2>p DEF EarlyInv, LostInv, CallActive, Current, NoLogin, Numbers, IdsInv, CallInv
  <2>6. CurrentInv'
    BY <1>v, <1>s, <1>n, <2>h, <2>g, <2>g1, <2>g2, <2>j, <2>p DEF CurrentInv, LostInv, CallActive, Current, Numbers
  <2>. QED  BY <2>1, <2>2, <2>3, <2>4, <2>5, <2>6 DEF LoginInv
<1>. QED
  BY <1>1, <1>2 DEF FailTransport

LEMMA AnswerCallerKeeps ==
  ASSUME AccountTypeOK, LoginInv, AnswerCaller
  PROVE  LoginInv'
<1>t. /\ ctl \in Controllers /\ tr \in Transports /\ wire \in Wires /\ prov \in Providers /\ told \in Tolds
      /\ task # NoTask => task \in Operations
  BY DEF AccountTypeOK
<1>n. Numbers
  BY NumbersTyped
<1>d. IdsInv /\ OnceInv /\ LateInv
  BY DEF LoginInv
<1>c. CallInv
  BY DEF LoginInv
<1>r. OrderInv
  BY DEF LoginInv
<1>s. LostInv
  BY DEF LoginInv
<1>e. EarlyInv
  BY DEF LoginInv
<1>v. CurrentInv
  BY DEF LoginInv
<1>1. ASSUME task # NoTask,
             ~task.returned,
             task.settled,
             task' = NoTask,
             ctl' = LoginReturned(LoginFailed(RunFailed(ctl, task), task), task),
             told' = IF task.dispatched /\ ~task.completed THEN [told EXCEPT !.lost = TRUE, !.at = tr.next] ELSE told,
             UNCHANGED <<tr, wire, prov>>
     PROVE  LoginInv'
  <2>h. task # NoTask /\ ~task.returned /\ task.settled
    BY <1>1
  <2>g. task' = NoTask /\ tr' = tr /\ wire' = wire /\ prov' = prov
    BY <1>1
  <2>g1. /\ ctl'.closing = ctl.closing /\ ctl'.close = ctl.close /\ ctl'.basis = ctl.basis
         /\ (task.dispatched \/ (ctl'.dispatch = ctl.dispatch /\ ctl'.early = ctl.early))
         /\ (task.dispatched /\ ~task.completed) /\ ~ctl.closing => ctl'.gen = ctl.gen + 1 /\ ctl'.pending = NoLogin /\ ctl'.state = "recovery-required" /\ ctl'.unresolved
         /\ (~((task.dispatched /\ ~task.completed) /\ ~ctl.closing) => ctl'.gen = ctl.gen /\ ctl'.pending = ctl.pending /\ ctl'.unresolved = ctl.unresolved)
         /\ (~((task.dispatched /\ ~task.completed) /\ ~ctl.closing) => ctl'.state = ctl.state \/ (ctl'.state = "unavailable" /\ ~ctl.closing /\ ctl.state # "recovery-required"))
    BY <1>t, <1>1, ReturnFields
  <2>g2. /\ told'.ver = told.ver /\ told'.done = told.done /\ told'.full = told.full
         /\ (task.dispatched /\ ~task.completed) => told'.lost /\ told'.at = tr.next
         /\ (~(task.dispatched /\ ~task.completed) => told'.lost = told.lost /\ told'.at = told.at)
    BY <1>t, <1>1 DEF Tolds
  <2>1. CallInv'
    BY <1>c, <1>n, <2>h, <2>g, <2>g1, <2>g2 DEF CallInv, CallActive, Numbers
  <2>2. IdsInv' /\ OnceInv' /\ LateInv'
    BY <1>d, <1>n, SameWire, <2>h, <2>g, <2>g1, <2>g2 DEF IdsInv, Listening, Expected
  <2>3. OrderInv'
    BY <1>r, SameOrder, <2>h, <2>g, <2>g1, <2>g2
  <2>4. LostInv'
    BY <1>s, <2>h, <2>g, <2>g1, <2>g2 DEF LostInv, CallActive, Current, NoLogin
  <2>5. EarlyInv'
    BY <1>e, <1>s, <1>v, <1>c, <1>n, <2>h, <2>g, <2>g1, <2>g2 DEF EarlyInv, LostInv, CallActive, Current, NoLogin, Numbers, IdsInv, CallInv
  <2>6. CurrentInv'
    BY <1>v, <1>s, <1>n, <2>h, <2>g, <2>g1, <2>g2 DEF CurrentInv, LostInv, CallActive, Current, Numbers
  <2>. QED  BY <2>1, <2>2, <2>3, <2>4, <2>5, <2>6 DEF LoginInv
<1>2. ASSUME task # NoTask,
             ~task.returned,
             ~task.settled,
             task.aborted,
             task' = [task EXCEPT !.returned = TRUE],
             ctl' = LoginReturned(LoginFailed(RunFailed(ctl, task), task), task),
             told' = IF task.dispatched /\ ~task.completed THEN [told EXCEPT !.lost = TRUE, !.at = tr.next] ELSE told,
             UNCHANGED <<tr, wire, prov>>
     PROVE  LoginInv'
  <2>h. task # NoTask /\ ~task.returned /\ ~task.settled /\ task.aborted
    BY <1>2
  <2>k. task \in Operations /\ task # NoTask
    BY <1>t, <2>h DEF CallActive
  <2>g. tr' = tr /\ wire' = wire /\ prov' = prov
    BY <1>2
  <2>g1. /\ task'.kind = task.kind /\ task'.gen = task.gen /\ task'.step = task.step /\ task'.aborted = task.aborted
         /\ task'.returned = TRUE /\ task'.settled = task.settled /\ task'.dispatched = task.dispatched
         /\ task'.login = task.login /\ task'.signed = task.signed /\ task'.ver = task.ver
    BY <1>t, <1>2, <2>k DEF Operations
  <2>g2. /\ ctl'.closing = ctl.closing /\ ctl'.close = ctl.close /\ ctl'.basis = ctl.basis
         /\ (task.dispatched \/ (ctl'.dispatch = ctl.dispatch /\ ctl'.early = ctl.early))
         /\ (task.dispatched /\ ~task.completed) /\ ~ctl.closing => ctl'.gen = ctl.gen + 1 /\ ctl'.pending = NoLogin /\ ctl'.state = "recovery-required" /\ ctl'.unresolved
         /\ (~((task.dispatched /\ ~task.completed) /\ ~ctl.closing) => ctl'.gen = ctl.gen /\ ctl'.pending = ctl.pending /\ ctl'.unresolved = ctl.unresolved)
         /\ (~((task.dispatched /\ ~task.completed) /\ ~ctl.closing) => ctl'.state = ctl.state \/ (ctl'.state = "unavailable" /\ ~ctl.closing /\ ctl.state # "recovery-required"))
    BY <1>t, <1>2, ReturnFields
  <2>g3. /\ told'.ver = told.ver /\ told'.done = told.done /\ told'.full = told.full
         /\ (task.dispatched /\ ~task.completed) => told'.lost /\ told'.at = tr.next
         /\ (~(task.dispatched /\ ~task.completed) => told'.lost = told.lost /\ told'.at = told.at)
    BY <1>t, <1>2 DEF Tolds
  <2>j. task' # NoTask
    BY <2>k, <2>g1 DEF Operations, Kinds, NoTask
  <2>1. CallInv'
    BY <1>c, <1>n, <2>h, <2>g, <2>g1, <2>g2, <2>g3, <2>j DEF CallInv, CallActive, Numbers
  <2>2. IdsInv' /\ OnceInv' /\ LateInv'
    BY <1>d, <1>n, SameWire, <2>h, <2>g, <2>g1, <2>g2, <2>g3, <2>j DEF IdsInv, Listening, Expected
  <2>3. OrderInv'
    BY <1>r, SameOrder, <2>h, <2>g, <2>g1, <2>g2, <2>g3, <2>j
  <2>4. LostInv'
    BY <1>s, <2>h, <2>g, <2>g1, <2>g2, <2>g3, <2>j DEF LostInv, CallActive, Current, NoLogin
  <2>5. EarlyInv'
    <3>1. task'.aborted /\ task'.returned /\ told'.done = told.done /\ told'.full = told.full
          /\ (ctl'.pending = ctl.pending \/ ctl'.pending = NoLogin)
      BY <2>h, <2>g, <2>g1, <2>g2, <2>g3, <2>j
    <3>2. CallActive /\ task.step # "queued" => (task.dispatched <=> task.kind = "login")
      BY <1>e DEF EarlyInv
    <3>3. /\ task.kind = "login" => ctl.pending = NoLogin
          /\ ~told.full /\ ctl.pending # NoLogin => ctl.pending \notin told.done
      BY <2>h, <1>e DEF EarlyInv
    <3>4. CallActive /\ task'.step = task.step /\ task'.dispatched = task.dispatched /\ task'.kind = task.kind
      BY <2>h, <2>h, <2>g, <2>g1, <2>g2, <2>g3, <2>j DEF CallActive
    <3>. QED  BY <3>1, <3>2, <3>3, <3>4 DEF EarlyInv, Current
  <2>6. CurrentInv'
    <3>1. task'.aborted /\ task'.gen = task.gen /\ (ctl'.gen = ctl.gen \/ ctl'.gen = ctl.gen + 1) /\ ctl'.basis = ctl.basis
          /\ (ctl'.state = "signed-in" => ctl.state = "signed-in") /\ told'.ver = told.ver
      BY <2>h, <2>g, <2>g1, <2>g2, <2>g3, <2>j
    <3>2. task.gen <= ctl.gen
      BY <2>h, <1>v DEF CurrentInv, CallActive
    <3>3. task'.gen <= ctl'.gen
      <4>1. task.gen \in Nat /\ ctl.gen \in Nat
        BY <1>n, <2>h DEF Numbers
      <4>. QED  BY <3>1, <3>2, <4>1
    <3>. QED  BY <1>v, <3>1, <3>3 DEF CurrentInv, Current
  <2>. QED  BY <2>1, <2>2, <2>3, <2>4, <2>5, <2>6 DEF LoginInv
<1>. QED
  BY <1>1, <1>2 DEF AnswerCaller

LEMMA TimeOutKeeps ==
  ASSUME AccountTypeOK, LoginInv, TimeOut
  PROVE  LoginInv'
<1>t. /\ ctl \in Controllers /\ tr \in Transports /\ wire \in Wires /\ prov \in Providers /\ told \in Tolds
      /\ task # NoTask => task \in Operations
  BY DEF AccountTypeOK
<1>n. Numbers
  BY NumbersTyped
<1>d. IdsInv /\ OnceInv /\ LateInv
  BY DEF LoginInv
<1>c. CallInv
  BY DEF LoginInv
<1>r. OrderInv
  BY DEF LoginInv
<1>s. LostInv
  BY DEF LoginInv
<1>e. EarlyInv
  BY DEF LoginInv
<1>v. CurrentInv
  BY DEF LoginInv
<1>1. ASSUME CallActive,
             tr' = Retired(tr),
             UNCHANGED <<ctl, task, wire, prov, told>>
     PROVE  LoginInv'
  <2>h. CallActive
    BY <1>1
  <2>g. ctl' = ctl /\ task' = task /\ wire' = wire /\ prov' = prov /\ told' = told
    BY <1>1
  <2>g1. /\ tr'.next = tr.next /\ tr'.pending = 0 /\ tr'.failed = tr.failed /\ tr'.closing = tr.closing
         /\ (tr'.retired = IF tr.pending = 0 THEN tr.retired ELSE tr.retired \cup {tr.pending})
    BY <1>1, RetiredFields
  <2>w. tr'.retired \subseteq 1..tr.next /\ Expected \subseteq Expected'
    <3>1. tr.pending # 0 => tr.pending \in 1..tr.next
      BY <1>c, <1>n DEF CallInv, Numbers
    <3>2. tr.retired \subseteq 1..tr.next
      BY <1>d DEF IdsInv
    <3>. QED  BY <3>1, <3>2, <2>g, <2>g1 DEF Expected
  <2>1. CallInv'
    BY <1>c, <1>s, <1>e, <1>v, <2>h, <2>g, <2>g1, <2>w, SameControl DEF LostInv
  <2>2. IdsInv' /\ OnceInv' /\ LateInv'
    BY <1>d, <2>h, <2>g, <2>g1, <2>w, SameWire DEF IdsInv, Listening
  <2>3. OrderInv'
    BY <1>r, SameOrder, <2>h, <2>g, <2>g1, <2>w
  <2>4. LostInv'
    BY <1>c, <1>s, <1>e, <1>v, <2>h, <2>g, <2>g1, <2>w, SameControl DEF LostInv
  <2>5. EarlyInv'
    BY <1>c, <1>s, <1>e, <1>v, <2>h, <2>g, <2>g1, <2>w, SameControl DEF LostInv
  <2>6. CurrentInv'
    BY <1>c, <1>s, <1>e, <1>v, <2>h, <2>g, <2>g1, <2>w, SameControl DEF LostInv
  <2>. QED  BY <2>1, <2>2, <2>3, <2>4, <2>5, <2>6 DEF LoginInv
<1>2. ASSUME CallActive,
             ~task.aborted,
             tr' = Retired(tr),
             task' = Aborted(task),
             UNCHANGED <<ctl, wire, prov, told>>
     PROVE  LoginInv'
  <2>h. CallActive /\ ~task.aborted
    BY <1>2
  <2>g. ctl' = ctl /\ wire' = wire /\ prov' = prov /\ told' = told
    BY <1>2
  <2>g1. /\ tr'.next = tr.next /\ tr'.pending = 0 /\ tr'.failed = tr.failed /\ tr'.closing = tr.closing
         /\ (tr'.retired = IF tr.pending = 0 THEN tr.retired ELSE tr.retired \cup {tr.pending})
    BY <1>2, RetiredFields
  <2>g2. /\ (task' = NoTask <=> task = NoTask) /\ (CallActive' <=> CallActive) /\ (CallActive => task'.aborted)
         /\ (task # NoTask => task'.kind = task.kind /\ task'.gen = task.gen /\ task'.step = task.step /\ task'.returned = task.returned /\ task'.settled = task.settled /\ task'.dispatched = task.dispatched /\ task'.login = task.login /\ task'.signed = task.signed /\ task'.ver = task.ver /\ (task.aborted => task'.aborted))
    BY <1>2, AbortedFields
  <2>w. tr'.retired \subseteq 1..tr.next /\ Expected \subseteq Expected'
    <3>1. tr.pending # 0 => tr.pending \in 1..tr.next
      BY <1>c, <1>n DEF CallInv, Numbers
    <3>2. tr.retired \subseteq 1..tr.next
      BY <1>d DEF IdsInv
    <3>. QED  BY <3>1, <3>2, <2>g, <2>g1, <2>g2 DEF Expected
  <2>1. CallInv'
    BY <1>c, <1>n, <2>h, <2>g, <2>g1, <2>g2, <2>w DEF CallInv, CallActive, Numbers
  <2>2. IdsInv' /\ OnceInv' /\ LateInv'
    BY <1>d, <2>h, <2>g, <2>g1, <2>g2, <2>w, SameWire DEF IdsInv, Listening
  <2>3. OrderInv'
    BY <1>r, SameOrder, <2>h, <2>g, <2>g1, <2>g2, <2>w
  <2>4. LostInv'
    BY <1>s, <2>h, <2>g, <2>g1, <2>g2, <2>w DEF LostInv, CallActive, Current, NoLogin
  <2>5. EarlyInv'
    BY <1>e, <1>s, <1>v, <1>c, <1>n, <2>h, <2>g, <2>g1, <2>g2, <2>w DEF EarlyInv, LostInv, CallActive, Current, NoLogin, Numbers, IdsInv, CallInv
  <2>6. CurrentInv'
    BY <1>v, <1>s, <1>n, <2>h, <2>g, <2>g1, <2>g2, <2>w DEF CurrentInv, LostInv, CallActive, Current, Numbers
  <2>. QED  BY <2>1, <2>2, <2>3, <2>4, <2>5, <2>6 DEF LoginInv
<1>. QED
  BY <1>1, <1>2 DEF TimeOut

LEMMA InitializeKeeps ==
  ASSUME AccountTypeOK, LoginInv, Initialize
  PROVE  LoginInv'
<1>t. /\ ctl \in Controllers /\ tr \in Transports /\ wire \in Wires /\ prov \in Providers /\ told \in Tolds
      /\ task # NoTask => task \in Operations
  BY DEF AccountTypeOK
<1>n. Numbers
  BY NumbersTyped
<1>d. IdsInv /\ OnceInv /\ LateInv
  BY DEF LoginInv
<1>c. CallInv
  BY DEF LoginInv
<1>r. OrderInv
  BY DEF LoginInv
<1>s. LostInv
  BY DEF LoginInv
<1>e. EarlyInv
  BY DEF LoginInv
<1>v. CurrentInv
  BY DEF LoginInv
<1>1. ASSUME tr' = [tr EXCEPT !.ready = TRUE],
             UNCHANGED <<ctl, task, wire, prov, told>>
     PROVE  LoginInv'
  <2>g. ctl' = ctl /\ task' = task /\ wire' = wire /\ prov' = prov /\ told' = told
    BY <1>1
  <2>g1. /\ tr'.failed = tr.failed /\ tr'.closing = tr.closing /\ tr'.next = tr.next /\ tr'.pending = tr.pending
         /\ tr'.retired = tr.retired
    BY <1>t, <1>1 DEF Transports
  <2>1. CallInv'
    BY <1>c, <1>s, <1>e, <1>v, <2>g, <2>g1, SameControl DEF LostInv
  <2>2. IdsInv' /\ OnceInv' /\ LateInv'
    BY <1>d, <1>n, SameWire, <2>g, <2>g1 DEF IdsInv, Listening, Expected
  <2>3. OrderInv'
    BY <1>r, SameOrder, <2>g, <2>g1
  <2>4. LostInv'
    BY <1>c, <1>s, <1>e, <1>v, <2>g, <2>g1, SameControl DEF LostInv
  <2>5. EarlyInv'
    BY <1>c, <1>s, <1>e, <1>v, <2>g, <2>g1, SameControl DEF LostInv
  <2>6. CurrentInv'
    BY <1>c, <1>s, <1>e, <1>v, <2>g, <2>g1, SameControl DEF LostInv
  <2>. QED  BY <2>1, <2>2, <2>3, <2>4, <2>5, <2>6 DEF LoginInv
<1>. QED
  BY <1>1 DEF Initialize

LEMMA StopSettlesKeeps ==
  ASSUME AccountTypeOK, LoginInv, StopSettles
  PROVE  LoginInv'
<1>t. /\ ctl \in Controllers /\ tr \in Transports /\ wire \in Wires /\ prov \in Providers /\ told \in Tolds
      /\ task # NoTask => task \in Operations
  BY DEF AccountTypeOK
<1>n. Numbers
  BY NumbersTyped
<1>d. IdsInv /\ OnceInv /\ LateInv
  BY DEF LoginInv
<1>c. CallInv
  BY DEF LoginInv
<1>r. OrderInv
  BY DEF LoginInv
<1>s. LostInv
  BY DEF LoginInv
<1>e. EarlyInv
  BY DEF LoginInv
<1>v. CurrentInv
  BY DEF LoginInv
<1>1. ASSUME tr' = [tr EXCEPT !.stop = "proven"],
             UNCHANGED <<ctl, task, wire, prov, told>>
     PROVE  LoginInv'
  <2>g. ctl' = ctl /\ task' = task /\ wire' = wire /\ prov' = prov /\ told' = told
    BY <1>1
  <2>g1. /\ tr'.failed = tr.failed /\ tr'.closing = tr.closing /\ tr'.next = tr.next /\ tr'.pending = tr.pending
         /\ tr'.retired = tr.retired
    BY <1>t, <1>1 DEF Transports
  <2>1. CallInv'
    BY <1>c, <1>s, <1>e, <1>v, <2>g, <2>g1, SameControl DEF LostInv
  <2>2. IdsInv' /\ OnceInv' /\ LateInv'
    BY <1>d, <1>n, SameWire, <2>g, <2>g1 DEF IdsInv, Listening, Expected
  <2>3. OrderInv'
    BY <1>r, SameOrder, <2>g, <2>g1
  <2>4. LostInv'
    BY <1>c, <1>s, <1>e, <1>v, <2>g, <2>g1, SameControl DEF LostInv
  <2>5. EarlyInv'
    BY <1>c, <1>s, <1>e, <1>v, <2>g, <2>g1, SameControl DEF LostInv
  <2>6. CurrentInv'
    BY <1>c, <1>s, <1>e, <1>v, <2>g, <2>g1, SameControl DEF LostInv
  <2>. QED  BY <2>1, <2>2, <2>3, <2>4, <2>5, <2>6 DEF LoginInv
<1>2. ASSUME tr' = [tr EXCEPT !.stop = "none"],
             UNCHANGED <<ctl, task, wire, prov, told>>
     PROVE  LoginInv'
  <2>g. ctl' = ctl /\ task' = task /\ wire' = wire /\ prov' = prov /\ told' = told
    BY <1>2
  <2>g1. /\ tr'.failed = tr.failed /\ tr'.closing = tr.closing /\ tr'.next = tr.next /\ tr'.pending = tr.pending
         /\ tr'.retired = tr.retired
    BY <1>t, <1>2 DEF Transports
  <2>1. CallInv'
    BY <1>c, <1>s, <1>e, <1>v, <2>g, <2>g1, SameControl DEF LostInv
  <2>2. IdsInv' /\ OnceInv' /\ LateInv'
    BY <1>d, <1>n, SameWire, <2>g, <2>g1 DEF IdsInv, Listening, Expected
  <2>3. OrderInv'
    BY <1>r, SameOrder, <2>g, <2>g1
  <2>4. LostInv'
    BY <1>c, <1>s, <1>e, <1>v, <2>g, <2>g1, SameControl DEF LostInv
  <2>5. EarlyInv'
    BY <1>c, <1>s, <1>e, <1>v, <2>g, <2>g1, SameControl DEF LostInv
  <2>6. CurrentInv'
    BY <1>c, <1>s, <1>e, <1>v, <2>g, <2>g1, SameControl DEF LostInv
  <2>. QED  BY <2>1, <2>2, <2>3, <2>4, <2>5, <2>6 DEF LoginInv
<1>. QED
  BY <1>1, <1>2 DEF StopSettles

LEMMA AccountWriteKeeps ==
  ASSUME AccountTypeOK, LoginInv, AccountWrite
  PROVE  LoginInv'
<1>t. /\ ctl \in Controllers /\ tr \in Transports /\ wire \in Wires /\ prov \in Providers /\ told \in Tolds
      /\ task # NoTask => task \in Operations
  BY DEF AccountTypeOK
<1>n. Numbers
  BY NumbersTyped
<1>d. IdsInv /\ OnceInv /\ LateInv
  BY DEF LoginInv
<1>c. CallInv
  BY DEF LoginInv
<1>r. OrderInv
  BY DEF LoginInv
<1>s. LostInv
  BY DEF LoginInv
<1>e. EarlyInv
  BY DEF LoginInv
<1>v. CurrentInv
  BY DEF LoginInv
<1>1. ASSUME wire.writing = 0,
             wire.queue # <<>>,
             wire' = [wire EXCEPT !.queue = Tail(wire.queue), !.writing = IF Listening /\ tr.pending = Head(wire.queue) THEN Head(wire.queue) ELSE 0],
             UNCHANGED <<ctl, task, tr, prov, told>>
     PROVE  LoginInv'
  <2>h. wire.writing = 0 /\ wire.queue # <<>>
    BY <1>1
  <2>g. ctl' = ctl /\ task' = task /\ tr' = tr /\ prov' = prov /\ told' = told
    BY <1>1
  <2>g1. /\ wire'.queue = Tail(wire.queue)
         /\ (wire'.writing = IF Listening /\ tr.pending = Head(wire.queue) THEN Head(wire.queue) ELSE 0)
         /\ wire'.kinds = wire.kinds /\ wire'.pipe = wire.pipe
    BY <1>t, <1>1 DEF Wires
  <2>p. Popped(wire.queue, wire'.queue) /\ Head(wire.queue) = wire.queue[1]
    <3>1. wire.queue \in Seq(Nat) /\ wire.queue # <<>>
      BY <1>t, <2>h DEF Wires
    <3>2. Popped(wire.queue, Tail(wire.queue))
      BY <3>1, PoppedSeq
    <3>. QED  BY <3>2, <2>g, <2>g1 DEF Popped
  <2>1. CallInv'
    BY <1>c, <1>s, <1>e, <1>v, <2>h, <2>g, <2>g1, <2>p, SameControl DEF LostInv
  <2>2. IdsInv' /\ OnceInv' /\ LateInv'
    <3>p. /\ \A i \in 1..Len(wire'.queue) : i + 1 \in 1..Len(wire.queue) /\ wire'.queue[i] = wire.queue[i + 1] /\ i + 1 # 1
          /\ 1 \in 1..Len(wire.queue)
      BY <2>p DEF Popped
    <3>q. \A m : Waits(wire.queue, m) <=> Waits(wire'.queue, m) \/ wire.queue[1] = m
      BY <2>p, WaitPopped
    <3>h. wire.queue[1] \in 1..tr.next /\ Waits(wire.queue, wire.queue[1])
      BY <1>d, <3>p, <3>q DEF IdsInv
    <3>u. ~Waits(wire'.queue, wire.queue[1])
      <4> SUFFICES ASSUME NEW i \in 1..Len(wire'.queue), wire'.queue[i] = wire.queue[1] PROVE FALSE
        BY DEF Waits
      <4>1. i + 1 \in 1..Len(wire.queue) /\ wire.queue[i + 1] = wire.queue[1] /\ i + 1 # 1
        BY <3>p
      <4>. QED  BY <4>1, <3>p, <1>d DEF OnceInv
    <3>1. IdsInv'
      <4>1. \A i \in 1..Len(wire'.queue) : wire'.queue[i] \in 1..tr.next
        BY <3>p, <1>d DEF IdsInv
      <4>2. wire'.writing \in 0..tr.next
        BY <2>h, <2>g, <2>g1, <2>p, <3>h, <1>n DEF Numbers
      <4>. QED  BY <4>1, <4>2, <1>d, <2>g, <2>g1 DEF IdsInv, FrameKnown
    <3>2. OnceInv'
      <4>1. ASSUME NEW i \in 1..Len(wire'.queue), NEW j \in 1..Len(wire'.queue), wire'.queue[i] = wire'.queue[j] PROVE i = j
        <5>1. i + 1 \in 1..Len(wire.queue) /\ j + 1 \in 1..Len(wire.queue) /\ wire.queue[i + 1] = wire.queue[j + 1]
          BY <3>p, <4>1
        <5>2. i + 1 = j + 1
          BY <5>1, <1>d DEF OnceInv
        <5>. QED  BY <5>2
      <4>2. ASSUME NEW m \in 1..tr.next, Waits(wire'.queue, m)
            PROVE  m # wire'.writing /\ m \notin prov.asked /\ ~AnswerIn(wire.pipe, m)
        <5>1. m # wire.queue[1] /\ Waits(wire.queue, m) /\ m # 0
          BY <4>2, <3>q, <3>u
        <5>. QED  BY <4>2, <5>1, <1>d, <2>h, <2>g, <2>g1, <2>p DEF OnceInv
      <4>3. ASSUME NEW m \in 1..tr.next, m = wire'.writing PROVE m \notin prov.asked /\ ~AnswerIn(wire.pipe, m)
        <5>1. m = wire.queue[1]
          BY <4>3, <2>h, <2>g, <2>g1, <2>p
        <5>. QED  BY <5>1, <3>h, <1>d DEF OnceInv
      <4>. QED  BY <4>1, <4>2, <4>3, <1>d, <2>g, <2>g1 DEF OnceInv
    <3>3. LateInv'
      <4>1. ASSUME Listening, NEW m \in 1..tr.next, m = wire'.writing PROVE m \in Expected
        BY <4>1, <2>h, <2>g, <2>g1, <2>p DEF Expected
      <4>. QED  BY <4>1, <1>d, <2>g, <2>g1 DEF LateInv, Listening, Expected
    <3>. QED  BY <3>1, <3>2, <3>3
  <2>3. OrderInv'
    BY <1>r, SameOrder, <2>h, <2>g, <2>g1, <2>p
  <2>4. LostInv'
    BY <1>c, <1>s, <1>e, <1>v, <2>h, <2>g, <2>g1, <2>p, SameControl DEF LostInv
  <2>5. EarlyInv'
    BY <1>c, <1>s, <1>e, <1>v, <2>h, <2>g, <2>g1, <2>p, SameControl DEF LostInv
  <2>6. CurrentInv'
    BY <1>c, <1>s, <1>e, <1>v, <2>h, <2>g, <2>g1, <2>p, SameControl DEF LostInv
  <2>. QED  BY <2>1, <2>2, <2>3, <2>4, <2>5, <2>6 DEF LoginInv
<1>. QED
  BY <1>1 DEF AccountWrite

LEMMA FinishWriteKeeps ==
  ASSUME AccountTypeOK, LoginInv, FinishWrite
  PROVE  LoginInv'
<1>t. /\ ctl \in Controllers /\ tr \in Transports /\ wire \in Wires /\ prov \in Providers /\ told \in Tolds
      /\ task # NoTask => task \in Operations
  BY DEF AccountTypeOK
<1>n. Numbers
  BY NumbersTyped
<1>d. IdsInv /\ OnceInv /\ LateInv
  BY DEF LoginInv
<1>c. CallInv
  BY DEF LoginInv
<1>r. OrderInv
  BY DEF LoginInv
<1>s. LostInv
  BY DEF LoginInv
<1>e. EarlyInv
  BY DEF LoginInv
<1>v. CurrentInv
  BY DEF LoginInv
<1>1. ASSUME wire.writing # 0,
             wire' = [wire EXCEPT !.writing = 0],
             prov' = [prov EXCEPT !.asked = prov.asked \cup {wire.writing},
                  !.logins = IF wire.kinds[wire.writing] = "login" THEN prov.logins \cup {wire.writing} ELSE prov.logins],
             UNCHANGED <<ctl, task, tr, told>>
     PROVE  LoginInv'
  <2>h. wire.writing # 0
    BY <1>1
  <2>g. ctl' = ctl /\ task' = task /\ tr' = tr /\ told' = told
    BY <1>1
  <2>g1. wire'.queue = wire.queue /\ wire'.writing = 0 /\ wire'.kinds = wire.kinds /\ wire'.pipe = wire.pipe
    BY <1>t, <1>1 DEF Wires
  <2>g2. /\ prov'.ver = prov.ver /\ prov'.asked = prov.asked \cup {wire.writing}
         /\ prov'.logins \subseteq prov.logins \cup {wire.writing}
    BY <1>t, <1>1 DEF Providers
  <2>1. CallInv'
    BY <1>c, <1>s, <1>e, <1>v, <2>h, <2>g, <2>g1, <2>g2, SameControl DEF LostInv
  <2>2. IdsInv' /\ OnceInv' /\ LateInv'
    <3>0. wire.writing \in 1..tr.next /\ \A m \in 1..tr.next : m # 0
      BY <1>d, <1>n, <2>h DEF IdsInv, Numbers
    <3>1. IdsInv'
      <4>1. prov'.asked \subseteq 1..tr.next /\ prov'.logins \subseteq 1..tr.next /\ 0 \in 0..tr.next
        BY <1>d, <1>n, <3>0, <2>g2 DEF IdsInv, Numbers
      <4>2. \A i \in 1..Len(wire.pipe) : FrameKnown(i)'
        BY <1>d, <2>g, <2>g1 DEF IdsInv, FrameKnown
      <4>. QED  BY <1>d, <4>1, <4>2, <2>g, <2>g1 DEF IdsInv
    <3>2. OnceInv'
      BY <1>d, <3>0, <2>g, <2>g1, <2>g2 DEF OnceInv
    <3>3. LateInv'
      BY <1>d, <3>0, <2>g, <2>g1, <2>g2 DEF LateInv, Listening, Expected
    <3>. QED  BY <3>1, <3>2, <3>3
  <2>3. OrderInv'
    BY <1>r, SameOrder, <2>h, <2>g, <2>g1, <2>g2
  <2>4. LostInv'
    BY <1>c, <1>s, <1>e, <1>v, <2>h, <2>g, <2>g1, <2>g2, SameControl DEF LostInv
  <2>5. EarlyInv'
    BY <1>c, <1>s, <1>e, <1>v, <2>h, <2>g, <2>g1, <2>g2, SameControl DEF LostInv
  <2>6. CurrentInv'
    BY <1>c, <1>s, <1>e, <1>v, <2>h, <2>g, <2>g1, <2>g2, SameControl DEF LostInv
  <2>. QED  BY <2>1, <2>2, <2>3, <2>4, <2>5, <2>6 DEF LoginInv
<1>. QED
  BY <1>1 DEF FinishWrite

LEMMA AttemptEndsKeeps ==
  ASSUME AccountTypeOK, LoginInv, AttemptEnds
  PROVE  LoginInv'
<1>t. /\ ctl \in Controllers /\ tr \in Transports /\ wire \in Wires /\ prov \in Providers /\ told \in Tolds
      /\ task # NoTask => task \in Operations
  BY DEF AccountTypeOK
<1>n. Numbers
  BY NumbersTyped
<1>d. IdsInv /\ OnceInv /\ LateInv
  BY DEF LoginInv
<1>c. CallInv
  BY DEF LoginInv
<1>r. OrderInv
  BY DEF LoginInv
<1>s. LostInv
  BY DEF LoginInv
<1>e. EarlyInv
  BY DEF LoginInv
<1>v. CurrentInv
  BY DEF LoginInv
<1>1. ASSUME NEW x,
             x \in Closes,
             x = ctl.close \/ ctl.close = "asking",
             ctl' = [ctl EXCEPT !.closes = 0, !.close = x],
             NEW y,
             tr' = [tr EXCEPT !.attempt = y],
             UNCHANGED <<task, wire, prov, told>>
     PROVE  LoginInv'
  <2>g. task' = task /\ wire' = wire /\ prov' = prov /\ told' = told
    BY <1>1
  <2>g1. /\ ctl'.gen = ctl.gen /\ ctl'.pending = ctl.pending /\ ctl'.state = ctl.state /\ ctl'.basis = ctl.basis
         /\ ctl'.dispatch = ctl.dispatch /\ ctl'.unresolved = ctl.unresolved /\ ctl'.early = ctl.early
         /\ ctl'.closing = ctl.closing /\ (ctl'.close # "none" => ctl.closing)
    BY <1>t, <1>s, <1>1 DEF Controllers, LostInv
  <2>g2. /\ tr'.failed = tr.failed /\ tr'.closing = tr.closing /\ tr'.next = tr.next /\ tr'.pending = tr.pending
         /\ tr'.retired = tr.retired
    BY <1>t, <1>1 DEF Transports
  <2>1. CallInv'
    BY <1>c, <1>s, <1>e, <1>v, <2>g, <2>g1, <2>g2, SameControl
  <2>2. IdsInv' /\ OnceInv' /\ LateInv'
    BY <1>d, <1>n, SameWire, <2>g, <2>g1, <2>g2 DEF IdsInv, Listening, Expected
  <2>3. OrderInv'
    BY <1>r, SameOrder, <2>g, <2>g1, <2>g2
  <2>4. LostInv'
    BY <1>c, <1>s, <1>e, <1>v, <2>g, <2>g1, <2>g2, SameControl
  <2>5. EarlyInv'
    BY <1>c, <1>s, <1>e, <1>v, <2>g, <2>g1, <2>g2, SameControl
  <2>6. CurrentInv'
    BY <1>c, <1>s, <1>e, <1>v, <2>g, <2>g1, <2>g2, SameControl
  <2>. QED  BY <2>1, <2>2, <2>3, <2>4, <2>5, <2>6 DEF LoginInv
<1>2. ctl.close \in Closes
  BY <1>t DEF Controllers
<1>. QED  BY <1>1, <1>2 DEF AttemptEnds, Closes

LEMMA CloseUnprovenKeeps ==
  ASSUME AccountTypeOK, LoginInv, CloseUnproven
  PROVE  LoginInv'
<1>t. /\ ctl \in Controllers /\ tr \in Transports /\ wire \in Wires /\ prov \in Providers /\ told \in Tolds
      /\ task # NoTask => task \in Operations
  BY DEF AccountTypeOK
<1>n. Numbers
  BY NumbersTyped
<1>d. IdsInv /\ OnceInv /\ LateInv
  BY DEF LoginInv
<1>c. CallInv
  BY DEF LoginInv
<1>r. OrderInv
  BY DEF LoginInv
<1>s. LostInv
  BY DEF LoginInv
<1>e. EarlyInv
  BY DEF LoginInv
<1>v. CurrentInv
  BY DEF LoginInv
<1>1. ASSUME ctl.close # "none",
             ctl' = [ctl EXCEPT !.state = "recovery-required", !.close = "none"],
             UNCHANGED <<task, tr, wire, prov, told>>
     PROVE  LoginInv'
  <2>h. ctl.close # "none"
    BY <1>1
  <2>g. task' = task /\ tr' = tr /\ wire' = wire /\ prov' = prov /\ told' = told
    BY <1>1
  <2>g1. /\ ctl'.gen = ctl.gen /\ ctl'.pending = ctl.pending /\ ctl'.state = "recovery-required" /\ ctl'.basis = ctl.basis
         /\ ctl'.dispatch = ctl.dispatch /\ ctl'.unresolved = ctl.unresolved /\ ctl'.early = ctl.early
         /\ ctl'.closing = ctl.closing /\ ctl'.close = "none"
    BY <1>t, <1>1 DEF Controllers
  <2>1. CallInv'
    BY <1>c, <1>n, <2>h, <2>g, <2>g1 DEF CallInv, CallActive, Numbers
  <2>2. IdsInv' /\ OnceInv' /\ LateInv'
    BY <1>d, <1>n, SameWire, <2>h, <2>g, <2>g1 DEF IdsInv, Listening, Expected
  <2>3. OrderInv'
    BY <1>r, SameOrder, <2>h, <2>g, <2>g1
  <2>4. LostInv'
    BY <1>s, <2>h, <2>g, <2>g1 DEF LostInv, CallActive, Current, NoLogin
  <2>5. EarlyInv'
    BY <1>e, <1>s, <1>v, <1>c, <1>n, <2>h, <2>g, <2>g1 DEF EarlyInv, LostInv, CallActive, Current, NoLogin, Numbers, IdsInv, CallInv
  <2>6. CurrentInv'
    BY <1>v, <1>s, <1>n, <2>h, <2>g, <2>g1 DEF CurrentInv, LostInv, CallActive, Current, Numbers
  <2>. QED  BY <2>1, <2>2, <2>3, <2>4, <2>5, <2>6 DEF LoginInv
<1>. QED
  BY <1>1 DEF CloseUnproven

LEMMA CloseReleasesKeeps ==
  ASSUME AccountTypeOK, LoginInv, CloseReleases
  PROVE  LoginInv'
<1>t. /\ ctl \in Controllers /\ tr \in Transports /\ wire \in Wires /\ prov \in Providers /\ told \in Tolds
      /\ task # NoTask => task \in Operations
  BY DEF AccountTypeOK
<1>n. Numbers
  BY NumbersTyped
<1>d. IdsInv /\ OnceInv /\ LateInv
  BY DEF LoginInv
<1>c. CallInv
  BY DEF LoginInv
<1>r. OrderInv
  BY DEF LoginInv
<1>s. LostInv
  BY DEF LoginInv
<1>e. EarlyInv
  BY DEF LoginInv
<1>v. CurrentInv
  BY DEF LoginInv
<1>1. ASSUME ctl.close # "none",
             ctl' = [ctl EXCEPT !.state = "closed", !.close = "closed"],
             UNCHANGED <<task, tr, wire, prov, told>>
     PROVE  LoginInv'
  <2>h. ctl.close # "none"
    BY <1>1
  <2>g. task' = task /\ tr' = tr /\ wire' = wire /\ prov' = prov /\ told' = told
    BY <1>1
  <2>g1. /\ ctl'.gen = ctl.gen /\ ctl'.pending = ctl.pending /\ ctl'.state = "closed" /\ ctl'.basis = ctl.basis
         /\ ctl'.dispatch = ctl.dispatch /\ ctl'.unresolved = ctl.unresolved /\ ctl'.early = ctl.early
         /\ ctl'.closing = ctl.closing /\ ctl'.close = "closed"
    BY <1>t, <1>1 DEF Controllers
  <2>1. CallInv'
    BY <1>c, <1>n, <2>h, <2>g, <2>g1 DEF CallInv, CallActive, Numbers
  <2>2. IdsInv' /\ OnceInv' /\ LateInv'
    BY <1>d, <1>n, SameWire, <2>h, <2>g, <2>g1 DEF IdsInv, Listening, Expected
  <2>3. OrderInv'
    BY <1>r, SameOrder, <2>h, <2>g, <2>g1
  <2>4. LostInv'
    BY <1>s, <2>h, <2>g, <2>g1 DEF LostInv, CallActive, Current, NoLogin
  <2>5. EarlyInv'
    BY <1>e, <1>s, <1>v, <1>c, <1>n, <2>h, <2>g, <2>g1 DEF EarlyInv, LostInv, CallActive, Current, NoLogin, Numbers, IdsInv, CallInv
  <2>6. CurrentInv'
    BY <1>v, <1>s, <1>n, <2>h, <2>g, <2>g1 DEF CurrentInv, LostInv, CallActive, Current, Numbers
  <2>. QED  BY <2>1, <2>2, <2>3, <2>4, <2>5, <2>6 DEF LoginInv
<1>. QED
  BY <1>1 DEF CloseReleases

LEMMA CloseStartsKeeps ==
  ASSUME AccountTypeOK, LoginInv, CloseStarts
  PROVE  LoginInv'
<1>t. /\ ctl \in Controllers /\ tr \in Transports /\ wire \in Wires /\ prov \in Providers /\ told \in Tolds
      /\ task # NoTask => task \in Operations
  BY DEF AccountTypeOK
<1>n. Numbers
  BY NumbersTyped
<1>d. IdsInv /\ OnceInv /\ LateInv
  BY DEF LoginInv
<1>c. CallInv
  BY DEF LoginInv
<1>r. OrderInv
  BY DEF LoginInv
<1>s. LostInv
  BY DEF LoginInv
<1>e. EarlyInv
  BY DEF LoginInv
<1>v. CurrentInv
  BY DEF LoginInv
<1>1. ASSUME ctl.close = "starting",
             ctl' = [ctl EXCEPT !.state = "closed", !.close = "closed"],
             UNCHANGED <<task, tr, wire, prov, told>>
     PROVE  LoginInv'
  <2>h. ctl.close = "starting"
    BY <1>1
  <2>g. task' = task /\ tr' = tr /\ wire' = wire /\ prov' = prov /\ told' = told
    BY <1>1
  <2>g1. /\ ctl'.gen = ctl.gen /\ ctl'.pending = ctl.pending /\ ctl'.state = "closed" /\ ctl'.basis = ctl.basis
         /\ ctl'.dispatch = ctl.dispatch /\ ctl'.unresolved = ctl.unresolved /\ ctl'.early = ctl.early
         /\ ctl'.closing = ctl.closing /\ ctl'.close = "closed"
    BY <1>t, <1>1 DEF Controllers
  <2>1. CallInv'
    BY <1>c, <1>n, <2>h, <2>g, <2>g1 DEF CallInv, CallActive, Numbers
  <2>2. IdsInv' /\ OnceInv' /\ LateInv'
    BY <1>d, <1>n, SameWire, <2>h, <2>g, <2>g1 DEF IdsInv, Listening, Expected
  <2>3. OrderInv'
    BY <1>r, SameOrder, <2>h, <2>g, <2>g1
  <2>4. LostInv'
    BY <1>s, <2>h, <2>g, <2>g1 DEF LostInv, CallActive, Current, NoLogin
  <2>5. EarlyInv'
    BY <1>e, <1>s, <1>v, <1>c, <1>n, <2>h, <2>g, <2>g1 DEF EarlyInv, LostInv, CallActive, Current, NoLogin, Numbers, IdsInv, CallInv
  <2>6. CurrentInv'
    BY <1>v, <1>s, <1>n, <2>h, <2>g, <2>g1 DEF CurrentInv, LostInv, CallActive, Current, Numbers
  <2>. QED  BY <2>1, <2>2, <2>3, <2>4, <2>5, <2>6 DEF LoginInv
<1>2. ASSUME ctl.close = "starting",
             wire' = [wire EXCEPT !.pipe = <<>>],
             tr' = JoinTransport(tr),
             ctl' = [ctl EXCEPT !.close = "joined"] \/ ctl' = [ctl EXCEPT !.close = "asking", !.closes = ctl.closes + 1],
             UNCHANGED <<task, prov, told>>
     PROVE  LoginInv'
  <2>h. ctl.close = "starting"
    BY <1>2
  <2>g. task' = task /\ prov' = prov /\ told' = told
    BY <1>2
  <2>g1. wire'.queue = wire.queue /\ wire'.writing = wire.writing /\ wire'.kinds = wire.kinds /\ wire'.pipe = <<>>
    BY <1>t, <1>2 DEF Wires
  <2>g2. tr'.next = tr.next /\ tr'.pending = 0 /\ tr'.closing = TRUE /\ tr'.retired = tr.retired
    BY <1>t, <1>2, JoinFields
  <2>g3. /\ ctl'.gen = ctl.gen /\ ctl'.pending = ctl.pending /\ ctl'.state = ctl.state /\ ctl'.basis = ctl.basis
         /\ ctl'.dispatch = ctl.dispatch /\ ctl'.unresolved = ctl.unresolved /\ ctl'.early = ctl.early
         /\ ctl'.closing = ctl.closing /\ ctl.closing
    BY <1>t, <1>s, <1>2 DEF Controllers, LostInv
  <2>1. CallInv'
    BY <1>c, <1>s, <1>e, <1>v, <2>h, <2>g, <2>g1, <2>g2, <2>g3, SameControl
  <2>2. IdsInv' /\ OnceInv' /\ LateInv'
    BY <1>d, <1>n, <2>h, <2>g, <2>g1, <2>g2, <2>g3, ClearedWire DEF IdsInv, Listening, Numbers
  <2>3. OrderInv'
    BY <1>r, <2>h, <2>g, <2>g1, <2>g2, <2>g3, ClearedOrder
  <2>4. LostInv'
    BY <1>c, <1>s, <1>e, <1>v, <2>h, <2>g, <2>g1, <2>g2, <2>g3, SameControl
  <2>5. EarlyInv'
    BY <1>c, <1>s, <1>e, <1>v, <2>h, <2>g, <2>g1, <2>g2, <2>g3, SameControl
  <2>6. CurrentInv'
    BY <1>c, <1>s, <1>e, <1>v, <2>h, <2>g, <2>g1, <2>g2, <2>g3, SameControl
  <2>. QED  BY <2>1, <2>2, <2>3, <2>4, <2>5, <2>6 DEF LoginInv
<1>. QED
  BY <1>1, <1>2 DEF CloseStarts

LEMMA CloseAccountKeeps ==
  ASSUME AccountTypeOK, LoginInv, CloseAccount
  PROVE  LoginInv'
<1>t. /\ ctl \in Controllers /\ tr \in Transports /\ wire \in Wires /\ prov \in Providers /\ told \in Tolds
      /\ task # NoTask => task \in Operations
  BY DEF AccountTypeOK
<1>n. Numbers
  BY NumbersTyped
<1>d. IdsInv /\ OnceInv /\ LateInv
  BY DEF LoginInv
<1>c. CallInv
  BY DEF LoginInv
<1>r. OrderInv
  BY DEF LoginInv
<1>s. LostInv
  BY DEF LoginInv
<1>e. EarlyInv
  BY DEF LoginInv
<1>v. CurrentInv
  BY DEF LoginInv
<1>1. ASSUME ctl' = [ctl EXCEPT !.gen = ctl.gen + 1, !.state = "unchecked", !.closing = TRUE, !.pending = NoLogin, !.close = "starting"],
             told' = [told EXCEPT !.closes = told.closes + 1],
             task' = Aborted(task),
             tr' = IF CallActive THEN Retired(tr) ELSE tr,
             UNCHANGED <<wire, prov>>
     PROVE  LoginInv'
  <2>g. wire' = wire /\ prov' = prov
    BY <1>1
  <2>g1. /\ ctl'.gen = ctl.gen + 1 /\ ctl'.pending = NoLogin /\ ctl'.state = "unchecked" /\ ctl'.basis = ctl.basis
         /\ ctl'.dispatch = ctl.dispatch /\ ctl'.unresolved = ctl.unresolved /\ ctl'.early = ctl.early
         /\ ctl'.closing = TRUE /\ ctl'.close = "starting"
    BY <1>t, <1>1 DEF Controllers
  <2>g2. /\ told'.ver = told.ver /\ told'.done = told.done /\ told'.full = told.full /\ told'.lost = told.lost
         /\ told'.at = told.at
    BY <1>t, <1>1 DEF Tolds
  <2>g3. /\ tr'.next = tr.next /\ tr'.pending = 0 /\ tr'.failed = tr.failed /\ tr'.closing = tr.closing
         /\ (tr'.retired = IF tr.pending = 0 THEN tr.retired ELSE tr.retired \cup {tr.pending})
    BY <1>1, <1>c, RetiredFields DEF CallInv
  <2>g4. /\ (task' = NoTask <=> task = NoTask) /\ (CallActive' <=> CallActive) /\ (CallActive => task'.aborted)
         /\ (task # NoTask => task'.kind = task.kind /\ task'.gen = task.gen /\ task'.step = task.step /\ task'.returned = task.returned /\ task'.settled = task.settled /\ task'.dispatched = task.dispatched /\ task'.login = task.login /\ task'.signed = task.signed /\ task'.ver = task.ver /\ (task.aborted => task'.aborted))
    BY <1>1, AbortedFields
  <2>w. tr'.retired \subseteq 1..tr.next /\ Expected \subseteq Expected'
    <3>1. tr.pending # 0 => tr.pending \in 1..tr.next
      BY <1>c, <1>n DEF CallInv, Numbers
    <3>2. tr.retired \subseteq 1..tr.next
      BY <1>d DEF IdsInv
    <3>. QED  BY <3>1, <3>2, <2>g, <2>g1, <2>g2, <2>g3, <2>g4 DEF Expected
  <2>1. CallInv'
    BY <1>c, <1>n, <2>g, <2>g1, <2>g2, <2>g3, <2>g4, <2>w DEF CallInv, CallActive, Numbers
  <2>2. IdsInv' /\ OnceInv' /\ LateInv'
    BY <1>d, <2>g, <2>g1, <2>g2, <2>g3, <2>g4, <2>w, SameWire DEF IdsInv, Listening
  <2>3. OrderInv'
    BY <1>r, SameOrder, <2>g, <2>g1, <2>g2, <2>g3, <2>g4, <2>w
  <2>4. LostInv'
    BY <1>s, <2>g, <2>g1, <2>g2, <2>g3, <2>g4, <2>w DEF LostInv, CallActive, Current, NoLogin
  <2>5. EarlyInv'
    BY <1>e, <1>s, <1>v, <1>c, <1>n, <2>g, <2>g1, <2>g2, <2>g3, <2>g4, <2>w DEF EarlyInv, LostInv, CallActive, Current, NoLogin, Numbers, IdsInv, CallInv
  <2>6. CurrentInv'
    <3>1. CallActive' => task'.gen <= ctl'.gen
      BY <1>v, <1>n, <2>g, <2>g1, <2>g2, <2>g3, <2>g4, <2>w DEF CurrentInv, CallActive, Numbers
    <3>2. ctl'.closing /\ ctl'.state # "signed-in"
      BY <2>g, <2>g1, <2>g2, <2>g3, <2>g4, <2>w
    <3>. QED  BY <3>1, <3>2 DEF CurrentInv, Current
  <2>. QED  BY <2>1, <2>2, <2>3, <2>4, <2>5, <2>6 DEF LoginInv
<1>. QED
  BY <1>1 DEF CloseAccount, Invalidate

LEMMA DisconnectKeeps ==
  ASSUME AccountTypeOK, LoginInv, Disconnect
  PROVE  LoginInv'
<1>t. /\ ctl \in Controllers /\ tr \in Transports /\ wire \in Wires /\ prov \in Providers /\ told \in Tolds
      /\ task # NoTask => task \in Operations
  BY DEF AccountTypeOK
<1>n. Numbers
  BY NumbersTyped
<1>d. IdsInv /\ OnceInv /\ LateInv
  BY DEF LoginInv
<1>c. CallInv
  BY DEF LoginInv
<1>r. OrderInv
  BY DEF LoginInv
<1>s. LostInv
  BY DEF LoginInv
<1>e. EarlyInv
  BY DEF LoginInv
<1>v. CurrentInv
  BY DEF LoginInv
<1>1. ASSUME wire' = [wire EXCEPT !.writing = 0, !.pipe = <<>>],
             TransportFails,
             UNCHANGED <<prov, told>>
     PROVE  LoginInv'
  <2>g. prov' = prov /\ told' = told
    BY <1>1
  <2>g1. wire'.queue = wire.queue /\ wire'.writing = 0 /\ wire'.kinds = wire.kinds /\ wire'.pipe = <<>>
    BY <1>t, <1>1 DEF Wires
  <2>g2. tr'.next = tr.next /\ tr'.pending = 0 /\ tr'.retired = tr.retired /\ ~Listening'
    BY <1>1, FailsFields
  <2>z. CallInv' /\ LostInv' /\ EarlyInv' /\ CurrentInv'
    <3>1. CASE ctl' = ctl /\ task' = task
      BY <1>c, <1>s, <1>e, <1>v, <3>1, <2>g, <2>g1, <2>g2, SameControl DEF LostInv
    <3>2. CASE /\ ~ctl.closing /\ ~ctl.unresolved /\ task' = Aborted(task)
               /\ ctl' = [ctl EXCEPT !.gen = ctl.gen + 1, !.pending = NoLogin, !.state = "unavailable"]
      BY <1>c, <1>s, <1>e, <1>v, <3>2, <2>g, <2>g1, <2>g2, Invalidated
    <3>. QED  BY <3>1, <3>2, <1>1, FailsFields
  <2>1. CallInv'
    BY <2>z
  <2>2. IdsInv' /\ OnceInv' /\ LateInv'
    BY <1>d, <1>n, <2>g, <2>g1, <2>g2, <2>z, ClearedWire DEF IdsInv, Listening, Numbers
  <2>3. OrderInv'
    BY <1>r, <2>g, <2>g1, <2>g2, <2>z, ClearedOrder
  <2>4. LostInv'
    BY <2>z
  <2>5. EarlyInv'
    BY <2>z
  <2>6. CurrentInv'
    BY <2>z
  <2>. QED  BY <2>1, <2>2, <2>3, <2>4, <2>5, <2>6 DEF LoginInv
<1>. QED
  BY <1>1 DEF Disconnect

LEMMA ReceiveKeeps ==
  ASSUME AccountTypeOK, LoginInv, Receive
  PROVE  LoginInv'
<1>t. /\ ctl \in Controllers /\ tr \in Transports /\ wire \in Wires /\ prov \in Providers /\ told \in Tolds
      /\ task # NoTask => task \in Operations
  BY DEF AccountTypeOK
<1>n. Numbers
  BY NumbersTyped
<1>d. IdsInv /\ OnceInv /\ LateInv
  BY DEF LoginInv
<1>c. CallInv
  BY DEF LoginInv
<1>r. OrderInv
  BY DEF LoginInv
<1>s. LostInv
  BY DEF LoginInv
<1>e. EarlyInv
  BY DEF LoginInv
<1>v. CurrentInv
  BY DEF LoginInv
<1>1. ASSUME wire.pipe # <<>>,
             wire.pipe[1].type = "answer",
             wire.pipe[1].id \in tr.retired,
             tr' = [tr EXCEPT !.retired = tr.retired \ {wire.pipe[1].id}],
             wire' = [wire EXCEPT !.pipe = Tail(wire.pipe)],
             UNCHANGED <<ctl, task, prov, told>>
     PROVE  LoginInv'
  <2>h. wire.pipe # <<>> /\ wire.pipe[1].type = "answer" /\ wire.pipe[1].id \in tr.retired
    BY <1>1
  <2>g. ctl' = ctl /\ task' = task /\ prov' = prov /\ told' = told
    BY <1>1
  <2>g1. /\ tr'.failed = tr.failed /\ tr'.closing = tr.closing /\ tr'.next = tr.next /\ tr'.pending = tr.pending
         /\ tr'.retired = tr.retired \ {wire.pipe[1].id}
    BY <1>t, <1>1 DEF Transports
  <2>g2. /\ wire'.queue = wire.queue /\ wire'.writing = wire.writing /\ wire'.kinds = wire.kinds
         /\ wire'.pipe = Tail(wire.pipe)
    BY <1>t, <1>1 DEF Wires
  <2>p. Popped(wire.pipe, wire'.pipe) /\ Head(wire.pipe) = wire.pipe[1] /\ 1 \in 1..Len(wire.pipe) /\ FrameKnown(1) /\ VersionOK(1)
    <3>1. wire.pipe \in Seq(Answers \cup Events) /\ wire.pipe # <<>>
      BY <1>t, <2>h DEF Wires
    <3>2. Popped(wire.pipe, Tail(wire.pipe))
      BY <3>1, PoppedSeq
    <3>3. 1 \in 1..Len(wire.pipe) /\ Head(wire.pipe) = wire.pipe[1] /\ wire'.pipe = Tail(wire.pipe)
      BY <3>2, <2>g, <2>g1, <2>g2 DEF Popped
    <3>. QED  BY <3>2, <3>3, <1>d, <1>r DEF IdsInv, OrderInv
  <2>1. CallInv'
    BY <1>c, <1>s, <1>e, <1>v, <2>h, <2>g, <2>g1, <2>g2, <2>p, SameControl DEF LostInv
  <2>2. IdsInv' /\ OnceInv' /\ LateInv'
    BY <1>d, <1>n, <2>h, <2>g, <2>g1, <2>g2, <2>p, PoppedWire DEF IdsInv, Listening, Expected, FrameKnown
  <2>3. OrderInv'
    BY <1>r, <1>n, <2>h, <2>g, <2>g1, <2>g2, <2>p, PoppedOrder
  <2>4. LostInv'
    BY <1>c, <1>s, <1>e, <1>v, <2>h, <2>g, <2>g1, <2>g2, <2>p, SameControl DEF LostInv
  <2>5. EarlyInv'
    BY <1>c, <1>s, <1>e, <1>v, <2>h, <2>g, <2>g1, <2>g2, <2>p, SameControl DEF LostInv
  <2>6. CurrentInv'
    BY <1>c, <1>s, <1>e, <1>v, <2>h, <2>g, <2>g1, <2>g2, <2>p, SameControl DEF LostInv
  <2>. QED  BY <2>1, <2>2, <2>3, <2>4, <2>5, <2>6 DEF LoginInv
<1>2. ASSUME wire.pipe # <<>>,
             wire.pipe[1].type = "answer",
             wire.pipe[1].id = tr.pending,
             tr' = [tr EXCEPT !.pending = 0],
             wire' = [wire EXCEPT !.pipe = Tail(wire.pipe)],
             task' = [task EXCEPT !.step = "answered", !.login = wire.pipe[1].login,
                  !.signed = wire.pipe[1].signed, !.ver = IF wire.pipe[1].signed THEN wire.pipe[1].ver ELSE task.ver],
             UNCHANGED <<ctl, prov, told>>
     PROVE  LoginInv'
  <2>h. wire.pipe # <<>> /\ wire.pipe[1].type = "answer" /\ wire.pipe[1].id = tr.pending
    BY <1>2
  <2>g. ctl' = ctl /\ prov' = prov /\ told' = told
    BY <1>2
  <2>g1. /\ tr'.failed = tr.failed /\ tr'.closing = tr.closing /\ tr'.next = tr.next /\ tr'.pending = 0
         /\ tr'.retired = tr.retired
    BY <1>t, <1>2 DEF Transports
  <2>g2. /\ wire'.queue = wire.queue /\ wire'.writing = wire.writing /\ wire'.kinds = wire.kinds
         /\ wire'.pipe = Tail(wire.pipe)
    BY <1>t, <1>2 DEF Wires
  <2>p. Popped(wire.pipe, wire'.pipe) /\ Head(wire.pipe) = wire.pipe[1] /\ 1 \in 1..Len(wire.pipe) /\ FrameKnown(1) /\ VersionOK(1)
    <3>1. wire.pipe \in Seq(Answers \cup Events) /\ wire.pipe # <<>>
      BY <1>t, <2>h DEF Wires
    <3>2. Popped(wire.pipe, Tail(wire.pipe))
      BY <3>1, PoppedSeq
    <3>3. 1 \in 1..Len(wire.pipe) /\ Head(wire.pipe) = wire.pipe[1] /\ wire'.pipe = Tail(wire.pipe)
      BY <3>2, <2>g, <2>g1, <2>g2 DEF Popped
    <3>. QED  BY <3>2, <3>3, <1>d, <1>r DEF IdsInv, OrderInv
  <2>k. task \in Operations /\ task # NoTask /\ CallActive /\ task.step = "called" /\ tr.pending = tr.next
    <3>1. tr.pending # 0
      BY <2>h, <2>p, <1>d, <1>n DEF FrameKnown, Numbers
    <3>. QED  BY <3>1, <1>c, <1>t DEF CallInv, CallActive
  <2>x. /\ task'.kind = task.kind /\ task'.gen = task.gen /\ task'.step = "answered" /\ task'.aborted = task.aborted
        /\ task'.returned = task.returned /\ task'.settled = task.settled /\ task'.dispatched = task.dispatched
        /\ task'.login = wire.pipe[1].login /\ task'.signed = wire.pipe[1].signed
        /\ (task'.ver = IF wire.pipe[1].signed THEN wire.pipe[1].ver ELSE task.ver)
    BY <1>2, <2>k DEF Operations
  <2>j. task' # NoTask
    BY <2>k, <2>x DEF Operations, Kinds, NoTask
  <2>1. CallInv'
    BY <1>c, <1>n, <2>h, <2>g, <2>g1, <2>g2, <2>p, <2>k, <2>x, <2>j DEF CallInv, CallActive, Numbers, FrameKnown
  <2>2. IdsInv' /\ OnceInv' /\ LateInv'
    BY <1>d, <1>n, <2>h, <2>g, <2>g1, <2>g2, <2>p, <2>k, <2>x, <2>j, PoppedWire DEF IdsInv, Listening, Expected, FrameKnown
  <2>3. OrderInv'
    BY <1>r, <1>n, <2>h, <2>g, <2>g1, <2>g2, <2>p, <2>k, <2>x, <2>j, PoppedOrder
  <2>4. LostInv'
    BY <1>s, <2>h, <2>g, <2>g1, <2>g2, <2>p, <2>k, <2>x, <2>j DEF LostInv, CallActive, Current, NoLogin
  <2>5. EarlyInv'
    BY <1>e, <1>s, <1>v, <1>c, <1>n, <2>h, <2>g, <2>g1, <2>g2, <2>p, <2>k, <2>x, <2>j DEF EarlyInv, LostInv, CallActive, Current, NoLogin, Numbers, IdsInv, CallInv
  <2>6. CurrentInv'
    BY <1>v, <1>s, <1>n, <2>h, <2>g, <2>g1, <2>g2, <2>p, <2>k, <2>x, <2>j DEF CurrentInv, CallActive, Current, Numbers, VersionOK
  <2>. QED  BY <2>1, <2>2, <2>3, <2>4, <2>5, <2>6 DEF LoginInv
<1>3. ASSUME wire.pipe # <<>>,
             wire.pipe[1].type = "answer",
             wire' = [wire EXCEPT !.pipe = Tail(wire.pipe)],
             TransportFails,
             UNCHANGED <<prov, told>>
     PROVE  LoginInv'
  <2>h. wire.pipe # <<>> /\ wire.pipe[1].type = "answer"
    BY <1>3
  <2>g. prov' = prov /\ told' = told
    BY <1>3
  <2>g1. /\ wire'.queue = wire.queue /\ wire'.writing = wire.writing /\ wire'.kinds = wire.kinds
         /\ wire'.pipe = Tail(wire.pipe)
    BY <1>t, <1>3 DEF Wires
  <2>g2. tr'.next = tr.next /\ tr'.pending = 0 /\ tr'.retired = tr.retired /\ ~Listening'
    BY <1>3, FailsFields
  <2>p. Popped(wire.pipe, wire'.pipe) /\ Head(wire.pipe) = wire.pipe[1] /\ 1 \in 1..Len(wire.pipe) /\ FrameKnown(1) /\ VersionOK(1)
    <3>1. wire.pipe \in Seq(Answers \cup Events) /\ wire.pipe # <<>>
      BY <1>t, <2>h DEF Wires
    <3>2. Popped(wire.pipe, Tail(wire.pipe))
      BY <3>1, PoppedSeq
    <3>3. 1 \in 1..Len(wire.pipe) /\ Head(wire.pipe) = wire.pipe[1] /\ wire'.pipe = Tail(wire.pipe)
      BY <3>2, <2>g, <2>g1, <2>g2 DEF Popped
    <3>. QED  BY <3>2, <3>3, <1>d, <1>r DEF IdsInv, OrderInv
  <2>z. CallInv' /\ LostInv' /\ EarlyInv' /\ CurrentInv'
    <3>1. CASE ctl' = ctl /\ task' = task
      BY <1>c, <1>s, <1>e, <1>v, <3>1, <2>g, <2>g1, <2>g2, SameControl DEF LostInv
    <3>2. CASE /\ ~ctl.closing /\ ~ctl.unresolved /\ task' = Aborted(task)
               /\ ctl' = [ctl EXCEPT !.gen = ctl.gen + 1, !.pending = NoLogin, !.state = "unavailable"]
      BY <1>c, <1>s, <1>e, <1>v, <3>2, <2>g, <2>g1, <2>g2, Invalidated
    <3>. QED  BY <3>1, <3>2, <1>3, FailsFields
  <2>1. CallInv'
    BY <2>z
  <2>2. IdsInv' /\ OnceInv' /\ LateInv'
    BY <1>d, <1>n, <2>h, <2>g, <2>g1, <2>g2, <2>p, <2>z, PoppedWire DEF IdsInv, Listening, Expected, FrameKnown
  <2>3. OrderInv'
    BY <1>r, <1>n, <2>h, <2>g, <2>g1, <2>g2, <2>p, <2>z, PoppedOrder
  <2>4. LostInv'
    BY <2>z
  <2>5. EarlyInv'
    BY <2>z
  <2>6. CurrentInv'
    BY <2>z
  <2>. QED  BY <2>1, <2>2, <2>3, <2>4, <2>5, <2>6 DEF LoginInv
<1>4. ASSUME wire.pipe # <<>>,
             wire.pipe[1].type = "completed",
             ctl.closing \/ ctl.unresolved \/ (~(ctl.pending = NoLogin /\ ctl.dispatch) /\ ctl.pending # wire.pipe[1].login),
             wire' = [wire EXCEPT !.pipe = Tail(wire.pipe)],
             told' = [told EXCEPT !.done = told.done \cup {wire.pipe[1].login}, !.full = (told.full \/ ~(Cardinality(ctl.early) < MaxEarly))],
             UNCHANGED <<ctl, task, tr, prov>>
     PROVE  LoginInv'
  <2>h. /\ wire.pipe # <<>> /\ wire.pipe[1].type = "completed"
        /\ (ctl.closing \/ ctl.unresolved \/ (~(ctl.pending = NoLogin /\ ctl.dispatch) /\ ctl.pending # wire.pipe[1].login))
    BY <1>4
  <2>g. ctl' = ctl /\ task' = task /\ tr' = tr /\ prov' = prov
    BY <1>4
  <2>g1. /\ wire'.queue = wire.queue /\ wire'.writing = wire.writing /\ wire'.kinds = wire.kinds
         /\ wire'.pipe = Tail(wire.pipe)
    BY <1>t, <1>4 DEF Wires
  <2>g2. /\ told'.ver = told.ver /\ told'.done = told.done \cup {wire.pipe[1].login}
         /\ (told'.full = (told.full \/ ~(Cardinality(ctl.early) < MaxEarly))) /\ told'.lost = told.lost
         /\ told'.at = told.at
    BY <1>t, <1>4 DEF Tolds
  <2>p. Popped(wire.pipe, wire'.pipe) /\ Head(wire.pipe) = wire.pipe[1] /\ 1 \in 1..Len(wire.pipe) /\ FrameKnown(1) /\ VersionOK(1)
    <3>1. wire.pipe \in Seq(Answers \cup Events) /\ wire.pipe # <<>>
      BY <1>t, <2>h DEF Wires
    <3>2. Popped(wire.pipe, Tail(wire.pipe))
      BY <3>1, PoppedSeq
    <3>3. 1 \in 1..Len(wire.pipe) /\ Head(wire.pipe) = wire.pipe[1] /\ wire'.pipe = Tail(wire.pipe)
      BY <3>2, <2>g, <2>g1, <2>g2 DEF Popped
    <3>. QED  BY <3>2, <3>3, <1>d, <1>r DEF IdsInv, OrderInv
  <2>1. CallInv'
    BY <1>c, <1>n, <2>h, <2>g, <2>g1, <2>g2, <2>p DEF CallInv, CallActive, Numbers
  <2>2. IdsInv' /\ OnceInv' /\ LateInv'
    BY <1>d, <1>n, <2>h, <2>g, <2>g1, <2>g2, <2>p, PoppedWire DEF IdsInv, Listening, Expected, FrameKnown
  <2>3. OrderInv'
    BY <1>r, <1>n, <2>h, <2>g, <2>g1, <2>g2, <2>p, PoppedOrder
  <2>4. LostInv'
    BY <1>s, <2>h, <2>g, <2>g1, <2>g2, <2>p DEF LostInv, CallActive, Current, NoLogin
  <2>5. EarlyInv'
    <3>0. /\ CallActive /\ task.step # "queued" => (task.dispatched <=> task.kind = "login")
          /\ task # NoTask /\ task.kind = "login" => ctl.pending = NoLogin
          /\ CallActive /\ task.dispatched /\ ~task.returned => ctl.dispatch
          /\ task # NoTask /\ task.returned => task.settled \/ task.aborted
      BY <1>e DEF EarlyInv
    <3>1. ASSUME CallActive, task.kind = "login", task.step \in {"called", "answered"}, Current(ctl, task), ~told'.full,
                 tr.next \in told'.done
          PROVE  tr.next \in ctl'.early
      <4>1. ~ctl.closing /\ ~ctl.unresolved /\ ctl.pending = NoLogin /\ ctl.dispatch
        BY <3>0, <3>1, <1>s DEF LostInv, Current, CallActive
      <4>. QED  BY <4>1, <2>h
    <3>2. ~told'.full /\ ctl'.pending # NoLogin => ctl'.pending \notin told'.done
      <4>1. ctl.closing \/ ctl.unresolved => ctl.pending = NoLogin
        BY <1>s DEF LostInv
      <4>. QED  BY <4>1, <1>e, <2>h, <2>g, <2>g1, <2>g2, <2>p DEF EarlyInv
    <3>3. Current(ctl', task') => Current(ctl, task)
      BY <2>h, <2>g, <2>g1, <2>g2, <2>p DEF Current
    <3>4. task' = task /\ tr' = tr /\ ctl'.pending = ctl.pending /\ ctl'.dispatch = ctl.dispatch
      BY <2>h, <2>g, <2>g1, <2>g2, <2>p
    <3>. QED  BY <3>0, <3>1, <3>2, <3>3, <3>4 DEF EarlyInv, CallActive
  <2>6. CurrentInv'
    BY <1>v, <1>s, <1>n, <2>h, <2>g, <2>g1, <2>g2, <2>p DEF CurrentInv, LostInv, CallActive, Current, Numbers
  <2>. QED  BY <2>1, <2>2, <2>3, <2>4, <2>5, <2>6 DEF LoginInv
<1>5. ASSUME wire.pipe # <<>>,
             wire.pipe[1].type = "completed",
             ~ctl.closing,
             ~ctl.unresolved,
             ctl.pending = NoLogin,
             ctl.dispatch,
             wire' = [wire EXCEPT !.pipe = Tail(wire.pipe)],
             told' = [told EXCEPT !.done = told.done \cup {wire.pipe[1].login}, !.full = (told.full \/ ~(Cardinality(ctl.early) < MaxEarly))],
             ctl' = IF Cardinality(ctl.early) < MaxEarly THEN [ctl EXCEPT !.early = ctl.early \cup {wire.pipe[1].login}] ELSE ctl,
             UNCHANGED <<task, tr, prov>>
     PROVE  LoginInv'
  <2>h. /\ wire.pipe # <<>> /\ wire.pipe[1].type = "completed" /\ ~ctl.closing /\ ~ctl.unresolved /\ ctl.pending = NoLogin
        /\ ctl.dispatch
    BY <1>5
  <2>g. task' = task /\ tr' = tr /\ prov' = prov
    BY <1>5
  <2>g1. /\ wire'.queue = wire.queue /\ wire'.writing = wire.writing /\ wire'.kinds = wire.kinds
         /\ wire'.pipe = Tail(wire.pipe)
    BY <1>t, <1>5 DEF Wires
  <2>g2. /\ told'.ver = told.ver /\ told'.done = told.done \cup {wire.pipe[1].login}
         /\ (told'.full = (told.full \/ ~(Cardinality(ctl.early) < MaxEarly))) /\ told'.lost = told.lost
         /\ told'.at = told.at
    BY <1>t, <1>5 DEF Tolds
  <2>g3. /\ ctl'.gen = ctl.gen /\ ctl'.pending = ctl.pending /\ ctl'.state = ctl.state /\ ctl'.basis = ctl.basis
         /\ ctl'.dispatch = ctl.dispatch /\ ctl'.unresolved = ctl.unresolved /\ ctl'.closing = ctl.closing
         /\ ctl'.close = ctl.close
    BY <1>t, <1>5 DEF Controllers
  <2>g4. (ctl'.early = IF Cardinality(ctl.early) < MaxEarly THEN ctl.early \cup {wire.pipe[1].login} ELSE ctl.early)
    BY <1>t, <1>5 DEF Controllers
  <2>p. Popped(wire.pipe, wire'.pipe) /\ Head(wire.pipe) = wire.pipe[1] /\ 1 \in 1..Len(wire.pipe) /\ FrameKnown(1) /\ VersionOK(1)
    <3>1. wire.pipe \in Seq(Answers \cup Events) /\ wire.pipe # <<>>
      BY <1>t, <2>h DEF Wires
    <3>2. Popped(wire.pipe, Tail(wire.pipe))
      BY <3>1, PoppedSeq
    <3>3. 1 \in 1..Len(wire.pipe) /\ Head(wire.pipe) = wire.pipe[1] /\ wire'.pipe = Tail(wire.pipe)
      BY <3>2, <2>g, <2>g1, <2>g2, <2>g3, <2>g4 DEF Popped
    <3>. QED  BY <3>2, <3>3, <1>d, <1>r DEF IdsInv, OrderInv
  <2>1. CallInv'
    BY <1>c, <1>n, <2>h, <2>g, <2>g1, <2>g2, <2>g3, <2>g4, <2>p DEF CallInv, CallActive, Numbers
  <2>2. IdsInv' /\ OnceInv' /\ LateInv'
    BY <1>d, <1>n, <2>h, <2>g, <2>g1, <2>g2, <2>g3, <2>g4, <2>p, PoppedWire DEF IdsInv, Listening, Expected, FrameKnown
  <2>3. OrderInv'
    BY <1>r, <1>n, <2>h, <2>g, <2>g1, <2>g2, <2>g3, <2>g4, <2>p, PoppedOrder
  <2>4. LostInv'
    BY <1>s, <2>h, <2>g, <2>g1, <2>g2, <2>g3, <2>g4, <2>p DEF LostInv, CallActive, Current, NoLogin
  <2>5. EarlyInv'
    <3>0. /\ CallActive /\ task.step # "queued" => (task.dispatched <=> task.kind = "login")
          /\ task # NoTask /\ task.kind = "login" => ctl.pending = NoLogin
          /\ CallActive /\ task.dispatched /\ ~task.returned => ctl.dispatch
          /\ task # NoTask /\ task.returned => task.settled \/ task.aborted
      BY <1>e DEF EarlyInv
    <3>1. ASSUME CallActive, task.kind = "login", task.step \in {"called", "answered"}, Current(ctl, task), ~told'.full,
                 tr.next \in told'.done
          PROVE  tr.next \in ctl'.early
      <4>1. Cardinality(ctl.early) < MaxEarly /\ ~told.full /\ told'.done = told.done \cup {wire.pipe[1].login}
            /\ ctl'.early = ctl.early \cup {wire.pipe[1].login}
        BY <3>1, <2>h, <2>g, <2>g1, <2>g2, <2>g3, <2>g4, <2>p
      <4>2. tr.next \in told.done => tr.next \in ctl.early
        BY <4>1, <3>1, <1>e DEF EarlyInv
      <4>. QED  BY <4>1, <4>2, <3>1
    <3>2. ~told'.full /\ ctl'.pending # NoLogin => ctl'.pending \notin told'.done
      BY <2>h, <2>g, <2>g1, <2>g2, <2>g3, <2>g4, <2>p DEF NoLogin
    <3>3. Current(ctl', task') => Current(ctl, task)
      BY <2>h, <2>g, <2>g1, <2>g2, <2>g3, <2>g4, <2>p DEF Current
    <3>4. task' = task /\ tr' = tr /\ ctl'.pending = ctl.pending /\ ctl'.dispatch = ctl.dispatch
      BY <2>h, <2>g, <2>g1, <2>g2, <2>g3, <2>g4, <2>p
    <3>. QED  BY <3>0, <3>1, <3>2, <3>3, <3>4 DEF EarlyInv, CallActive
  <2>6. CurrentInv'
    BY <1>v, <1>s, <1>n, <2>h, <2>g, <2>g1, <2>g2, <2>g3, <2>g4, <2>p DEF CurrentInv, LostInv, CallActive, Current, Numbers
  <2>. QED  BY <2>1, <2>2, <2>3, <2>4, <2>5, <2>6 DEF LoginInv
<1>6. ASSUME wire.pipe # <<>>,
             wire.pipe[1].type = "completed",
             ~ctl.closing,
             ~ctl.unresolved,
             wire' = [wire EXCEPT !.pipe = Tail(wire.pipe)],
             told' = [told EXCEPT !.done = told.done \cup {wire.pipe[1].login}, !.full = (told.full \/ ~(Cardinality(ctl.early) < MaxEarly))],
             ctl' = [ctl EXCEPT !.gen = ctl.gen + 1, !.pending = NoLogin, !.state = "unchecked"],
             task' = Aborted(task),
             tr' = Retired(tr),
             UNCHANGED <<prov>>
     PROVE  LoginInv'
  <2>h. wire.pipe # <<>> /\ wire.pipe[1].type = "completed" /\ ~ctl.closing /\ ~ctl.unresolved
    BY <1>6
  <2>g. prov' = prov
    BY <1>6
  <2>g1. /\ wire'.queue = wire.queue /\ wire'.writing = wire.writing /\ wire'.kinds = wire.kinds
         /\ wire'.pipe = Tail(wire.pipe)
    BY <1>t, <1>6 DEF Wires
  <2>g2. /\ told'.ver = told.ver /\ told'.done = told.done \cup {wire.pipe[1].login}
         /\ (told'.full = (told.full \/ ~(Cardinality(ctl.early) < MaxEarly))) /\ told'.lost = told.lost
         /\ told'.at = told.at
    BY <1>t, <1>6 DEF Tolds
  <2>g3. /\ tr'.next = tr.next /\ tr'.pending = 0 /\ tr'.failed = tr.failed /\ tr'.closing = tr.closing
         /\ (tr'.retired = IF tr.pending = 0 THEN tr.retired ELSE tr.retired \cup {tr.pending})
    BY <1>6, RetiredFields
  <2>p. Popped(wire.pipe, wire'.pipe) /\ Head(wire.pipe) = wire.pipe[1] /\ 1 \in 1..Len(wire.pipe) /\ FrameKnown(1) /\ VersionOK(1)
    <3>1. wire.pipe \in Seq(Answers \cup Events) /\ wire.pipe # <<>>
      BY <1>t, <2>h DEF Wires
    <3>2. Popped(wire.pipe, Tail(wire.pipe))
      BY <3>1, PoppedSeq
    <3>3. 1 \in 1..Len(wire.pipe) /\ Head(wire.pipe) = wire.pipe[1] /\ wire'.pipe = Tail(wire.pipe)
      BY <3>2, <2>g, <2>g1, <2>g2, <2>g3 DEF Popped
    <3>. QED  BY <3>2, <3>3, <1>d, <1>r DEF IdsInv, OrderInv
  <2>w. tr'.retired \subseteq 1..tr.next /\ Expected \subseteq Expected'
    <3>1. tr.pending # 0 => tr.pending \in 1..tr.next
      BY <1>c, <1>n DEF CallInv, Numbers
    <3>2. tr.retired \subseteq 1..tr.next
      BY <1>d DEF IdsInv
    <3>. QED  BY <3>1, <3>2, <2>g, <2>g1, <2>g2, <2>g3, <2>p DEF Expected
  <2>z. CallInv' /\ LostInv' /\ EarlyInv' /\ CurrentInv'
    BY <1>c, <1>s, <1>e, <1>v, <1>6, <2>g, <2>g1, <2>g2, <2>g3, Invalidated
  <2>1. CallInv'
    BY <2>z
  <2>2. IdsInv' /\ OnceInv' /\ LateInv'
    BY <1>d, <1>n, <2>h, <2>g, <2>g1, <2>g2, <2>g3, <2>p, <2>w, <2>z, PoppedWire DEF IdsInv, Listening, Expected, FrameKnown
  <2>3. OrderInv'
    BY <1>r, <1>n, <2>h, <2>g, <2>g1, <2>g2, <2>g3, <2>p, <2>w, <2>z, PoppedOrder
  <2>4. LostInv'
    BY <2>z
  <2>5. EarlyInv'
    BY <2>z
  <2>6. CurrentInv'
    BY <2>z
  <2>. QED  BY <2>1, <2>2, <2>3, <2>4, <2>5, <2>6 DEF LoginInv
<1>7. ASSUME wire.pipe # <<>>,
             wire.pipe[1].type = "updated",
             ctl.closing \/ ctl.unresolved,
             wire' = [wire EXCEPT !.pipe = Tail(wire.pipe)],
             told' = [told EXCEPT !.ver = wire.pipe[1].ver],
             UNCHANGED <<ctl, task, tr, prov>>
     PROVE  LoginInv'
  <2>h. wire.pipe # <<>> /\ wire.pipe[1].type = "updated" /\ (ctl.closing \/ ctl.unresolved)
    BY <1>7
  <2>g. ctl' = ctl /\ task' = task /\ tr' = tr /\ prov' = prov
    BY <1>7
  <2>g1. /\ wire'.queue = wire.queue /\ wire'.writing = wire.writing /\ wire'.kinds = wire.kinds
         /\ wire'.pipe = Tail(wire.pipe)
    BY <1>t, <1>7 DEF Wires
  <2>g2. /\ told'.ver = wire.pipe[1].ver /\ told'.done = told.done /\ told'.full = told.full /\ told'.lost = told.lost
         /\ told'.at = told.at
    BY <1>t, <1>7 DEF Tolds
  <2>p. Popped(wire.pipe, wire'.pipe) /\ Head(wire.pipe) = wire.pipe[1] /\ 1 \in 1..Len(wire.pipe) /\ FrameKnown(1) /\ VersionOK(1)
    <3>1. wire.pipe \in Seq(Answers \cup Events) /\ wire.pipe # <<>>
      BY <1>t, <2>h DEF Wires
    <3>2. Popped(wire.pipe, Tail(wire.pipe))
      BY <3>1, PoppedSeq
    <3>3. 1 \in 1..Len(wire.pipe) /\ Head(wire.pipe) = wire.pipe[1] /\ wire'.pipe = Tail(wire.pipe)
      BY <3>2, <2>g, <2>g1, <2>g2 DEF Popped
    <3>. QED  BY <3>2, <3>3, <1>d, <1>r DEF IdsInv, OrderInv
  <2>1. CallInv'
    BY <1>c, <1>n, <2>h, <2>g, <2>g1, <2>g2, <2>p DEF CallInv, CallActive, Numbers
  <2>2. IdsInv' /\ OnceInv' /\ LateInv'
    BY <1>d, <1>n, <2>h, <2>g, <2>g1, <2>g2, <2>p, PoppedWire DEF IdsInv, Listening, Expected, FrameKnown
  <2>3. OrderInv'
    BY <1>r, <1>n, <2>h, <2>g, <2>g1, <2>g2, <2>p, PoppedOrder
  <2>4. LostInv'
    BY <1>s, <2>h, <2>g, <2>g1, <2>g2, <2>p DEF LostInv, CallActive, Current, NoLogin
  <2>5. EarlyInv'
    BY <1>e, <1>s, <1>v, <1>c, <1>n, <2>h, <2>g, <2>g1, <2>g2, <2>p DEF EarlyInv, LostInv, CallActive, Current, NoLogin, Numbers, IdsInv, CallInv
  <2>6. CurrentInv'
    BY <1>v, <1>s, <1>n, <2>h, <2>g, <2>g1, <2>g2, <2>p DEF CurrentInv, LostInv, CallActive, Current, Numbers
  <2>. QED  BY <2>1, <2>2, <2>3, <2>4, <2>5, <2>6 DEF LoginInv
<1>8. ASSUME wire.pipe # <<>>,
             wire.pipe[1].type = "updated",
             ~ctl.closing,
             ~ctl.unresolved,
             wire' = [wire EXCEPT !.pipe = Tail(wire.pipe)],
             told' = [told EXCEPT !.ver = wire.pipe[1].ver],
             ctl' = [ctl EXCEPT !.gen = ctl.gen + 1, !.pending = NoLogin, !.state = "unchecked"],
             task' = Aborted(task),
             tr' = Retired(tr),
             UNCHANGED <<prov>>
     PROVE  LoginInv'
  <2>h. wire.pipe # <<>> /\ wire.pipe[1].type = "updated" /\ ~ctl.closing /\ ~ctl.unresolved
    BY <1>8
  <2>g. prov' = prov
    BY <1>8
  <2>g1. /\ wire'.queue = wire.queue /\ wire'.writing = wire.writing /\ wire'.kinds = wire.kinds
         /\ wire'.pipe = Tail(wire.pipe)
    BY <1>t, <1>8 DEF Wires
  <2>g2. /\ told'.ver = wire.pipe[1].ver /\ told'.done = told.done /\ told'.full = told.full /\ told'.lost = told.lost
         /\ told'.at = told.at
    BY <1>t, <1>8 DEF Tolds
  <2>g3. /\ tr'.next = tr.next /\ tr'.pending = 0 /\ tr'.failed = tr.failed /\ tr'.closing = tr.closing
         /\ (tr'.retired = IF tr.pending = 0 THEN tr.retired ELSE tr.retired \cup {tr.pending})
    BY <1>8, RetiredFields
  <2>p. Popped(wire.pipe, wire'.pipe) /\ Head(wire.pipe) = wire.pipe[1] /\ 1 \in 1..Len(wire.pipe) /\ FrameKnown(1) /\ VersionOK(1)
    <3>1. wire.pipe \in Seq(Answers \cup Events) /\ wire.pipe # <<>>
      BY <1>t, <2>h DEF Wires
    <3>2. Popped(wire.pipe, Tail(wire.pipe))
      BY <3>1, PoppedSeq
    <3>3. 1 \in 1..Len(wire.pipe) /\ Head(wire.pipe) = wire.pipe[1] /\ wire'.pipe = Tail(wire.pipe)
      BY <3>2, <2>g, <2>g1, <2>g2, <2>g3 DEF Popped
    <3>. QED  BY <3>2, <3>3, <1>d, <1>r DEF IdsInv, OrderInv
  <2>w. tr'.retired \subseteq 1..tr.next /\ Expected \subseteq Expected'
    <3>1. tr.pending # 0 => tr.pending \in 1..tr.next
      BY <1>c, <1>n DEF CallInv, Numbers
    <3>2. tr.retired \subseteq 1..tr.next
      BY <1>d DEF IdsInv
    <3>. QED  BY <3>1, <3>2, <2>g, <2>g1, <2>g2, <2>g3, <2>p DEF Expected
  <2>z. CallInv' /\ LostInv' /\ EarlyInv' /\ CurrentInv'
    BY <1>c, <1>s, <1>e, <1>v, <1>8, <2>g, <2>g1, <2>g2, <2>g3, Invalidated
  <2>1. CallInv'
    BY <2>z
  <2>2. IdsInv' /\ OnceInv' /\ LateInv'
    BY <1>d, <1>n, <2>h, <2>g, <2>g1, <2>g2, <2>g3, <2>p, <2>w, <2>z, PoppedWire DEF IdsInv, Listening, Expected, FrameKnown
  <2>3. OrderInv'
    BY <1>r, <1>n, <2>h, <2>g, <2>g1, <2>g2, <2>g3, <2>p, <2>w, <2>z, PoppedOrder
  <2>4. LostInv'
    BY <2>z
  <2>5. EarlyInv'
    BY <2>z
  <2>6. CurrentInv'
    BY <2>z
  <2>. QED  BY <2>1, <2>2, <2>3, <2>4, <2>5, <2>6 DEF LoginInv
<1>10. wire.pipe # <<>> /\ Head(wire.pipe) = wire.pipe[1] /\ wire' = [wire EXCEPT !.pipe = Tail(wire.pipe)] /\ prov' = prov
      /\ wire.pipe[1].type \in {"answer", "completed", "updated"}
  <2>1. wire.pipe \in Seq(Answers \cup Events) /\ wire.pipe # <<>>
    BY <1>t DEF Wires, Receive
  <2>2. Popped(wire.pipe, Tail(wire.pipe)) /\ wire.pipe[1] \in Answers \cup Events
    BY <2>1, PoppedSeq
  <2>. QED  BY <2>1, <2>2 DEF Popped, Receive, Answers, Events
<1>11. CASE wire.pipe[1].type = "answer"
  <2>1. ReceiveAnswer(wire.pipe[1])
    BY <1>10, <1>11 DEF Receive
  <2>2. CASE wire.pipe[1].id \in tr.retired
    BY <1>1, <1>10, <1>11, <2>1, <2>2 DEF ReceiveAnswer
  <2>3. CASE wire.pipe[1].id \notin tr.retired /\ wire.pipe[1].id = tr.pending
    BY <1>2, <1>10, <1>11, <2>1, <2>3 DEF ReceiveAnswer
  <2>4. CASE wire.pipe[1].id \notin tr.retired /\ wire.pipe[1].id # tr.pending
    BY <1>3, <1>10, <1>11, <2>1, <2>4 DEF ReceiveAnswer
  <2>. QED  BY <2>2, <2>3, <2>4
<1>12. CASE wire.pipe[1].type \in {"completed", "updated"}
  <2> DEFINE e == wire.pipe[1]
  <2>1. ReceiveEvent(e)
    BY <1>10, <1>12 DEF Receive
  <2>2. ctl' = OnEvent(ctl, e)
    BY <2>1 DEF ReceiveEvent
  <2>3. ctl'.gen = ctl.gen => task' = task /\ tr' = tr
    BY <2>1 DEF ReceiveEvent
  <2>4. ctl'.gen # ctl.gen => task' = Aborted(task) /\ tr' = Retired(tr)
    BY <2>1 DEF ReceiveEvent
  <2>5. e.type = "updated" => told' = [told EXCEPT !.ver = e.ver]
    BY <2>1 DEF ReceiveEvent
  <2>6. e.type = "completed" => told' = [told EXCEPT !.done = told.done \cup {e.login},
                                            !.full = told.full \/ ~(Cardinality(ctl.early) < MaxEarly)]
    BY <2>1 DEF ReceiveEvent
  <2>7. CASE ctl' = ctl /\ (ctl.closing \/ ctl.unresolved)
    BY <1>4, <1>7, <1>10, <1>12, <2>3, <2>5, <2>6, <2>7
  <2>8. CASE /\ ~ctl.closing /\ ~ctl.unresolved /\ e.type = "completed" /\ ctl.pending = NoLogin /\ ctl.dispatch
             /\ ctl' = IF Cardinality(ctl.early) < MaxEarly THEN [ctl EXCEPT !.early = ctl.early \cup {e.login}] ELSE ctl
    <3>1. ctl'.gen = ctl.gen
      BY <2>8, <1>t DEF Controllers
    <3>. QED  BY <1>5, <1>10, <2>3, <2>6, <2>8, <3>1
  <2>9. CASE /\ ~ctl.closing /\ ~ctl.unresolved /\ e.type = "completed" /\ ~(ctl.pending = NoLogin /\ ctl.dispatch)
             /\ ctl.pending # e.login /\ ctl' = ctl
    BY <1>4, <1>10, <2>3, <2>6, <2>9
  <2>10. CASE /\ ~ctl.closing /\ ~ctl.unresolved
              /\ ctl' = [ctl EXCEPT !.gen = ctl.gen + 1, !.pending = NoLogin, !.state = "unchecked"]
    <3>1. ctl'.gen = ctl.gen + 1 /\ ctl.gen \in Nat
      BY <2>10, <1>t DEF Controllers
    <3>2. ctl'.gen # ctl.gen
      BY <3>1
    <3>. QED  BY <1>6, <1>8, <1>10, <1>12, <2>4, <2>5, <2>6, <2>10, <3>2
  <2>. QED  BY <1>12, <2>2, <2>7, <2>8, <2>9, <2>10, EventCases
<1>. QED  BY <1>10, <1>11, <1>12

LEMMA ProviderAnswersKeeps ==
  ASSUME AccountTypeOK, LoginInv, NEW id \in 1..tr.next, ProviderAnswers(id)
  PROVE  LoginInv'
<1>t. /\ ctl \in Controllers /\ tr \in Transports /\ wire \in Wires /\ prov \in Providers /\ told \in Tolds
      /\ task # NoTask => task \in Operations
  BY DEF AccountTypeOK
<1>n. Numbers
  BY NumbersTyped
<1>d. IdsInv /\ OnceInv /\ LateInv
  BY DEF LoginInv
<1>c. CallInv
  BY DEF LoginInv
<1>r. OrderInv
  BY DEF LoginInv
<1>s. LostInv
  BY DEF LoginInv
<1>e. EarlyInv
  BY DEF LoginInv
<1>v. CurrentInv
  BY DEF LoginInv
<1>1. ASSUME NEW f,
             f = [type |-> "answer", id |-> id, login |-> IF wire.kinds[id] = "login" THEN id ELSE NoLogin,
                  signed |-> wire.kinds[id] = "check" /\ prov.signed, ver |-> prov.ver],
             id \in prov.asked,
             wire' = [wire EXCEPT !.pipe = Append(wire.pipe, f)],
             prov' = [prov EXCEPT !.asked = prov.asked \ {id}],
             UNCHANGED <<ctl, task, tr, told>>
     PROVE  LoginInv'
  <2>h. /\ (f = [type |-> "answer", id |-> id, login |-> IF wire.kinds[id] = "login" THEN id ELSE NoLogin,
                  signed |-> wire.kinds[id] = "check" /\ prov.signed, ver |-> prov.ver])
        /\ id \in prov.asked
    BY <1>1
  <2>g. ctl' = ctl /\ task' = task /\ tr' = tr /\ told' = told
    BY <1>1
  <2>g1. /\ wire'.queue = wire.queue /\ wire'.writing = wire.writing /\ wire'.kinds = wire.kinds
         /\ wire'.pipe = Append(wire.pipe, f)
    BY <1>t, <1>1 DEF Wires
  <2>g2. prov'.ver = prov.ver /\ prov'.asked = prov.asked \ {id} /\ prov'.logins = prov.logins
    BY <1>t, <1>1 DEF Providers
  <2>p. Pushed(wire.pipe, wire'.pipe, f)
    <3>1. f \in Answers \cup Events
      BY <2>h, <1>t DEF Answers, Providers, NoLogin
    <3>2. wire.pipe \in Seq(Answers \cup Events)
      BY <1>t DEF Wires
    <3>3. Pushed(wire.pipe, Append(wire.pipe, f), f)
      BY <3>1, <3>2, PushedSeq
    <3>. QED  BY <3>3, <2>g, <2>g1, <2>g2
  <2>f. f.type = "answer" /\ f.id = id /\ f.ver = prov.ver /\ (wire.kinds[id] = "login" => f.login = f.id)
    BY <2>h
  <2>1. CallInv'
    BY <1>c, <1>s, <1>e, <1>v, <2>h, <2>g, <2>g1, <2>g2, <2>p, <2>f, SameControl DEF LostInv
  <2>2. IdsInv' /\ OnceInv' /\ LateInv'
    BY <1>d, <1>n, <2>h, <2>g, <2>g1, <2>g2, <2>p, <2>f, PrintedWire DEF Numbers
  <2>3. OrderInv'
    <3>1. told'.ver = told.ver /\ prov'.ver \in Nat /\ prov.ver <= prov'.ver /\ (f.type \in {"answer", "updated"} => f.ver = prov'.ver)
      BY <1>n, <2>h, <2>g, <2>g1, <2>g2, <2>p, <2>f DEF Numbers
    <3>. QED  BY <1>r, <1>n, <2>p, <3>1, PushedOrder
  <2>4. LostInv'
    BY <1>c, <1>s, <1>e, <1>v, <2>h, <2>g, <2>g1, <2>g2, <2>p, <2>f, SameControl DEF LostInv
  <2>5. EarlyInv'
    BY <1>c, <1>s, <1>e, <1>v, <2>h, <2>g, <2>g1, <2>g2, <2>p, <2>f, SameControl DEF LostInv
  <2>6. CurrentInv'
    BY <1>c, <1>s, <1>e, <1>v, <2>h, <2>g, <2>g1, <2>g2, <2>p, <2>f, SameControl DEF LostInv
  <2>. QED  BY <2>1, <2>2, <2>3, <2>4, <2>5, <2>6 DEF LoginInv
<1>. QED
  BY <1>1 DEF ProviderAnswers, Prints

LEMMA ProviderCompletesKeeps ==
  ASSUME AccountTypeOK, LoginInv, NEW id \in 1..tr.next, ProviderCompletes(id)
  PROVE  LoginInv'
<1>t. /\ ctl \in Controllers /\ tr \in Transports /\ wire \in Wires /\ prov \in Providers /\ told \in Tolds
      /\ task # NoTask => task \in Operations
  BY DEF AccountTypeOK
<1>n. Numbers
  BY NumbersTyped
<1>d. IdsInv /\ OnceInv /\ LateInv
  BY DEF LoginInv
<1>c. CallInv
  BY DEF LoginInv
<1>r. OrderInv
  BY DEF LoginInv
<1>s. LostInv
  BY DEF LoginInv
<1>e. EarlyInv
  BY DEF LoginInv
<1>v. CurrentInv
  BY DEF LoginInv
<1>1. ASSUME NEW f,
             f = [type |-> "completed", login |-> id],
             id \in prov.logins,
             wire' = [wire EXCEPT !.pipe = Append(wire.pipe, f)],
             prov' = [prov EXCEPT !.logins = prov.logins \ {id}],
             UNCHANGED <<ctl, task, tr, told>>
     PROVE  LoginInv'
  <2>h. f = [type |-> "completed", login |-> id] /\ id \in prov.logins
    BY <1>1
  <2>g. ctl' = ctl /\ task' = task /\ tr' = tr /\ told' = told
    BY <1>1
  <2>g1. /\ wire'.queue = wire.queue /\ wire'.writing = wire.writing /\ wire'.kinds = wire.kinds
         /\ wire'.pipe = Append(wire.pipe, f)
    BY <1>t, <1>1 DEF Wires
  <2>g2. prov'.ver = prov.ver /\ prov'.asked = prov.asked /\ prov'.logins = prov.logins \ {id}
    BY <1>t, <1>1 DEF Providers
  <2>p. Pushed(wire.pipe, wire'.pipe, f)
    <3>1. f \in Answers \cup Events
      BY <2>h, <1>n DEF Events, Numbers
    <3>2. wire.pipe \in Seq(Answers \cup Events)
      BY <1>t DEF Wires
    <3>3. Pushed(wire.pipe, Append(wire.pipe, f), f)
      BY <3>1, <3>2, PushedSeq
    <3>. QED  BY <3>3, <2>g, <2>g1, <2>g2
  <2>f. f.type = "completed" /\ f.login = id /\ id \in 1..tr.next
    BY <2>h
  <2>1. CallInv'
    BY <1>c, <1>s, <1>e, <1>v, <2>h, <2>g, <2>g1, <2>g2, <2>p, <2>f, SameControl DEF LostInv
  <2>2. IdsInv' /\ OnceInv' /\ LateInv'
    BY <1>d, <1>n, <2>h, <2>g, <2>g1, <2>g2, <2>p, <2>f, PrintedWire DEF Numbers
  <2>3. OrderInv'
    <3>1. told'.ver = told.ver /\ prov'.ver \in Nat /\ prov.ver <= prov'.ver /\ (f.type \in {"answer", "updated"} => f.ver = prov'.ver)
      BY <1>n, <2>h, <2>g, <2>g1, <2>g2, <2>p, <2>f DEF Numbers
    <3>. QED  BY <1>r, <1>n, <2>p, <3>1, PushedOrder
  <2>4. LostInv'
    BY <1>c, <1>s, <1>e, <1>v, <2>h, <2>g, <2>g1, <2>g2, <2>p, <2>f, SameControl DEF LostInv
  <2>5. EarlyInv'
    BY <1>c, <1>s, <1>e, <1>v, <2>h, <2>g, <2>g1, <2>g2, <2>p, <2>f, SameControl DEF LostInv
  <2>6. CurrentInv'
    BY <1>c, <1>s, <1>e, <1>v, <2>h, <2>g, <2>g1, <2>g2, <2>p, <2>f, SameControl DEF LostInv
  <2>. QED  BY <2>1, <2>2, <2>3, <2>4, <2>5, <2>6 DEF LoginInv
<1>. QED
  BY <1>1 DEF ProviderCompletes, Prints

LEMMA ProviderChangesKeeps ==
  ASSUME AccountTypeOK, LoginInv, ProviderChanges
  PROVE  LoginInv'
<1>t. /\ ctl \in Controllers /\ tr \in Transports /\ wire \in Wires /\ prov \in Providers /\ told \in Tolds
      /\ task # NoTask => task \in Operations
  BY DEF AccountTypeOK
<1>n. Numbers
  BY NumbersTyped
<1>d. IdsInv /\ OnceInv /\ LateInv
  BY DEF LoginInv
<1>c. CallInv
  BY DEF LoginInv
<1>r. OrderInv
  BY DEF LoginInv
<1>s. LostInv
  BY DEF LoginInv
<1>e. EarlyInv
  BY DEF LoginInv
<1>v. CurrentInv
  BY DEF LoginInv
<1>1. ASSUME NEW f,
             f = [type |-> "updated", ver |-> prov.ver + 1],
             wire' = [wire EXCEPT !.pipe = Append(wire.pipe, f)],
             prov' = [prov EXCEPT !.ver = prov.ver + 1, !.signed = ~prov.signed],
             UNCHANGED <<ctl, task, tr, told>>
     PROVE  LoginInv'
  <2>h. f = [type |-> "updated", ver |-> prov.ver + 1]
    BY <1>1
  <2>g. ctl' = ctl /\ task' = task /\ tr' = tr /\ told' = told
    BY <1>1
  <2>g1. /\ wire'.queue = wire.queue /\ wire'.writing = wire.writing /\ wire'.kinds = wire.kinds
         /\ wire'.pipe = Append(wire.pipe, f)
    BY <1>t, <1>1 DEF Wires
  <2>g2. prov'.ver = prov.ver + 1 /\ prov'.asked = prov.asked /\ prov'.logins = prov.logins
    BY <1>t, <1>1 DEF Providers
  <2>p. Pushed(wire.pipe, wire'.pipe, f)
    <3>1. f \in Answers \cup Events
      <4>1. prov.ver + 1 \in Nat
        BY <1>n DEF Numbers
      <4>. QED  BY <4>1, <2>h DEF Events
    <3>2. wire.pipe \in Seq(Answers \cup Events)
      BY <1>t DEF Wires
    <3>3. Pushed(wire.pipe, Append(wire.pipe, f), f)
      BY <3>1, <3>2, PushedSeq
    <3>. QED  BY <3>3, <2>g, <2>g1, <2>g2
  <2>f. f.type = "updated" /\ f.ver = prov.ver + 1 /\ prov.ver + 1 \in Nat /\ prov.ver <= prov.ver + 1
    BY <2>h, <1>n DEF Numbers
  <2>1. CallInv'
    BY <1>c, <1>s, <1>e, <1>v, <2>h, <2>g, <2>g1, <2>g2, <2>p, <2>f, SameControl DEF LostInv
  <2>2. IdsInv' /\ OnceInv' /\ LateInv'
    BY <1>d, <1>n, <2>h, <2>g, <2>g1, <2>g2, <2>p, <2>f, PrintedWire DEF Numbers
  <2>3. OrderInv'
    <3>1. told'.ver = told.ver /\ prov'.ver \in Nat /\ prov.ver <= prov'.ver /\ (f.type \in {"answer", "updated"} => f.ver = prov'.ver)
      BY <1>n, <2>h, <2>g, <2>g1, <2>g2, <2>p, <2>f DEF Numbers
    <3>. QED  BY <1>r, <1>n, <2>p, <3>1, PushedOrder
  <2>4. LostInv'
    BY <1>c, <1>s, <1>e, <1>v, <2>h, <2>g, <2>g1, <2>g2, <2>p, <2>f, SameControl DEF LostInv
  <2>5. EarlyInv'
    BY <1>c, <1>s, <1>e, <1>v, <2>h, <2>g, <2>g1, <2>g2, <2>p, <2>f, SameControl DEF LostInv
  <2>6. CurrentInv'
    BY <1>c, <1>s, <1>e, <1>v, <2>h, <2>g, <2>g1, <2>g2, <2>p, <2>f, SameControl DEF LostInv
  <2>. QED  BY <2>1, <2>2, <2>3, <2>4, <2>5, <2>6 DEF LoginInv
<1>. QED
  BY <1>1 DEF ProviderChanges, Prints

LEMMA ProviderExitsKeeps ==
  ASSUME AccountTypeOK, LoginInv, ProviderExits
  PROVE  LoginInv'
<1>t. /\ ctl \in Controllers /\ tr \in Transports /\ wire \in Wires /\ prov \in Providers /\ told \in Tolds
      /\ task # NoTask => task \in Operations
  BY DEF AccountTypeOK
<1>n. Numbers
  BY NumbersTyped
<1>d. IdsInv /\ OnceInv /\ LateInv
  BY DEF LoginInv
<1>c. CallInv
  BY DEF LoginInv
<1>r. OrderInv
  BY DEF LoginInv
<1>s. LostInv
  BY DEF LoginInv
<1>e. EarlyInv
  BY DEF LoginInv
<1>v. CurrentInv
  BY DEF LoginInv
<1>1. ASSUME prov' = [prov EXCEPT !.alive = FALSE, !.asked = {}, !.logins = {}],
             UNCHANGED <<ctl, task, tr, wire, told>>
     PROVE  LoginInv'
  <2>g. ctl' = ctl /\ task' = task /\ tr' = tr /\ wire' = wire /\ told' = told
    BY <1>1
  <2>g1. prov'.ver = prov.ver /\ prov'.asked = {} /\ prov'.logins = {}
    BY <1>t, <1>1 DEF Providers
  <2>1. CallInv'
    BY <1>c, <1>s, <1>e, <1>v, <2>g, <2>g1, SameControl DEF LostInv
  <2>2. IdsInv' /\ OnceInv' /\ LateInv'
    BY <1>d, <1>n, SameWire, <2>g, <2>g1 DEF IdsInv, Listening, Expected
  <2>3. OrderInv'
    BY <1>r, SameOrder, <2>g, <2>g1
  <2>4. LostInv'
    BY <1>c, <1>s, <1>e, <1>v, <2>g, <2>g1, SameControl DEF LostInv
  <2>5. EarlyInv'
    BY <1>c, <1>s, <1>e, <1>v, <2>g, <2>g1, SameControl DEF LostInv
  <2>6. CurrentInv'
    BY <1>c, <1>s, <1>e, <1>v, <2>g, <2>g1, SameControl DEF LostInv
  <2>. QED  BY <2>1, <2>2, <2>3, <2>4, <2>5, <2>6 DEF LoginInv
<1>. QED
  BY <1>1 DEF ProviderExits

LEMMA RunCallKeeps ==
  ASSUME AccountTypeOK, LoginInv, NEW kind \in {"check", "login", "cancel", "logout"}, RunCall(kind)
  PROVE  LoginInv'
<1>t. /\ ctl \in Controllers /\ tr \in Transports /\ wire \in Wires /\ prov \in Providers /\ told \in Tolds
      /\ task # NoTask => task \in Operations
  BY DEF AccountTypeOK
<1>n. Numbers
  BY NumbersTyped
<1>d. IdsInv /\ OnceInv /\ LateInv
  BY DEF LoginInv
<1>c. CallInv
  BY DEF LoginInv
<1>r. OrderInv
  BY DEF LoginInv
<1>s. LostInv
  BY DEF LoginInv
<1>e. EarlyInv
  BY DEF LoginInv
<1>v. CurrentInv
  BY DEF LoginInv
<1>1. ASSUME ~ctl.closing,
             ctl.state \notin {"closed", "recovery-required"},
             ~CallActive,
             kind = "login" => ctl.pending = NoLogin,
             ctl' = [ctl EXCEPT !.gen = ctl.gen + 1, !.state = "unchecked"],
             task' = Operation(kind, ctl.gen + 1),
             UNCHANGED <<tr, prov>> \/ (tr' = [tr EXCEPT !.made = TRUE] /\ prov' = [prov EXCEPT !.alive = TRUE]),
             UNCHANGED <<wire, told>>
     PROVE  LoginInv'
  <2>h. /\ ~ctl.closing /\ ctl.state \notin {"closed", "recovery-required"} /\ ~CallActive
        /\ (kind = "login" => ctl.pending = NoLogin)
    BY <1>1
  <2>g. wire' = wire /\ told' = told
    BY <1>1
  <2>g1. /\ ctl'.gen = ctl.gen + 1 /\ ctl'.pending = ctl.pending /\ ctl'.state = "unchecked" /\ ctl'.basis = ctl.basis
         /\ ctl'.dispatch = ctl.dispatch /\ ctl'.unresolved = ctl.unresolved /\ ctl'.early = ctl.early
         /\ ctl'.closing = ctl.closing /\ ctl'.close = ctl.close
    BY <1>t, <1>1 DEF Controllers
  <2>g2. /\ task' # NoTask /\ task'.kind = kind /\ task'.gen = ctl.gen + 1 /\ task'.step = "queued"
         /\ task'.aborted = FALSE /\ task'.returned = FALSE /\ task'.settled = FALSE /\ task'.dispatched = FALSE
    BY <1>1 DEF Operation, NoTask
  <2>g3. /\ tr'.failed = tr.failed /\ tr'.closing = tr.closing /\ tr'.next = tr.next /\ tr'.pending = tr.pending
         /\ tr'.retired = tr.retired /\ prov'.ver = prov.ver /\ prov'.asked = prov.asked /\ prov'.logins = prov.logins
    BY <1>t, <1>1 DEF Transports, Providers
  <2>1. CallInv'
    BY <1>c, <1>n, <2>h, <2>g, <2>g1, <2>g2, <2>g3 DEF CallInv, CallActive, Numbers
  <2>2. IdsInv' /\ OnceInv' /\ LateInv'
    BY <1>d, <1>n, SameWire, <2>h, <2>g, <2>g1, <2>g2, <2>g3 DEF IdsInv, Listening, Expected
  <2>3. OrderInv'
    BY <1>r, SameOrder, <2>h, <2>g, <2>g1, <2>g2, <2>g3
  <2>4. LostInv'
    BY <1>s, <2>h, <2>g, <2>g1, <2>g2, <2>g3 DEF LostInv, CallActive, Current, NoLogin
  <2>5. EarlyInv'
    BY <1>e, <1>s, <1>v, <1>c, <1>n, <2>h, <2>g, <2>g1, <2>g2, <2>g3 DEF EarlyInv, LostInv, CallActive, Current, NoLogin, Numbers, IdsInv, CallInv
  <2>6. CurrentInv'
    BY <1>v, <1>s, <1>n, <2>h, <2>g, <2>g1, <2>g2, <2>g3 DEF CurrentInv, LostInv, CallActive, Current, Numbers
  <2>. QED  BY <2>1, <2>2, <2>3, <2>4, <2>5, <2>6 DEF LoginInv
<1>. QED
  BY <1>1 DEF RunCall, CanRun, Invalidate

LEMMA InitLogin == AccountInit => LoginInv
<1> SUFFICES ASSUME AccountInit PROVE LoginInv
  OBVIOUS
<1>1. /\ task = NoTask /\ tr.pending = 0 /\ tr.next = 0 /\ tr.retired = {} /\ ctl.gen = 1 /\ ctl.pending = NoLogin
      /\ ctl.state = "unchecked" /\ ~ctl.unresolved /\ ~ctl.closing /\ ctl.close = "none"
      /\ told.ver = 0 /\ told.done = {} /\ ~told.lost /\ wire.queue = <<>> /\ wire.writing = 0 /\ wire.pipe = <<>>
  BY DEF AccountInit
<1>2. prov.ver = 0 /\ prov.asked = {} /\ prov.logins = {}
  BY DEF AccountInit
<1>3. Len(<<>>) = 0 /\ 1..0 = {} /\ (\A n : ~AnswerIn(<<>>, n) /\ ~Waits(<<>>, n)) /\ ~CallActive
  BY <1>1, NothingWaits DEF CallActive
<1>4. CallInv /\ IdsInv /\ OnceInv /\ LateInv /\ OrderInv
  BY <1>1, <1>2, <1>3 DEF CallInv, IdsInv, OnceInv, LateInv, OrderInv
<1>5. LostInv /\ EarlyInv /\ CurrentInv
  BY <1>1, <1>2, <1>3 DEF LostInv, EarlyInv, CurrentInv
<1>. QED  BY <1>4, <1>5 DEF LoginInv

LEMMA LoginStep == AccountTypeOK /\ LoginInv /\ [AccountNext]_accountVars => LoginInv'
<1> SUFFICES ASSUME AccountTypeOK, LoginInv, [AccountNext]_accountVars PROVE LoginInv'
  OBVIOUS
<1>1. CASE UNCHANGED accountVars
  <2>1. IdsInv' /\ OnceInv' /\ LateInv'
    BY <1>1, SameWire DEF accountVars, LoginInv, IdsInv, Listening, Expected
  <2>2. OrderInv'
    BY <1>1, SameOrder DEF accountVars, LoginInv
  <2>3. CallInv' /\ LostInv' /\ EarlyInv' /\ CurrentInv'
    BY <1>1, SameControl DEF accountVars, LoginInv, LostInv
  <2>. QED  BY <2>1, <2>2, <2>3 DEF LoginInv
<1>2. CASE ControllerStep
  BY <1>2, DispatchKeeps, SendKeeps, ContinueKeeps, FailTransportKeeps, AnswerCallerKeeps DEF ControllerStep
<1>3. CASE TransportStep
  BY <1>3, InitializeKeeps, AccountWriteKeeps, ReceiveKeeps, AttemptEndsKeeps, StopSettlesKeeps DEF TransportStep
<1>4. CASE CloseStep
  <2>1. CASE CloseStarts
    BY <2>1, CloseStartsKeeps
  <2>2. CASE CloseReleases
    BY <2>2, CloseReleasesKeeps
  <2>3. CASE CloseUnproven
    BY <2>3, CloseUnprovenKeeps
  <2>. QED  BY <1>4, <2>1, <2>2, <2>3 DEF CloseStep
<1>5. CASE RunRefused \/ TimeOut \/ CloseAccount \/ FinishWrite \/ Disconnect \/ ProviderChanges \/ ProviderExits
  BY <1>5, RunRefusedKeeps, TimeOutKeeps, CloseAccountKeeps, FinishWriteKeeps, DisconnectKeeps, ProviderChangesKeeps, ProviderExitsKeeps
<1>6. ASSUME NEW kind \in {"check", "login", "cancel", "logout"}, RunCall(kind) PROVE LoginInv'
  BY <1>6, RunCallKeeps
<1>7. ASSUME NEW id \in 1..tr.next, ProviderAnswers(id) \/ ProviderCompletes(id) PROVE LoginInv'
  BY <1>7, ProviderAnswersKeeps, ProviderCompletesKeeps
<1>. QED  BY <1>1, <1>2, <1>3, <1>4, <1>5, <1>6, <1>7 DEF AccountNext

LEMMA LoginInvariant == AccountSpec => [](Numbers /\ LoginInv)
<1>1. AccountTypeOK => Numbers
  BY NumbersTyped
<1>. QED  BY InitLogin, LoginStep, AccountTypes, <1>1, PTL DEF AccountSpec

\* A published sign-in rests on an answer no older than the last change the
\* controller was told of, however late an answer comes and however the calls
\* interleave (managed-account.ts: onEvent, assertCurrent; codex-account.ts: read).
THEOREM SignedInCurrent == AccountSpec => []SignedInIsCurrent
<1>1. Numbers /\ LoginInv => SignedInIsCurrent
  BY DEF Numbers, LoginInv, CurrentInv, SignedInIsCurrent
<1>. QED  BY LoginInvariant, <1>1, PTL

\* After a lost login no request reaches the provider, and a login is not left
\* pending once its completion was delivered, while no more completions came first
\* than the controller keeps (managed-account.ts: startLogin, onEvent).
THEOREM LoginsAreTracked == AccountSpec => []LoginsTracked
<1>1. Numbers /\ LoginInv => LoginsTracked
  <2> SUFFICES ASSUME Numbers, LoginInv PROVE LoginsTracked
    OBVIOUS
  <2>1. ASSUME told.lost, NEW id \in prov.asked PROVE id <= told.at
    <3>1. id \in 1..tr.next /\ told.at = tr.next /\ tr.next \in Nat
      BY <2>1 DEF LoginInv, IdsInv, LostInv, Numbers
    <3>. QED  BY <3>1
  <2>2. ctl.pending # NoLogin /\ ~told.full => ctl.pending \notin told.done
    BY DEF LoginInv, EarlyInv
  <2>. QED  BY <2>1, <2>2 DEF LoginsTracked
<1>. QED  BY LoginInvariant, <1>1, PTL

\* The answer to a request that was given up is never taken for a violation of
\* the protocol (codex-account-transport.ts: rpc, receive).
THEOREM LateAnswersAreKnown == AccountSpec => []LateAnswersKnown
<1>1. AccountTypeOK /\ LoginInv => LateAnswersKnown
  <2> SUFFICES ASSUME AccountTypeOK, LoginInv, Listening, wire.pipe # <<>>, Head(wire.pipe).type = "answer"
               PROVE  Head(wire.pipe).id \in tr.retired \cup {tr.pending}
    BY DEF LateAnswersKnown
  <2>1. wire.pipe \in Seq(Answers \cup Events)
    BY DEF AccountTypeOK, Wires
  <2>2. 1 \in 1..Len(wire.pipe) /\ Head(wire.pipe) = wire.pipe[1]
    BY <2>1, PoppedSeq DEF Popped
  <2>3. FrameKnown(1) /\ AnswerIn(wire.pipe, wire.pipe[1].id)
    BY <2>2 DEF LoginInv, IdsInv, AnswerIn
  <2>4. wire.pipe[1].id \in 1..tr.next
    BY <2>2, <2>3 DEF FrameKnown
  <2>. QED  BY <2>2, <2>3, <2>4 DEF LoginInv, LateInv, Expected
<1>. QED  BY LoginInvariant, AccountTypes, <1>1, PTL
=============================================================================
