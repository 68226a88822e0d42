---------------------------- MODULE CliWorkspace ----------------------------
(* The write port of the TypeScript command line (src/src/cli/workspace.ts)   *)
(* and the lock its writers take (src/src/cli/write-coordination.ts).         *)
(* One file of one workspace.  A revision names one version of the file: the  *)
(* port hashes device, inode, size and modification time, and every rename    *)
(* installs a new inode, so versions are numbered and never reused.           *)
(* A writer is one call of workspace.write.  Writers of one process wait in a *)
(* queue, the heads of the queues compete for an SQLite lock, and an editor   *)
(* outside the port obeys neither.                                            *)
EXTENDS Naturals, Sequences, FiniteSets

CONSTANTS
    Writers,        \* calls of the write tool
    Home,           \* [Writers -> processes]: where each call runs
    MaxVersion,     \* bound: versions of the file
    QueueLimit      \* 128 in the code

Absent == 0         \* no file; expectedRevision null names it
Free == "free"

ASSUME WorkspaceAssumption ==
    /\ IsFiniteSet(Writers) /\ Free \notin Writers
    /\ MaxVersion \in Nat
    /\ QueueLimit \in Nat \ {0}

VARIABLES
    file,       \* the version at the target path
    made,       \* versions given out so far
    foreign,    \* versions an editor outside the port wrote
    pc,         \* where each writer stands
    wants,      \* the expectedRevision of each writer
    queue,      \* the chain of tickets of each process, whose tail is awaited
    count,      \* the count that the newest ticket of each process carries
    sqlite,     \* the writer whose transaction holds the lock, or Free
    temps,      \* writers whose staged file is in the directory
    twin,       \* the version that is also each writer's staged file, or Absent
    replaced    \* observer: what each writer's rename or link replaced

targetVars == <<file, made, foreign>>
ticketVars == <<queue, count>>
workspaceVars == <<targetVars, pc, wants, ticketVars, sqlite, temps, twin, replaced>>

Processes == {Home[w] : w \in Writers}
Ends == {"done", "failed", "dead"}
InLine == {"queued", "locked", "staged", "checked", "linked", "placed"}

\* Version 1 is a file that is there before the port is, or no file is.
CliWorkspaceInit ==
    /\ file \in {Absent, 1} /\ made = 1 /\ foreign = {}
    /\ pc = [w \in Writers |-> "idle"]
    /\ wants = [w \in Writers |-> Absent]
    /\ queue = [p \in Processes |-> <<>>]
    /\ count = [p \in Processes |-> 0]
    /\ sqlite = Free /\ temps = {}
    /\ twin = [w \in Writers |-> Absent]
    /\ replaced = [w \in Writers |-> {}]

Goto(w, l) == pc' = [pc EXCEPT ![w] = l]

\* A file with two names is nobody's to read or to write.
Single == \A w \in Writers : file # Absent => twin[w] # file

\* readRevision: the caller reads the text and the revision of one open handle.
\* Its write comes later, when the file may be another one.
ReadRevision(w) ==
    /\ pc[w] = "idle" /\ Single
    /\ wants' = [wants EXCEPT ![w] = file]
    /\ Goto(w, "read")
    /\ UNCHANGED <<targetVars, ticketVars, sqlite, temps, twin, replaced>>

\* withWorkspaceWriteLock: the call takes a ticket behind the last one of its
\* process, or is refused by the count that one carries.
TakeTicket(w) ==
    /\ pc[w] = "read"
    /\ LET p == Home[w] IN
         IF count[p] >= QueueLimit
         THEN Goto(w, "failed") /\ UNCHANGED ticketVars
         ELSE /\ Goto(w, "queued")
              /\ queue' = [queue EXCEPT ![p] = Append(@, w)]
              /\ count' = [count EXCEPT ![p] = @ + 1]
    /\ UNCHANGED <<targetVars, wants, sqlite, temps, twin, replaced>>

\* Every earlier ticket of the chain has opened its gate.  A waiter that gave up
\* has opened its own, and so holds nobody back that it did not wait for itself.
MyTurn(w) ==
    LET q == queue[Home[w]] IN
    \A i \in 1 .. Len(q) : q[i] = w \/ pc[q[i]] \in Ends \/ (\E j \in 1 .. i : q[j] = w)

\* Mutant: only the queue of the process orders its writers.
QueueIsEnough == TRUE

\* BEGIN IMMEDIATE on the database of this workspace.
LockFree == sqlite = Free

BeginImmediate(w) ==
    /\ pc[w] = "queued" /\ MyTurn(w) /\ LockFree
    /\ sqlite' = w
    /\ Goto(w, "locked")
    /\ UNCHANGED <<targetVars, wants, ticketVars, temps, twin, replaced>>

\* The finally of withWorkspaceWriteLock: roll back, open the gate, and take one
\* from the count of the newest ticket.  A chain whose gates are all open is
\* forgotten, with its count.
Leave(w, l) ==
    /\ Goto(w, l)
    /\ sqlite' = IF sqlite = w THEN Free ELSE sqlite
    /\ LET p == Home[w]
           open == \A i \in 1 .. Len(queue[p]) : queue[p][i] = w \/ pc[queue[p][i]] \in Ends
       IN  /\ queue' = [queue EXCEPT ![p] = IF open THEN <<>> ELSE @]
           /\ count' = [count EXCEPT ![p] = IF open THEN 0 ELSE @ - 1]

\* Mutant: a waiter that gives up is still counted.
GivesUpUncounted(w) ==
    /\ pc[w] = "queued"
    /\ Goto(w, "failed")
    /\ UNCHANGED <<targetVars, wants, ticketVars, sqlite, temps, twin, replaced>>

\* The five seconds of WAIT_MS end before the turn or the lock comes, or the
\* files of the lock are not what they should be.
WriterBusy(w) ==
    /\ pc[w] = "queued"
    /\ Leave(w, "failed")
    /\ UNCHANGED <<targetVars, wants, temps, twin, replaced>>

\* check: the file is still the one the caller read, or is still absent.
CheckOK(w) == file = wants[w] /\ Single

Stage(w) ==
    /\ pc[w] = "locked"
    /\ IF CheckOK(w)
       THEN Goto(w, "staged") /\ temps' = temps \cup {w} /\ UNCHANGED <<sqlite, ticketVars>>
       ELSE Leave(w, "failed") /\ UNCHANGED temps
    /\ UNCHANGED <<targetVars, wants, twin, replaced>>

CheckAgain(w) ==
    /\ pc[w] = "staged"
    /\ IF CheckOK(w)
       THEN Goto(w, "checked") /\ UNCHANGED <<sqlite, ticketVars, temps>>
       ELSE Leave(w, "failed") /\ temps' = temps \ {w}
    /\ UNCHANGED <<targetVars, wants, twin, replaced>>

\* link refuses a name that exists; the new file has two names after it.
LinkOK == file = Absent

Link(w) ==
    /\ pc[w] = "checked" /\ wants[w] = Absent /\ made < MaxVersion
    /\ IF LinkOK
       THEN /\ Goto(w, "linked")
            /\ replaced' = [replaced EXCEPT ![w] = {file}]
            /\ made' = made + 1 /\ file' = made + 1
            /\ twin' = [twin EXCEPT ![w] = made + 1]
            /\ UNCHANGED <<sqlite, ticketVars, temps>>
       ELSE /\ Leave(w, "failed") /\ temps' = temps \ {w}
            /\ UNCHANGED <<replaced, made, file, twin>>
    /\ UNCHANGED <<foreign, wants>>

Unlink(w) ==
    /\ pc[w] = "linked"
    /\ temps' = temps \ {w} /\ twin' = [twin EXCEPT ![w] = Absent]
    /\ Goto(w, "placed")
    /\ UNCHANGED <<targetVars, wants, ticketVars, sqlite, replaced>>

\* rename replaces whatever is there.
Rename(w) ==
    /\ pc[w] = "checked" /\ wants[w] # Absent /\ made < MaxVersion
    /\ replaced' = [replaced EXCEPT ![w] = {file}]
    /\ made' = made + 1 /\ file' = made + 1
    /\ temps' = temps \ {w}
    /\ Goto(w, "placed")
    /\ UNCHANGED <<foreign, wants, ticketVars, sqlite, twin>>

\* The directory is synced and the revision read back from the path, with an
\* error if either fails although the text was placed.
Answer(w) ==
    /\ pc[w] = "placed"
    /\ (file # Absent /\ Leave(w, "done")) \/ Leave(w, "failed")
    /\ UNCHANGED <<targetVars, wants, temps, twin, replaced>>

\* The process dies: SQLite frees its lock, its staged files stay, and its
\* queue was only memory.
Crash(p) ==
    LET mine == {w \in Writers : Home[w] = p} IN
    /\ \E w \in mine : pc[w] \in InLine
    /\ pc' = [w \in Writers |-> IF w \in mine /\ pc[w] \notin Ends THEN "dead" ELSE pc[w]]
    /\ sqlite' = IF sqlite \in mine THEN Free ELSE sqlite
    /\ queue' = [queue EXCEPT ![p] = <<>>]
    /\ count' = [count EXCEPT ![p] = 0]
    /\ UNCHANGED <<targetVars, wants, temps, twin, replaced>>

\* Somebody edits, creates or removes the file without the port.
EditOutside ==
    /\ made < MaxVersion
    /\ made' = made + 1
    /\ \/ file' = made + 1 /\ foreign' = foreign \cup {made + 1}
       \/ file # Absent /\ file' = Absent /\ foreign' = foreign \cup {Absent}
    /\ UNCHANGED <<pc, wants, ticketVars, sqlite, temps, twin, replaced>>

WriterStep(w) ==
    \/ ReadRevision(w) \/ TakeTicket(w) \/ BeginImmediate(w) \/ WriterBusy(w)
    \/ Stage(w) \/ CheckAgain(w) \/ Link(w) \/ Unlink(w) \/ Rename(w) \/ Answer(w)

CliWorkspaceNext ==
    \/ \E w \in Writers : WriterStep(w)
    \/ \E p \in Processes : Crash(p)
    \/ EditOutside

CliWorkspaceSpec == CliWorkspaceInit /\ [][CliWorkspaceNext]_workspaceVars

-----------------------------------------------------------------------------
\* A write replaces exactly the version its caller read: a version another
\* writer of the port installed in between, of this process or of another one,
\* is never overwritten unread.  Only an editor outside the port can slip in
\* between the second check and the rename, and then only what it left is lost.
\* No two writers hold the staging window at once, whatever died before.  And
\* the count that refuses a writer is that of the unfinished ones of its process,
\* although those that gave up keep their place in the chain.
NoLostUpdate ==
    /\ \A w \in Writers : \A v \in replaced[w] : v # wants[w] => v \in foreign
    /\ \A w \in Writers : pc[w] \in InLine \ {"queued"} => sqlite = w
    /\ \A w \in temps : pc[w] \in {"staged", "checked", "linked", "dead"}
    /\ \A p \in Processes : count[p] = Cardinality({w \in Writers : Home[w] = p /\ pc[w] \in InLine})
=============================================================================
