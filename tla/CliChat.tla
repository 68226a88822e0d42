------------------------------ MODULE CliChat -------------------------------
(* The interactive command line (src/src/cli/chat.ts), the turn it runs       *)
(* (src/src/cli/run.ts) and the record it keeps (src/src/cli/sessions.ts):    *)
(* several terminals resume one session, a row in SQLite and a JSONL file.    *)
(* Another command may remove the session meanwhile.  A line of the file      *)
(* stands for one transcript entry.                                           *)
(*                                                                            *)
(* Nothing is said here of provider processes: whether an account goes back   *)
(* while one lives is up to the adapter (TaskRuntime, ClaudeTask, DevinTask), *)
(* so here a turn's lease may end in any way that runAgentTask lets it.       *)
EXTENDS Naturals

CONSTANTS
    Terminals,      \* processes running runCliChat on the session
    MaxTurns,       \* bound: prompts of one terminal
    MaxLines        \* the size limit of a transcript, in lines

Unheld == "unheld"

ASSUME ChatAssumption == Unheld \notin Terminals /\ MaxTurns \in Nat /\ MaxLines \in Nat

VARIABLES
    row,        \* the session has its row
    turns,      \* the turns column of that row
    lines,      \* line ends in the transcript file (0 when there is none)
    cut,        \* the file ends in the middle of a line
    spoiled,    \* something was appended to such an end: that line does not parse
    removal,    \* the remove command: "no", "deleted" between its steps, "done"
    lease,      \* the terminal that owns the account lease, or Unheld
    at,         \* where each terminal stands in its turn
    entries,    \* entries its turn records: the prompt, and the answer if any
    written,    \* how many of them its append has written
    turnsRun    \* prompts used, the bound

chatVars == <<row, turns, lines, cut, spoiled, removal, lease, at, entries, written, turnsRun>>
transcriptVars == <<lines, cut, spoiled>>
rowVars == <<row, turns, removal>>

ChatInit ==
    /\ row = TRUE /\ turns = 0 /\ removal = "no"
    /\ lines = 0 /\ cut = FALSE /\ spoiled = FALSE
    /\ lease = Unheld
    /\ at = [t \in Terminals |-> "prompt"]
    /\ entries = [t \in Terminals |-> 0]
    /\ written = [t \in Terminals |-> 0]
    /\ turnsRun = [t \in Terminals |-> 0]

Now(t, l) == at' = [at EXCEPT ![t] = l]

\* transcript() reads the file: a line that does not parse and a file over the
\* limit end the turn here, as they end every later one.  A last line that was
\* cut parses only if nothing but its end is missing; it has no size here.
ReadsBack == ~spoiled /\ lines <= MaxLines

\* The context of the prompt is read before the account is taken.
ReadPrior(t) ==
    /\ at[t] = "prompt" /\ turnsRun[t] < MaxTurns
    /\ turnsRun' = [turnsRun EXCEPT ![t] = @ + 1]
    /\ \/ ReadsBack /\ Now(t, "attempt")
       \/ (~ReadsBack \/ cut) /\ Now(t, "prompt")
    /\ UNCHANGED <<rowVars, transcriptVars, lease, entries, written>>

\* runCliTurn: runAgentTask takes the lease, or finds the account busy.  The
\* terminal has no proof that another owner stopped, so recoverHeldLease refuses
\* and the prompt is dropped; a lease freed in between lets the retry through.
Attempt(t) ==
    /\ at[t] = "attempt"
    /\ \/ lease = Unheld /\ lease' = t /\ Now(t, "running")
       \/ UNCHANGED lease /\ Now(t, "prompt")
    /\ UNCHANGED <<rowVars, transcriptVars, entries, written, turnsRun>>

\* runAgentTask returns: the lease is released, with an answer or without.
RunReturns(t, answered) ==
    /\ at[t] = "running"
    /\ lease' = Unheld
    /\ entries' = [entries EXCEPT ![t] = IF answered THEN 2 ELSE 1]
    /\ Now(t, "record")
    /\ UNCHANGED <<rowVars, transcriptVars, written, turnsRun>>

\* It throws, with the lease retained or released: nothing is recorded.
RunThrows(t) ==
    /\ at[t] = "running"
    /\ lease' \in {lease, Unheld}
    /\ Now(t, "prompt")
    /\ UNCHANGED <<rowVars, transcriptVars, entries, written, turnsRun>>

\* record: a row that is gone refuses the entries before anything is written;
\* a row that goes afterwards leaves a transcript without a session.
RecordGet(t) ==
    /\ at[t] = "record"
    /\ Now(t, IF row THEN "append" ELSE "prompt")
    /\ written' = [written EXCEPT ![t] = 0]
    /\ UNCHANGED <<rowVars, transcriptVars, lease, entries, turnsRun>>

\* appendFile may reach the file in several writes, each at the file's end: a
\* part that ends with an entry, or in the middle of one.
RecordAppend(t) ==
    /\ at[t] = "append" /\ written[t] < entries[t]
    /\ lines' = lines + 1 /\ cut' = FALSE /\ spoiled' = (spoiled \/ cut)
    /\ written' = [written EXCEPT ![t] = @ + 1]
    /\ UNCHANGED <<rowVars, lease, at, entries, turnsRun>>

AppendCut(t) ==
    /\ at[t] = "append" /\ written[t] < entries[t]
    /\ cut' = TRUE /\ spoiled' = (spoiled \/ cut)
    /\ Now(t, "torn")
    /\ UNCHANGED <<rowVars, lines, lease, entries, written, turnsRun>>

\* The rest of that entry; if anybody has written since, the file is spoiled.
AppendRest(t) ==
    /\ at[t] = "torn"
    /\ lines' = lines + 1 /\ cut' = FALSE
    /\ written' = [written EXCEPT ![t] = @ + 1]
    /\ Now(t, "append")
    /\ UNCHANGED <<rowVars, spoiled, lease, entries, turnsRun>>

\* Mutant: the failure of the append is not noticed.
FailureIgnored(t) ==
    /\ at[t] \in {"append", "torn"}
    /\ Now(t, "append") /\ written' = [written EXCEPT ![t] = entries[t]]
    /\ UNCHANGED <<rowVars, transcriptVars, lease, entries, turnsRun>>

\* A write fails: what was written stays, and record throws.
AppendFails(t) ==
    /\ at[t] \in {"append", "torn"}
    /\ Now(t, "prompt")
    /\ UNCHANGED <<rowVars, transcriptVars, lease, entries, written, turnsRun>>

\* The file is measured after the append, so the entries that pass the limit
\* are in it but are not counted.  UPDATE adds to the column of the row, if any.
MeasureOK == lines <= MaxLines

RecordUpdate(t) ==
    /\ at[t] = "append" /\ written[t] = entries[t]
    /\ turns' = IF row /\ MeasureOK THEN turns + entries[t] ELSE turns
    /\ Now(t, "prompt")
    /\ UNCHANGED <<row, removal, transcriptVars, lease, entries, written, turnsRun>>

\* remove: the row is deleted first, the transcript afterwards.
RemoveRow ==
    /\ removal = "no"
    /\ row' = FALSE /\ removal' = "deleted"
    /\ UNCHANGED <<turns, transcriptVars, lease, at, entries, written, turnsRun>>

\* An append that has begun goes on in a file without a name: it finds none to
\* measure, and throws.
RemoveFile ==
    /\ removal = "deleted"
    /\ lines' = 0 /\ cut' = FALSE /\ spoiled' = FALSE /\ removal' = "done"
    /\ at' = [t \in Terminals |->
         IF at[t] = "torn" \/ (at[t] = "append" /\ written[t] > 0) THEN "prompt" ELSE at[t]]
    /\ UNCHANGED <<row, turns, lease, entries, written, turnsRun>>

\* The terminal dies between any two steps; its lease remains.
Killed(t) ==
    /\ at[t] \notin {"prompt", "dead"}
    /\ Now(t, "dead")
    /\ UNCHANGED <<rowVars, transcriptVars, lease, entries, written, turnsRun>>

ChatNext ==
    \/ \E t \in Terminals :
        \/ ReadPrior(t) \/ Attempt(t) \/ RunThrows(t) \/ RecordGet(t) \/ RecordAppend(t)
        \/ AppendCut(t) \/ AppendRest(t) \/ AppendFails(t) \/ RecordUpdate(t) \/ Killed(t)
        \/ \E answered \in BOOLEAN : RunReturns(t, answered)
    \/ RemoveRow \/ RemoveFile

ChatSpec == ChatInit /\ [][ChatNext]_chatVars

-----------------------------------------------------------------------------
\* A transcript that reads back holds every entry the registry counts, whatever
\* is torn, fails, dies, overflows or is removed between the steps of two
\* terminals (sessions.ts: record, remove, transcript).
TranscriptBacksTurns == row /\ ReadsBack => turns <= lines
=============================================================================
