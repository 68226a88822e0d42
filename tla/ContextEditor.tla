--------------------------- MODULE ContextEditor ----------------------------
(* The context editor (src/src/gobstopper-editor.ts): a model is asked to      *)
(* edit a transcript by calls (keep, elide, summarize, defer) that a broker    *)
(* only records; a run that completed lowers what was recorded to edits.  The  *)
(* model is free in what it calls and when it stops; the run may be aborted.   *)
(* A transcript is its items: the line each came from, its size in tokens, and *)
(* whether its payload can be elided.                                          *)
EXTENDS Integers, Sequences, FiniteSets, FiniteSetsExt

CONSTANTS
    Transcripts,    \* the transcripts the editor may be given
    ProtectTail,    \* GOBSTOPPER_EDITOR_PROTECT_TAIL
    CallLimit,      \* GOBSTOPPER_EDITOR_LIMITS.calls
    EditorTurns,    \* maxTurns
    Budget          \* turns the local reservation pays for

ASSUME EditorAssumption ==
    /\ {ProtectTail, CallLimit, EditorTurns, Budget} \subseteq Nat
    /\ \A t \in Transcripts :
         /\ t.context \in Nat /\ t.items # <<>>
         /\ t.items \in Seq([line : Nat, tokens : Nat, elidable : BOOLEAN])

VARIABLES
    transcript, \* what came on stdin
    edit,       \* the adapter: its step, its turn, what it reserved
    recorded,   \* the calls the broker recorded, in order
    plan        \* what main wrote to stdout, or NoPlan

editorVars == <<transcript, edit, recorded, plan>>

NoPlan == [edits |-> <<>>, after |-> -1, deferred |-> FALSE]

\* The positions of n items are counted from zero, as in the code.
Position(n) == 0..(n - 1)
Item(t, p) == t.items[p + 1]
Tokens(t, ps) == MapThenSumSet(LAMBDA p : Item(t, p).tokens, ps)

\* parseEditorTranscript: a reported context size, else the sum of the items.
Context(t) == IF t.context > 0 THEN t.context ELSE Tokens(t, Position(Len(t.items)))
Count == Len(transcript.items)

EditorInit ==
    /\ transcript \in Transcripts
    /\ edit = [at |-> "admitted", turn |-> 0, aborted |-> FALSE, status |-> "none"]
    /\ recorded = <<>>
    /\ plan = NoPlan

EditorAt(step) == edit.at = step

(***************************************************************************)
(* The adapter.                                                            *)
(***************************************************************************)
\* The signal of the task, or a stop of the runtime: the controller aborts.
AbortEdit ==
    /\ ~edit.aborted /\ edit.at # "done"
    /\ edit' = [edit EXCEPT !.aborted = TRUE]
    /\ UNCHANGED <<transcript, recorded, plan>>

EditFails == [edit EXCEPT !.at = "ended", !.status = "failed"]

\* Qualification, profile, broker, catalog and key; nothing of them calls a tool.
BeginEdit ==
    /\ EditorAt("admitted")
    /\ \/ ~edit.aborted /\ edit' = [edit EXCEPT !.at = "turn"]
       \/ edit' = EditFails
    /\ UNCHANGED <<transcript, recorded, plan>>

\* A turn is asked for while turns and reservation last.
AskModel ==
    /\ EditorAt("turn")
    /\ \/ /\ ~edit.aborted /\ edit.turn < EditorTurns /\ edit.turn < Budget
          /\ edit' = [edit EXCEPT !.at = "reply", !.turn = @ + 1]
       \/ /\ edit.aborted \/ edit.turn >= EditorTurns \/ edit.turn >= Budget
          /\ edit' = EditFails
    /\ UNCHANGED <<transcript, recorded, plan>>

\* The reply: the closing text, a batch of calls, or something invalid.
ModelReplies ==
    /\ EditorAt("reply")
    /\ \/ ~edit.aborted /\ edit' = [edit EXCEPT !.at = "ended", !.status = "completed"]
       \/ ~edit.aborted /\ edit' = [edit EXCEPT !.at = "calls"]
       \/ edit' = EditFails
    /\ UNCHANGED <<transcript, recorded, plan>>

\* createEditorCapabilityProfile: what the parser of each tool lets through; a
\* range is half open.
Keep(n) == {[tool |-> "keep", from |-> f, to |-> t] : f \in Position(n), t \in 1..n}
Elide(n) == {[tool |-> "elide", items |-> s] : s \in SUBSET Position(n)}
Summarize(n) == {[tool |-> "summarize", from |-> f, to |-> t] : f \in Position(n), t \in 1..n}
Defer == {[tool |-> "defer"]}
RangeOK(c) == c.tool \in {"keep", "summarize"} => c.from < c.to
Tools == {c \in Keep(Count) \cup Elide(Count) \cup Summarize(Count) \cup Defer : RangeOK(c)}

\* A call of the batch: recorded, or denied (unknown tool, bad input, the limit
\* of calls), which the model only sees as an error; then the next.
RecordCall ==
    /\ EditorAt("calls") /\ ~edit.aborted
    /\ Len(recorded) < CallLimit
    /\ \E c \in Tools : recorded' = Append(recorded, c)
    /\ UNCHANGED <<transcript, edit, plan>>

BatchEnds ==
    /\ EditorAt("calls")
    /\ edit' = IF edit.aborted THEN EditFails ELSE [edit EXCEPT !.at = "turn"]
    /\ UNCHANGED <<transcript, recorded, plan>>

\* stop, which the runtime asks of every run: it awaits the run, whatever the
\* run had to say, and then gives its evidence.
StopEdit ==
    /\ EditorAt("ended")
    /\ edit' = [edit EXCEPT !.at = "stopped"]
    /\ UNCHANGED <<transcript, recorded, plan>>

(***************************************************************************)
(* callsToEdits: the plan.                                                 *)
(***************************************************************************)
ProtectedFrom(t) == Len(t.items) - (IF ProtectTail < Len(t.items) THEN ProtectTail ELSE Len(t.items))
Kept(calls) == UNION {calls[i].from..(calls[i].to - 1) : i \in {j \in DOMAIN calls : calls[j].tool = "keep"}}
Nothing(t) == [edits |-> <<>>, after |-> Context(t), deferred |-> TRUE]

\* What one elide call takes: of each line the first listed item, in order.
ElidablePastTail(t, p) == Item(t, p).elidable
Elidable(t, p) == Item(t, p).elidable /\ p < ProtectedFrom(t)
Chosen(t, c, lines) ==
    {p \in c.items : /\ Elidable(t, p) /\ Item(t, p).line \notin lines
                     /\ ~\E q \in c.items : q < p /\ Elidable(t, q) /\ Item(t, q).line = Item(t, p).line}

ElideClashes(t, calls, c) == c.items \cap Kept(calls) # {} \/ c.items \ Position(Len(t.items)) # {}
SummaryClashes(t, c, digests) == c.to > ProtectedFrom(t) \/ digests > 0

\* The loop over the calls, as far as it has come: the lines elided so far, the
\* digests, what is left of the context, and whether it went wrong.
Less(a, b) == IF a > b THEN a - b ELSE 0
Lowered(t, calls, s, c) ==
    IF s.void THEN s
    ELSE CASE c.tool = "defer" -> [s EXCEPT !.void = TRUE]
           [] c.tool = "keep" -> s
           [] c.tool = "elide" ->
                IF ElideClashes(t, calls, c) THEN [s EXCEPT !.void = TRUE]
                ELSE LET ps == Chosen(t, c, s.lines) IN
                     [s EXCEPT !.lines = @ \cup {Item(t, p).line : p \in ps},
                               !.after = Less(@, Tokens(t, ps)),
                               !.edits = IF ps = {} THEN @ ELSE Append(@, [op |-> "elide", lines |-> {Item(t, p).line : p \in ps}])]
           [] OTHER ->
                IF SummaryClashes(t, c, s.digests) THEN [s EXCEPT !.void = TRUE]
                ELSE [s EXCEPT !.digests = @ + 1,
                               !.edits = Append(@, [op |-> "inject_digest", covers |-> c.from..(c.to - 1)])]

Start(t) == [void |-> FALSE, lines |-> {}, digests |-> 0, after |-> Context(t), edits |-> <<>>]
CallsToEdits(t, calls) ==
    LET states[i \in 0..Len(calls)] ==
          IF i = 0 THEN Start(t) ELSE Lowered(t, calls, states[i - 1], calls[i])
        last == states[Len(calls)]
    IN IF last.void THEN Nothing(t) ELSE [edits |-> last.edits, after |-> last.after, deferred |-> FALSE]

\* main: only a completed run gets a plan; the runtime cannot report completion
\* of a run it aborted.
Emits == edit.status = "completed" /\ ~edit.aborted
EmitPlan ==
    /\ EditorAt("stopped")
    /\ plan' = IF Emits THEN CallsToEdits(transcript, recorded) ELSE plan
    /\ edit' = [edit EXCEPT !.at = "done"]
    /\ UNCHANGED <<transcript, recorded>>

EditorNext ==
    \/ AbortEdit \/ BeginEdit \/ AskModel \/ ModelReplies \/ RecordCall \/ BatchEnds
    \/ StopEdit \/ EmitPlan

EditorSpec == EditorInit /\ [][EditorNext]_editorVars

(***************************************************************************)
(* What the plan promises, said of the lines and not of the calls.         *)
(***************************************************************************)
ElidedLines == UNION {plan.edits[i].lines : i \in {j \in DOMAIN plan.edits : plan.edits[j].op = "elide"}}
Covered == UNION {plan.edits[i].covers : i \in {j \in DOMAIN plan.edits : plan.edits[j].op = "inject_digest"}}
LinesApart == \A p, q \in DOMAIN transcript.items :
                transcript.items[p].line = transcript.items[q].line => p = q
Untouchable == Kept(recorded) \cup ProtectedFrom(transcript)..(Count - 1)
Elided == {p \in Position(Count) : Item(transcript, p).line \in ElidedLines}

\* "The last GOBSTOPPER_EDITOR_PROTECT_TAIL items are never touched" and "any
\* defer discards the whole plan" (gobstopper-editor.ts:17): whatever the model
\* called, in any number of turns, a plan elides no kept item, no item of the
\* tail and no item without a payload, digests nothing of the tail, and names
\* the context that is left; and it is empty when the model deferred or the run
\* did not complete.  Items that share a line are elided together, so the first
\* part asks for items of lines of their own.
PlanKeepsItsWord ==
    EditorAt("done") =>
        /\ LinesApart => /\ Elided \cap Untouchable = {}
                         /\ \A p \in Elided : Item(transcript, p).elidable
                         /\ ~plan.deferred /\ plan # NoPlan =>
                              plan.after = Less(Context(transcript), Tokens(transcript, Elided))
        /\ Covered \cap ProtectedFrom(transcript)..(Count - 1) = {}
        /\ edit.aborted \/ edit.status # "completed" => plan = NoPlan
        /\ (\E i \in DOMAIN recorded : recorded[i].tool = "defer") => plan.edits = <<>>
=============================================================================
