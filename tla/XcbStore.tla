------------------------------ MODULE XcbStore ------------------------------
(***************************************************************************)
(* The native state store of xcb (crates/xcb-runtime/src/store.rs): one    *)
(* SQLite file in WAL mode, shared by every terminal process and by the    *)
(* command line.  Each operator below is ONE transaction of the store: it  *)
(* is opened with BEGIN IMMEDIATE, so transactions of different processes  *)
(* are serialised and each of them is atomic, across a crash too.          *)
(*                                                                         *)
(* Only what custody depends on is kept of a row.  Texts, models, labels,  *)
(* timestamps, usage counters and quota points are abstracted away; ids    *)
(* are fresh (new_id), so a deleted run or session is never seen again.    *)
(***************************************************************************)
EXTENDS Naturals

CONSTANTS
  Accounts,    \* account ids
  Sessions,    \* session ids
  Runs,        \* run ids, of tasks and of metadata probes
  Calls,       \* tool call ids of one run
  NoAccount, NoSession, NoRun

ASSUME StoreAssumption ==
  /\ NoAccount \notin Accounts
  /\ NoSession \notin Sessions
  /\ NoRun \notin Runs

VARIABLES
  standing,    \* accounts: not added yet, enabled or disabled
  state,       \* sessions.state; "absent" before the row, "removed" after it
  revision,    \* sessions.revision, the compare-and-set token of every writer
  bound,       \* sessions.account
  phase,       \* runs.phase; "absent" before the row, "removed" after it
  runAccount,  \* runs.account
  runSession,  \* runs.session, NoSession for a probe
  lease,       \* leases: the run that holds each account
  receipt,     \* tool_effects: no row, settled=0, settled=1
  transcript   \* messages a run left behind once its provider had stopped

store == << standing, state, revision, bound, phase, runAccount, runSession,
            lease, receipt, transcript >>

SessionStates == { "absent", "Idle", "Working", "Uncertain", "Failed",
                   "Cancelled", "removed" }
Phases        == { "absent", "prepared", "running", "settled", "removed" }
Receipts      == { "none", "begun", "settled" }
\* Roles of the messages runner::run appends after the join, in this order.
Roles         == { "thinking", "assistant" }

StoreTypeOK ==
  /\ standing   \in [Accounts -> {"absent", "enabled", "disabled"}]
  /\ state      \in [Sessions -> SessionStates]
  /\ revision   \in [Sessions -> Nat]
  /\ bound      \in [Sessions -> Accounts \cup {NoAccount}]
  /\ phase      \in [Runs -> Phases]
  /\ runAccount \in [Runs -> Accounts \cup {NoAccount}]
  /\ runSession \in [Runs -> Sessions \cup {NoSession}]
  /\ lease      \in [Accounts -> Runs \cup {NoRun}]
  /\ receipt    \in [Runs -> [Calls -> Receipts]]
  /\ transcript \in [Runs -> SUBSET Roles]

\* A store that Store::open has just created.
StoreInit ==
  /\ standing   = [a \in Accounts |-> "absent"]
  /\ state      = [s \in Sessions |-> "absent"]
  /\ revision   = [s \in Sessions |-> 0]
  /\ bound      = [s \in Sessions |-> NoAccount]
  /\ phase      = [r \in Runs |-> "absent"]
  /\ runAccount = [r \in Runs |-> NoAccount]
  /\ runSession = [r \in Runs |-> NoSession]
  /\ lease      = [a \in Accounts |-> NoRun]
  /\ receipt    = [r \in Runs |-> [c \in Calls |-> "none"]]
  /\ transcript = [r \in Runs |-> {}]

Exists(s)    == s \in Sessions /\ state[s] \notin {"absent", "removed"}
Unsettled(r) == phase[r] \in {"prepared", "running"}
HeldBy(a, r) == lease[a] = r
\* "SELECT EXISTS(... WHERE session=? AND phase!='settled')"
SessionBusy(s) == \E r \in Runs : runSession[r] = s /\ Unsettled(r)

(***************************************************************************)
(* Accounts.                                                               *)
(***************************************************************************)
AddAccountTx(a) ==
  /\ standing[a] = "absent"
  /\ standing' = [standing EXCEPT ![a] = "enabled"]
  /\ UNCHANGED << state, revision, bound, phase, runAccount, runSession,
                  lease, receipt, transcript >>

\* Refused while a run holds the account.
SetAccountEnabledTx(a, to) ==
  /\ lease[a] = NoRun
  /\ standing[a] # "absent"
  /\ standing' = [standing EXCEPT ![a] = to]
  /\ UNCHANGED << state, revision, bound, phase, runAccount, runSession,
                  lease, receipt, transcript >>

(***************************************************************************)
(* Sessions.  update_session writes a row only if its revision is still    *)
(* the expected one, and every caller stores expected + 1.                 *)
(***************************************************************************)
CreateSessionTx(s, a) ==
  /\ state[s] = "absent"
  /\ state' = [state EXCEPT ![s] = "Idle"]
  /\ bound' = [bound EXCEPT ![s] = a]
  /\ UNCHANGED << standing, revision, phase, runAccount, runSession, lease,
                  receipt, transcript >>

\* The common part of append_message and select_pane: the row moves on by
\* one revision, its state stays.
TouchSession(s, expected) ==
  /\ Exists(s)
  /\ revision[s] = expected
  /\ revision' = [revision EXCEPT ![s] = expected + 1]
  /\ UNCHANGED << standing, state, bound, phase, runAccount, runSession,
                  lease, receipt >>

\* A user message, or a tool message of a running run.
AppendMessageTx(s, expected) ==
  TouchSession(s, expected) /\ UNCHANGED transcript

\* The thinking or assistant message of run r.
AppendFinalTx(s, expected, r, role) ==
  /\ TouchSession(s, expected)
  /\ transcript' = [transcript EXCEPT ![r] = @ \cup {role}]

\* select_pane reads the revision inside its own transaction.
SelectPaneTx(s) == TouchSession(s, revision[s]) /\ UNCHANGED transcript

\* Mutant: the session moves while a run of it is unsettled.
RebindTxBusy(s, expected, a) ==
  /\ Exists(s)
  /\ revision[s] = expected
  /\ bound'    = [bound EXCEPT ![s] = a]
  /\ state'    = [state EXCEPT ![s] = "Idle"]
  /\ revision' = [revision EXCEPT ![s] = expected + 1]
  /\ UNCHANGED << standing, phase, runAccount, runSession, lease, receipt,
                  transcript >>

\* The target account was read before this transaction began.
RebindTx(s, expected, a) ==
  /\ Exists(s)
  /\ ~ SessionBusy(s)
  /\ revision[s] = expected
  /\ bound'    = [bound EXCEPT ![s] = a]
  /\ state'    = [state EXCEPT ![s] = "Idle"]
  /\ revision' = [revision EXCEPT ![s] = expected + 1]
  /\ UNCHANGED << standing, phase, runAccount, runSession, lease, receipt,
                  transcript >>

\* Deletes the session and, by ON DELETE CASCADE, its settled runs with
\* their receipts and messages.
RemoveSessionTx(s) ==
  /\ Exists(s)
  /\ ~ SessionBusy(s)
  /\ state' = [state EXCEPT ![s] = "removed"]
  /\ phase' = [r \in Runs |-> IF runSession[r] = s THEN "removed" ELSE phase[r]]
  /\ receipt' = [r \in Runs |->
       IF runSession[r] = s THEN [c \in Calls |-> "none"] ELSE receipt[r]]
  /\ transcript' = [r \in Runs |->
       IF runSession[r] = s THEN {} ELSE transcript[r]]
  /\ UNCHANGED << standing, revision, bound, runAccount, runSession, lease >>

(***************************************************************************)
(* Runs and leases.                                                        *)
(***************************************************************************)
InsertRun(r, a, s) ==
  /\ phase[r] = "absent"
  /\ phase'      = [phase EXCEPT ![r] = "prepared"]
  /\ runAccount' = [runAccount EXCEPT ![r] = a]
  /\ runSession' = [runSession EXCEPT ![r] = s]
  /\ lease'      = [lease EXCEPT ![a] = r]

PrepareRunTx(r, s, expected) ==
  /\ Exists(s)
  /\ revision[s] = expected
  /\ lease[bound[s]] = NoRun
  /\ standing[bound[s]] = "enabled"
  /\ InsertRun(r, bound[s], s)
  /\ state'    = [state EXCEPT ![s] = "Working"]
  /\ revision' = [revision EXCEPT ![s] = expected + 1]
  /\ UNCHANGED << standing, bound, receipt, transcript >>

\* Mutant: a probe does not ask who has the account.
PrepareProbeTxHeld(r, a) ==
  /\ InsertRun(r, a, NoSession)
  /\ UNCHANGED << standing, state, revision, bound, receipt, transcript >>

\* Unlike prepare_run this transaction does not look at the account again.
PrepareProbeTx(r, a) ==
  /\ lease[a] = NoRun
  /\ InsertRun(r, a, NoSession)
  /\ UNCHANGED << standing, state, revision, bound, receipt, transcript >>

\* Mutant: a phase that no reader knows.
MarkSpawnedTxMisnamed(r) ==
  /\ phase[r] = "prepared"
  /\ HeldBy(runAccount[r], r)
  /\ phase' = [phase EXCEPT ![r] = "spawned"]
  /\ UNCHANGED << standing, state, revision, bound, runAccount, runSession,
                  lease, receipt, transcript >>

MarkSpawnedTx(r) ==
  /\ phase[r] = "prepared"
  /\ HeldBy(runAccount[r], r)
  /\ phase' = [phase EXCEPT ![r] = "running"]
  /\ UNCHANGED << standing, state, revision, bound, runAccount, runSession,
                  lease, receipt, transcript >>

\* What settle and recover_run share once their guards hold: the session, if
\* any, gets its state and its next revision, the run is settled, the lease
\* goes.
CloseRun(r, to) ==
  /\ IF runSession[r] = NoSession
       THEN UNCHANGED << state, revision >>
       ELSE /\ Exists(runSession[r])
            /\ state'    = [state EXCEPT ![runSession[r]] = to]
            /\ revision' = [revision EXCEPT ![runSession[r]] = @ + 1]
  /\ phase' = [phase EXCEPT ![r] = "settled"]
  /\ lease' = [lease EXCEPT ![runAccount[r]] = NoRun]
  /\ UNCHANGED << standing, bound, runAccount, runSession, receipt,
                  transcript >>

\* Mutant: the owner settles without asking whether it still has the account.
SettleTxUnheld(r, to) == CloseRun(r, to)

SettleTx(r, to) ==
  /\ HeldBy(runAccount[r], r)
  /\ CloseRun(r, to)

\* Mutant: only the runs of sessions can be recovered.
RecoverRunTxSession(r) ==
  /\ phase[r] = "running"
  /\ runSession[r] # NoSession
  /\ HeldBy(runAccount[r], r)
  /\ CloseRun(r, "Uncertain")

\* Mutant: recovery forgets the session.
RecoverRunTxKeepsState(r) ==
  /\ phase[r] = "running"
  /\ HeldBy(runAccount[r], r)
  /\ phase' = [phase EXCEPT ![r] = "settled"]
  /\ lease' = [lease EXCEPT ![runAccount[r]] = NoRun]
  /\ UNCHANGED << standing, state, revision, bound, runAccount, runSession,
                  receipt, transcript >>

\* The payload read with the candidate must still be the stored one.  It
\* changes with the phase only, and a run that is running has its pid.
RecoverRunTx(r) ==
  /\ phase[r] = "running"
  /\ HeldBy(runAccount[r], r)
  /\ CloseRun(r, "Uncertain")

(***************************************************************************)
(* Tool receipts.  begin_tool is two statements outside any transaction:   *)
(* the SELECT on leases, then the INSERT, which only the run row's         *)
(* existence (foreign key) and the primary key (run, call) constrain.      *)
(***************************************************************************)
InsertReceipt(r, c) ==
  /\ phase[r] \notin {"absent", "removed"}
  /\ receipt[r][c] = "none"
  /\ receipt' = [receipt EXCEPT ![r][c] = "begun"]
  /\ UNCHANGED << standing, state, revision, bound, phase, runAccount,
                  runSession, lease, transcript >>

SettleToolTx(r, c) ==
  /\ receipt[r][c] = "begun"
  /\ receipt' = [receipt EXCEPT ![r][c] = "settled"]
  /\ UNCHANGED << standing, state, revision, bound, phase, runAccount,
                  runSession, lease, transcript >>
=============================================================================
