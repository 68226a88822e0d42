---------------------------- MODULE MCTaskRuntime ----------------------------
(***************************************************************************)
(* Instances of TaskRuntime for TLC, with the adapters it may have: a      *)
(* behaviour has either any adapter that keeps to the interface, or the    *)
(* Claude adapter where every join resolves.                               *)
(***************************************************************************)
EXTENDS ClaudeTask, TLC

VARIABLE adapter

hostsVars == << claudeVars, adapter >>

HostsInit == ClaudeInit /\ adapter \in {"any", "claude"}

HostsNext ==
  /\ UNCHANGED adapter
  /\ \/ adapter = "any" /\ Next /\ UNCHANGED << slot, dirs, active >>
     \/ adapter = "claude" /\ JoiningNext

HostsSpec == HostsInit /\ [][HostsNext]_hostsVars

\* Workers, accounts and run ids are interchangeable.
Symmetry == Permutations(Workers) \cup Permutations(Accounts)
            \cup Permutations(RunIds)
=============================================================================
