----------------------------- MODULE MCClaudeTask -----------------------------
(***************************************************************************)
(* Instances of ClaudeTask for TLC.                                        *)
(***************************************************************************)
EXTENDS ClaudeTask
=============================================================================
