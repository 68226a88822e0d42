---------------------------- MODULE MCXcbRunner ----------------------------
(***************************************************************************)
(* Instances of XcbRunner for TLC.                                         *)
(***************************************************************************)
EXTENDS XcbRunner, TLC

\* Terminals, runs and accounts are interchangeable.
Symmetry == Permutations(Terminals) \cup Permutations(Runs)
            \cup Permutations(Accounts)
=============================================================================
