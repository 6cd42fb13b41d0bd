---------------------------- MODULE MCStateRouter ----------------------------
(***************************************************************************)
(* Small instances of StateRouter for TLC.                                 *)
(***************************************************************************)
EXTENDS DocumentedClaims, TLC

\* The request coroutines are interchangeable.
TaskSymmetry == Permutations(Tasks)

=============================================================================
