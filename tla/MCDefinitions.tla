---------------------------- MODULE MCDefinitions ----------------------------
(* The instance of Definitions that TLC checks.                            *)
EXTENDS Definitions, TLC

CONSTANTS r1, r2

MCRequest == {r1, r2}

\* Requests differ in nothing but their name.
RequestSymmetry == Permutations(MCRequest)
=============================================================================
