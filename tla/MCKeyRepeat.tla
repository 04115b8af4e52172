---------------------------- MODULE MCKeyRepeat ----------------------------
(* Model values and symmetry for the runs of KeyRepeat.                    *)
EXTENDS KeyRepeat, TLC

Symmetry == Permutations(Targets) \cup Permutations(Keys) \cup Permutations(Tasks)
=============================================================================
