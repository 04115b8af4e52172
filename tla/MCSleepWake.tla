---------------------------- MODULE MCSleepWake ----------------------------
(* Model values and symmetry for the runs of SleepWake.                    *)
EXTENDS SleepWake, TLC

Symmetry == Permutations(Devices)
=============================================================================
