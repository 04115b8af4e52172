---------------------------- MODULE MCDeviceTask ----------------------------
(* Model values and symmetry for the runs of DeviceTask.                   *)
EXTENDS DeviceTask, TLC

Symmetry == Permutations(PhysAddrs) \cup Permutations(LogAddrs)
=============================================================================
