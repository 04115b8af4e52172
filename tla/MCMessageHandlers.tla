------------------------- MODULE MCMessageHandlers -------------------------
(* Model values and symmetry for the runs of MessageHandlers.              *)
EXTENDS MessageHandlers, TLC

Symmetry == Permutations(Clients) \cup Permutations(Tasks)
=============================================================================
