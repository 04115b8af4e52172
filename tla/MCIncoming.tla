----------------------------- MODULE MCIncoming ------------------------------
EXTENDS Incoming, TLC

CONSTANTS up, down, key1, key2

\* No mapping, two commands with keys of their own, one key for both, and one
\* command whose key has changed.
MCMappings == {<<>>, up :> key1 @@ down :> key2, up :> key1 @@ down :> key1, up :> key2}

=============================================================================
