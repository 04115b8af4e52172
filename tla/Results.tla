------------------------------ MODULE Results -------------------------------
(* How a conversion ends: with a value, an error, nothing, or a panic.     *)

Ok(v) == [is |-> "ok", val |-> v]
Err   == [is |-> "error"]
None  == [is |-> "none"]
Panic == [is |-> "panic"]
=============================================================================
