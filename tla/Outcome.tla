------------------------------ MODULE Outcome -------------------------------
(***************************************************************************)
(* The outcome of a call of the SDK: the value it returns, or the name of  *)
(* the exception it raises.  Shared by every module that models a call.   *)
(***************************************************************************)
Ok(v)  == [err |-> "none", val |-> v]
Err(e) == [err |-> e, val |-> <<>>]
=============================================================================
