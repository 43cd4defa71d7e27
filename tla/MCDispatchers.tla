----------------------------- MODULE MCDispatchers -----------------------------
(* Instances of Dispatchers for TLC. *)
EXTENDS Dispatchers
=============================================================================
