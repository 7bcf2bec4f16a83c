---------------------------- MODULE MCLifecycle ----------------------------
(***************************************************************************)
(* Instances of Lifecycle for TLC; the threads are model values.           *)
(***************************************************************************)
EXTENDS Lifecycle
=============================================================================
