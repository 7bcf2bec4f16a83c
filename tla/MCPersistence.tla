--------------------------- MODULE MCPersistence ---------------------------
(***************************************************************************)
(* An instance of Persistence for TLC with the limits and defaults of the  *)
(* code, and numbers on both sides of them.                                *)
(***************************************************************************)
EXTENDS Persistence

StoredNumbers == {60, 3601}
AskedNumbers == {59, 3600}
=============================================================================
