-------------------------- MODULE MCInterfaceList --------------------------
(***************************************************************************)
(* Instances of InterfaceList for TLC: more interfaces than the array has  *)
(* entries; none or one of them is known to the HAL before the first event.*)
(***************************************************************************)
EXTENDS InterfaceList, TLC

Names == Permutations(Name)
SomeKnown == {<<>>} \cup {<<e>> : e \in Interface}
=============================================================================
