--------------------------- MODULE MCController ----------------------------
(***************************************************************************)
(* Instances of Controller for TLC.  The signal points are chosen by the   *)
(* configuration: all of them, or the window between publishing            *)
(* g_controller and entering the loop.                                     *)
(***************************************************************************)
EXTENDS Controller

AnyPoint == MainPoint
BeforeLoop == {"reset", "run"}

\* One HAL thread raises all its events, each other one a single event.
FewEvents ==
    LET busy == CHOOSE t \in HalThread : TRUE
    IN  {e \in Event : e.src = busy \/ e.seq = 1}
=============================================================================
