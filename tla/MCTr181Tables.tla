--------------------------- MODULE MCTr181Tables ---------------------------
(***************************************************************************)
(* Instances of Tr181Tables for TLC: the limits keep their order, more     *)
(* entries than rows, and in the LLID table more rows than are answered.   *)
(***************************************************************************)
EXTENDS Tr181Tables

AllTables == {"llid", "cpe", "none"}
RowLimit == [llid |-> 2, cpe |-> 3, none |-> 0]
AnswerLimit == [llid |-> 1, cpe |-> 3, none |-> 0]
=============================================================================
