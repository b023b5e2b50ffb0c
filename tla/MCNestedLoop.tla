---------------------------- MODULE MCNestedLoop ----------------------------
(* A small instance of NestedLoop for TLC. *)
EXTENDS NestedLoop

\* Some combinations of every outer tuple but the second are included.
MCAccepted == {<<1, 2>>, <<1, 3>>, <<3, 1>>, <<3, 3>>}
=============================================================================
