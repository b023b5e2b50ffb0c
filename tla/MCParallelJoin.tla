-------------------------- MODULE MCParallelJoin ---------------------------
(* Small instances of ParallelJoin for TLC. *)
EXTENDS ParallelJoin, TLC

CONSTANTS a, b, c

\* Two tuples: the first matches itself and others, the second only others.
MCMatches == <<{a, b, c}, {a}>>
MCSelf    == <<a, b>>
=============================================================================
