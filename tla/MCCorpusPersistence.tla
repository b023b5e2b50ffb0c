------------------------ MODULE MCCorpusPersistence ------------------------
(* Small instances of CorpusPersistence for TLC. *)
EXTENDS CorpusPersistence, TLC

CONSTANTS u1, u2, u3, i1

\* Change ids restart at 1 in every GraphUpdate: updates of different length,
\* and two of the same.
MCSizes == (u1 :> 1) @@ (u2 :> 2) @@ (u3 :> 1)
MCSize  == [u \in Updates |-> MCSizes[u]]

SafePlaces == Places \ Windows
=============================================================================
