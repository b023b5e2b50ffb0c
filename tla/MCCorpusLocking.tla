-------------------------- MODULE MCCorpusLocking --------------------------
(* Small instances of CorpusLocking for TLC. *)
EXTENDS CorpusLocking, TLC

CONSTANTS c1, c2, c3

\* Next to c1 the nodes of another corpus fit, and hardly anything else does: c2
\* and c3 are over the limit alone, once all their graph storages are loaded.
MCNodesSizes == (c1 :> 1) @@ (c2 :> 2) @@ (c3 :> 1)
MCFullSizes  == (c1 :> 2) @@ (c2 :> 4) @@ (c3 :> 8)
MCNodesSize  == [c \in Corpora |-> MCNodesSizes[c]]
MCFullSize   == [c \in Corpora |-> MCFullSizes[c]]
MCLimit      == 3

\* Everything happens to c1; the others are there to be loaded and unloaded.
MCKind  == (c1 :> {"query", "update", "info"})
           @@ (c2 :> {"query", "import", "info"}) @@ (c3 :> {"query", "export"})
MCKinds == [c \in Corpora |-> MCKind[c]]

UpdateAndInfo == [c \in Corpora |-> {"update", "info"}]
QueryOnly     == [c \in Corpora |-> {"query"}]
=============================================================================
