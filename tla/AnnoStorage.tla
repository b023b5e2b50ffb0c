---------------------------- MODULE AnnoStorage ----------------------------
(****************************************************************************)
(* AnnoStorage: the labels of items (nodes or edges), the inverse index that *)
(* the searches read, and the number of labels per key. A storage is a       *)
(* record of the three; the operators return the storage after the call.     *)
(****************************************************************************)
EXTENDS Naturals, Sequences, FiniteSets

CONSTANTS
    Items, Keys, Values,
    Multi           \* annotations is a multimap (edges), not a map (nodes)

Storages ==
    [annotations : [Items \X Keys -> Seq(Values)],       \* in order of insertion
     inverseAnnotations : [Keys \X Values \X Items -> Nat],   \* a multimap
     annoKeys : [Keys -> Nat]]                           \* 0: not in the map

Empty ==
    [annotations |-> [x \in Items \X Keys |-> <<>>],
     inverseAnnotations |-> [x \in Keys \X Values \X Items |-> 0],
     annoKeys |-> [k \in Keys |-> 0]]

Has(s, i, k) == s.annotations[<<i, k>>] # <<>>

\* What a search for a label finds.
Found(s, k, v) == {i \in Items : s.inverseAnnotations[<<k, v, i>>] > 0}

\* Mutant: a map that takes several labels with one key.
addAnnotationAgain(s, i, k, v) ==
    [annotations |-> [s.annotations EXCEPT ![<<i, k>>] = Append(@, v)],
     inverseAnnotations |-> [s.inverseAnnotations EXCEPT ![<<k, v, i>>] = @ + 1],
     annoKeys |-> [s.annoKeys EXCEPT ![k] = @ + 1]]

\* Inserting into a map leaves an entry that is there, the other two maps grow.
addAnnotation(s, i, k, v) ==
    [annotations |->
        [s.annotations EXCEPT ![<<i, k>>] = IF Multi \/ @ = <<>> THEN Append(@, v) ELSE @],
     inverseAnnotations |-> [s.inverseAnnotations EXCEPT ![<<k, v, i>>] = @ + 1],
     annoKeys |-> [s.annoKeys EXCEPT ![k] = @ + 1]]

\* erase(oldAnno) takes the entries of every item with this label.
Erase(inverse, k, v) ==
    [x \in Keys \X Values \X Items |-> IF x[1] = k /\ x[2] = v THEN 0 ELSE inverse[x]]

\* Mutant: the index keeps the label.
deleteAnnotationKeepsIndex(s, i, k) ==
    IF ~Has(s, i, k) THEN s
    ELSE [annotations |-> [s.annotations EXCEPT ![<<i, k>>] = Tail(@)],
          inverseAnnotations |-> s.inverseAnnotations,
          annoKeys |-> [s.annoKeys EXCEPT ![k] = IF @ > 0 THEN @ - 1 ELSE @]]

deleteAnnotation(s, i, k) ==
    IF ~Has(s, i, k) THEN s
    ELSE [annotations |-> [s.annotations EXCEPT ![<<i, k>>] = Tail(@)],
          inverseAnnotations |->
              Erase(s.inverseAnnotations, k, Head(s.annotations[<<i, k>>])),
          annoKeys |-> [s.annoKeys EXCEPT ![k] = IF @ > 0 THEN @ - 1 ELSE @]]

\* The labels of some items: the loops over getAnnotations(item), with
\* deleteAnnotation of each.
deleteAnnotations(s, items) ==
    LET num(k)     == Cardinality(UNION {{i} \X (DOMAIN s.annotations[<<i, k>>]) : i \in items})
        Gone(k, v) == \E i \in items : \E n \in DOMAIN s.annotations[<<i, k>>] :
                          s.annotations[<<i, k>>][n] = v
    IN  [annotations |->
             [x \in Items \X Keys |-> IF x[1] \in items THEN <<>> ELSE s.annotations[x]],
         inverseAnnotations |->
             [x \in Keys \X Values \X Items |->
                 IF Gone(x[1], x[2]) THEN 0 ELSE s.inverseAnnotations[x]],
         annoKeys |->
             [k \in Keys |-> IF s.annoKeys[k] > num(k) THEN s.annoKeys[k] - num(k) ELSE 0]]

\* The index says exactly what the labels say.
IndexAgrees(s) ==
    \A i \in Items, k \in Keys, v \in Values :
        s.inverseAnnotations[<<k, v, i>>] =
            IF \E n \in DOMAIN s.annotations[<<i, k>>] : s.annotations[<<i, k>>][n] = v
            THEN 1 ELSE 0
=============================================================================
