------------------------- MODULE AnnoStorageProofs -------------------------
(****************************************************************************)
(* What the calls of an AnnoStorage keep, for any items, keys and values:    *)
(* its types, a count per key that is not below the number of labels with    *)
(* the key, and, when no label is repeated and none is shared, an inverse    *)
(* index that says what the labels say.                                     *)
(****************************************************************************)
EXTENDS AnnoStorage, FiniteSetTheorems, SequenceTheorems, TLAPS

\* The labels with a key, by item and position.
EntriesOf(s, k, items) == UNION {{i} \X (DOMAIN s.annotations[<<i, k>>]) : i \in items}
Entries(s, k) == EntriesOf(s, k, Items)

\* The count of a key is no smaller than the number of labels with it.
Counted(s) == \A k \in Keys : Cardinality(Entries(s, k)) <= s.annoKeys[k]

\* No item has two labels with one key.
Single(s) == \A x \in Items \X Keys : Len(s.annotations[x]) <= 1

\* No other item has a label that this one has.
Unshared(s, i, k) == \A v \in Values : i \in Found(s, k, v) => Found(s, k, v) = {i}

IsEntry(p, s, k, items) ==
    \E i \in items : \E n \in DOMAIN s.annotations[<<i, k>>] : p = <<i, n>>

LEMMA EntryIs ==
    ASSUME NEW s, NEW k, NEW items, NEW p
    PROVE  p \in EntriesOf(s, k, items) <=> IsEntry(p, s, k, items)
<1>1. ASSUME NEW i, NEW D PROVE p \in {i} \X D <=> \E n \in D : p = <<i, n>>
  OBVIOUS
<1>2. p \in EntriesOf(s, k, items) <=> \E i \in items : p \in {i} \X (DOMAIN s.annotations[<<i, k>>])
  BY DEF EntriesOf
<1> QED
  BY <1>1, <1>2 DEF IsEntry

----------------------------------------------------------------------------
LEMMA EmptyTyped == Empty \in Storages /\ Single(Empty)
<1>1. <<>> \in Seq(Values) /\ Len(<<>>) = 0
  BY EmptySeq
<1> QED
  BY <1>1 DEF Empty, Storages, Single

LEMMA EmptyCounted == Counted(Empty)
<1>1. ASSUME NEW k \in Keys PROVE Cardinality(Entries(Empty, k)) = 0
  <2>1. \A i \in Items : DOMAIN Empty.annotations[<<i, k>>] = {}
    BY DEF Empty
  <2>2. Entries(Empty, k) = {}
    BY <2>1 DEF Entries, EntriesOf
  <2> QED
    BY <2>2, FS_EmptySet
<1>2. \A k \in Keys : Empty.annoKeys[k] = 0
  BY DEF Empty
<1> QED
  BY <1>1, <1>2 DEF Counted

LEMMA EmptyAgrees == IndexAgrees(Empty)
<1>1. \A i \in Items, k \in Keys : DOMAIN Empty.annotations[<<i, k>>] = {}
  BY DEF Empty
<1>2. \A i \in Items, k \in Keys, v \in Values : Empty.inverseAnnotations[<<k, v, i>>] = 0
  BY DEF Empty
<1> QED
  BY <1>1, <1>2 DEF IndexAgrees

\* There are finitely many labels, because there are finitely many items.
LEMMA EntriesFinite ==
    ASSUME IsFiniteSet(Items), NEW s \in Storages, NEW k \in Keys, NEW items \in SUBSET Items
    PROVE  IsFiniteSet(EntriesOf(s, k, items))
<1> DEFINE part(i) == {i} \X (DOMAIN s.annotations[<<i, k>>])
           parts == {part(i) : i \in items}
<1>1. IsFiniteSet(items)
  BY FS_Subset
<1>2. IsFiniteSet(parts)
  <2> DEFINE f == [i \in items |-> part(i)]
  <2>1. f \in Surjection(items, parts)
    BY DEF Surjection
  <2> QED
    BY <1>1, <2>1, FS_Surjection
<1>3. ASSUME NEW i \in items PROVE IsFiniteSet(part(i))
  <2>1. s.annotations[<<i, k>>] \in Seq(Values)
    BY DEF Storages
  <2>2. DOMAIN s.annotations[<<i, k>>] = 1 .. Len(s.annotations[<<i, k>>])
    BY <2>1
  <2>3. IsFiniteSet(DOMAIN s.annotations[<<i, k>>])
    BY <2>1, <2>2, FS_Interval
  <2>4. IsFiniteSet({i})
    BY FS_Singleton
  <2> QED
    BY <2>3, <2>4, FS_Product
<1>4. \A p \in parts : IsFiniteSet(p)
  BY <1>3
<1> QED
  BY <1>2, <1>4, FS_UNION DEF EntriesOf

\* What the searches rely on: a key with labels is listed.
LEMMA CountedListed ==
    ASSUME IsFiniteSet(Items), NEW s \in Storages, Counted(s), NEW k \in Keys
    PROVE  Cardinality({i \in Items : Has(s, i, k)}) <= s.annoKeys[k]
<1> DEFINE A == {i \in Items : Has(s, i, k)}
           E == Entries(s, k)
<1>1. IsFiniteSet(A)
  BY FS_Subset
<1>2. IsFiniteSet(E)
  BY EntriesFinite DEF Entries
<1>3. A \X {1} \subseteq E
  <2> SUFFICES ASSUME NEW i \in Items, Has(s, i, k) PROVE <<i, 1>> \in E
    OBVIOUS
  <2>1. s.annotations[<<i, k>>] \in Seq(Values) /\ s.annotations[<<i, k>>] # <<>>
    BY DEF Storages, Has
  <2>2. 1 \in DOMAIN s.annotations[<<i, k>>]
    BY <2>1
  <2> QED
    BY <2>2 DEF Entries, EntriesOf
<1>4. IsFiniteSet({1}) /\ Cardinality({1}) = 1
  BY FS_Singleton
<1>5. Cardinality(A \X {1}) = Cardinality(A) * Cardinality({1})
  BY <1>1, <1>4, FS_Product
<1>6. Cardinality(A \X {1}) <= Cardinality(E)
  BY <1>2, <1>3, FS_Subset
<1>7. Cardinality(A) \in Nat /\ Cardinality(E) \in Nat
  BY <1>1, <1>2, FS_CardinalityType
<1>8. Cardinality(A) <= Cardinality(E)
  <2> HIDE DEF A, E
  <2> QED
    BY <1>4, <1>5, <1>6, <1>7
<1>9. Cardinality(E) <= s.annoKeys[k] /\ s.annoKeys[k] \in Nat
  BY DEF Counted, Storages
<1> HIDE DEF E
<1> QED
  BY <1>7, <1>8, <1>9

----------------------------------------------------------------------------
LEMMA AddTyped ==
    ASSUME NEW s \in Storages, NEW i \in Items, NEW k \in Keys, NEW v \in Values
    PROVE  addAnnotation(s, i, k, v) \in Storages
<1> DEFINE t == addAnnotation(s, i, k, v)
<1>1. s.annotations[<<i, k>>] \in Seq(Values)
  BY DEF Storages
<1>2. Append(s.annotations[<<i, k>>], v) \in Seq(Values)
  BY <1>1
<1>3. t.annotations \in [Items \X Keys -> Seq(Values)]
  BY <1>1, <1>2 DEF Storages, addAnnotation
<1>4. t.inverseAnnotations \in [Keys \X Values \X Items -> Nat]
  BY DEF Storages, addAnnotation
<1>5. t.annoKeys \in [Keys -> Nat]
  BY DEF Storages, addAnnotation
<1> QED
  BY <1>3, <1>4, <1>5 DEF Storages, addAnnotation

\* A label more, at most, and one more counted.
LEMMA AddCounted ==
    ASSUME IsFiniteSet(Items), NEW s \in Storages, Counted(s),
           NEW i \in Items, NEW k \in Keys, NEW v \in Values
    PROVE  Counted(addAnnotation(s, i, k, v))
<1> DEFINE t == addAnnotation(s, i, k, v)
           new == <<i, Len(s.annotations[<<i, k>>]) + 1>>
<1> SUFFICES ASSUME NEW l \in Keys PROVE Cardinality(Entries(t, l)) <= t.annoKeys[l]
  BY DEF Counted
<1>1. s.annotations \in [Items \X Keys -> Seq(Values)]
  BY DEF Storages
<1>2. IsFiniteSet(Entries(s, l)) /\ Cardinality(Entries(s, l)) \in Nat
  BY EntriesFinite, FS_CardinalityType DEF Entries
<1>3. \A j \in Items : <<j, l>> # <<i, k>> => t.annotations[<<j, l>>] = s.annotations[<<j, l>>]
  BY <1>1 DEF addAnnotation
<1>4. Cardinality(Entries(s, l)) <= s.annoKeys[l] /\ s.annoKeys[l] \in Nat
  BY DEF Counted, Storages
<1>5. CASE l # k
  <2>1. Entries(t, l) = Entries(s, l)
    BY <1>3, <1>5 DEF Entries, EntriesOf
  <2>2. t.annoKeys[l] = s.annoKeys[l]
    BY <1>5 DEF addAnnotation, Storages
  <2> QED
    BY <1>4, <2>1, <2>2
<1>6. CASE l = k
  <2>1. t.annotations[<<i, k>>] \in {s.annotations[<<i, k>>], Append(s.annotations[<<i, k>>], v)}
    BY <1>1 DEF addAnnotation
  <2>2. DOMAIN t.annotations[<<i, k>>] \subseteq
           DOMAIN s.annotations[<<i, k>>] \cup {Len(s.annotations[<<i, k>>]) + 1}
    <3>1. s.annotations[<<i, k>>] \in Seq(Values)
      BY <1>1
    <3>2. DOMAIN Append(s.annotations[<<i, k>>], v) =
             DOMAIN s.annotations[<<i, k>>] \cup {Len(s.annotations[<<i, k>>]) + 1}
      BY <3>1
    <3> QED
      BY <2>1, <3>2
  <2> HIDE DEF t
  <2>3. Entries(t, l) \subseteq Entries(s, l) \cup {new}
    BY <1>3, <1>6, <2>2 DEF Entries, EntriesOf
  <2>4. /\ IsFiniteSet(Entries(s, l) \cup {new})
        /\ Cardinality(Entries(s, l) \cup {new}) <= Cardinality(Entries(s, l)) + 1
    <3>1. /\ IsFiniteSet(Entries(s, l) \cup {new})
          /\ \/ Cardinality(Entries(s, l) \cup {new}) = Cardinality(Entries(s, l))
             \/ Cardinality(Entries(s, l) \cup {new}) = Cardinality(Entries(s, l)) + 1
      BY <1>2, FS_AddElement
    <3> HIDE DEF new
    <3> QED
      BY <1>2, <3>1
  <2>5. Cardinality(Entries(t, l)) <= Cardinality(Entries(s, l) \cup {new})
    BY <2>3, <2>4, FS_Subset
  <2>6. Cardinality(Entries(t, l)) \in Nat /\ Cardinality(Entries(s, l) \cup {new}) \in Nat
    BY <2>3, <2>4, FS_Subset, FS_CardinalityType
  <2>7. t.annoKeys[l] = s.annoKeys[l] + 1
    BY <1>6 DEF addAnnotation, Storages, t
  <2> QED
    BY <1>2, <1>4, <2>4, <2>5, <2>6, <2>7
<1> QED
  BY <1>5, <1>6

\* The first label with its key.
LEMMA AddFirst ==
    ASSUME NEW s \in Storages, NEW i \in Items, NEW k \in Keys, NEW v \in Values, ~Has(s, i, k)
    PROVE  addAnnotation(s, i, k, v).annotations = [s.annotations EXCEPT ![<<i, k>>] = <<v>>]
<1>1. s.annotations[<<i, k>>] = <<>>
  BY DEF Has
<1>2. Append(<<>>, v) = <<v>>
  OBVIOUS
<1> QED
  BY <1>1, <1>2 DEF addAnnotation

LEMMA AddSingle ==
    ASSUME NEW s \in Storages, Single(s), NEW i \in Items, NEW k \in Keys, NEW v \in Values,
           Multi => ~Has(s, i, k)
    PROVE  Single(addAnnotation(s, i, k, v))
<1>1. CASE ~Has(s, i, k)
  <2>1. Len(<<v>>) = 1
    OBVIOUS
  <2> QED
    <3>1. addAnnotation(s, i, k, v).annotations = [s.annotations EXCEPT ![<<i, k>>] = <<v>>]
      BY <1>1, AddFirst
    <3>2. \A x \in Items \X Keys :
             addAnnotation(s, i, k, v).annotations[x] \in {s.annotations[x], <<v>>}
      BY <3>1 DEF Storages
    <3> QED
      BY <2>1, <3>2 DEF Single
<1>2. CASE Has(s, i, k)
  <2>1. addAnnotation(s, i, k, v).annotations = s.annotations
    BY <1>2 DEF Storages, addAnnotation, Has
  <2> QED
    BY <2>1 DEF Single
<1> QED
  BY <1>1, <1>2

LEMMA AddAgrees ==
    ASSUME NEW s \in Storages, IndexAgrees(s),
           NEW i \in Items, NEW k \in Keys, NEW v \in Values, ~Has(s, i, k)
    PROVE  IndexAgrees(addAnnotation(s, i, k, v))
<1> DEFINE t == addAnnotation(s, i, k, v)
<1>1. t.annotations = [s.annotations EXCEPT ![<<i, k>>] = <<v>>]
  BY AddFirst
<1>2. t.inverseAnnotations = [s.inverseAnnotations EXCEPT ![<<k, v, i>>] = @ + 1]
  BY DEF addAnnotation
<1> HIDE DEF t
<1> SUFFICES ASSUME NEW j \in Items, NEW l \in Keys, NEW w \in Values
             PROVE  t.inverseAnnotations[<<l, w, j>>] =
                      IF \E n \in DOMAIN t.annotations[<<j, l>>] : t.annotations[<<j, l>>][n] = w
                      THEN 1 ELSE 0
  BY DEF IndexAgrees, t
<1>3. s.inverseAnnotations[<<l, w, j>>] =
         IF \E n \in DOMAIN s.annotations[<<j, l>>] : s.annotations[<<j, l>>][n] = w THEN 1 ELSE 0
  BY DEF IndexAgrees
<1>4. CASE j = i /\ l = k
  <2>1. s.annotations[<<j, l>>] = <<>>
    BY <1>4 DEF Has
  <2>2. s.inverseAnnotations[<<l, w, j>>] = 0
    BY <1>3, <2>1
  <2>3. t.annotations[<<j, l>>] = <<v>>
    BY <1>1, <1>4 DEF Storages
  <2>4. t.inverseAnnotations[<<l, w, j>>] = IF w = v THEN 1 ELSE 0
    <3>1. \A x \in Keys \X Values \X Items :
             t.inverseAnnotations[x] = IF x = <<k, v, i>> THEN s.inverseAnnotations[x] + 1
                                       ELSE s.inverseAnnotations[x]
      BY <1>2 DEF Storages
    <3>2. <<l, w, j>> = <<k, v, i>> <=> w = v
      BY <1>4
    <3> QED
      BY <2>2, <3>1, <3>2
  <2>5. DOMAIN <<v>> = {1} /\ <<v>>[1] = v
    OBVIOUS
  <2> QED
    BY <2>3, <2>4, <2>5
<1>5. CASE ~(j = i /\ l = k)
  <2>1. t.annotations[<<j, l>>] = s.annotations[<<j, l>>]
    BY <1>1, <1>5 DEF Storages
  <2>2. t.inverseAnnotations[<<l, w, j>>] = s.inverseAnnotations[<<l, w, j>>]
    BY <1>2, <1>5 DEF Storages
  <2> QED
    BY <1>3, <2>1, <2>2
<1> QED
  BY <1>4, <1>5

----------------------------------------------------------------------------
LEMMA DeleteTyped ==
    ASSUME NEW s \in Storages, NEW i \in Items, NEW k \in Keys
    PROVE  deleteAnnotation(s, i, k) \in Storages
<1> DEFINE t == deleteAnnotation(s, i, k)
<1>1. CASE ~Has(s, i, k)
  BY <1>1 DEF deleteAnnotation
<1>2. CASE Has(s, i, k)
  <2>1. s.annotations[<<i, k>>] \in Seq(Values) /\ s.annotations[<<i, k>>] # <<>>
    BY <1>2 DEF Storages, Has
  <2>2. Tail(s.annotations[<<i, k>>]) \in Seq(Values)
    BY <2>1, HeadTailProperties
  <2>3. t.annotations \in [Items \X Keys -> Seq(Values)]
    BY <1>2, <2>2 DEF Storages, deleteAnnotation
  <2>4. t.inverseAnnotations \in [Keys \X Values \X Items -> Nat]
    BY <1>2 DEF Storages, deleteAnnotation, Erase
  <2>5. t.annoKeys \in [Keys -> Nat]
    BY <1>2 DEF Storages, deleteAnnotation
  <2> QED
    BY <1>2, <2>3, <2>4, <2>5 DEF Storages, deleteAnnotation
<1> QED
  BY <1>1, <1>2

\* A label less, and one less counted.
LEMMA DeleteCounted ==
    ASSUME IsFiniteSet(Items), NEW s \in Storages, Counted(s), NEW i \in Items, NEW k \in Keys
    PROVE  Counted(deleteAnnotation(s, i, k))
<1> DEFINE t == deleteAnnotation(s, i, k)
           old == s.annotations[<<i, k>>]
           last == <<i, Len(old)>>
<1> SUFFICES ASSUME Has(s, i, k), NEW l \in Keys PROVE Cardinality(Entries(t, l)) <= t.annoKeys[l]
  BY DEF Counted, deleteAnnotation
<1>1. s.annotations \in [Items \X Keys -> Seq(Values)] /\ old # <<>>
  BY DEF Storages, Has
<1>2. IsFiniteSet(Entries(s, l)) /\ Cardinality(Entries(s, l)) \in Nat
  BY EntriesFinite, FS_CardinalityType DEF Entries
<1>3. \A j \in Items : t.annotations[<<j, l>>] =
         IF j = i /\ l = k THEN Tail(old) ELSE s.annotations[<<j, l>>]
  BY <1>1 DEF deleteAnnotation
<1>4. Cardinality(Entries(s, l)) <= s.annoKeys[l] /\ s.annoKeys[l] \in Nat
  BY DEF Counted, Storages
<1>5. CASE l # k
  <2>1. Entries(t, l) = Entries(s, l)
    BY <1>3, <1>5 DEF Entries, EntriesOf
  <2>2. t.annoKeys[l] = s.annoKeys[l]
    BY <1>5 DEF deleteAnnotation, Storages
  <2> QED
    BY <1>4, <2>1, <2>2
<1>6. CASE l = k
  <2>1. old \in Seq(Values)
    BY <1>1
  <2>2. Len(old) \in Nat \ {0} /\ DOMAIN old = 1 .. Len(old) /\ DOMAIN Tail(old) = 1 .. Len(old) - 1
    <3>1. Tail(old) \in Seq(Values) /\ Len(Tail(old)) = Len(old) - 1
      BY <1>1, <2>1, HeadTailProperties
    <3> QED
      BY <1>1, <2>1, <3>1
  <2>3. last \in Entries(s, l)
    BY <1>6, <2>2 DEF Entries, EntriesOf
  <2> HIDE DEF t
  <2>4. Entries(t, l) \subseteq Entries(s, l) \ {last}
    <3> SUFFICES ASSUME NEW p \in Entries(t, l) PROVE p \in Entries(s, l) /\ p # last
      OBVIOUS
    <3>3. PICK j \in Items : \E n \in DOMAIN t.annotations[<<j, l>>] : p = <<j, n>>
      BY EntryIs DEF Entries, IsEntry
    <3>4. PICK n \in DOMAIN t.annotations[<<j, l>>] : p = <<j, n>>
      BY <3>3
    <3> SUFFICES n \in DOMAIN s.annotations[<<j, l>>] /\ <<j, n>> # last
      <4>1. n \in DOMAIN s.annotations[<<j, l>>] => IsEntry(p, s, l, Items)
        BY <3>4 DEF IsEntry
      <4> QED
        BY <3>4, <4>1, EntryIs DEF Entries
    <3>1. CASE j = i
      <4>1. n \in 1 .. Len(old) - 1
        BY <1>3, <1>6, <2>2, <3>1
      <4> QED
        BY <1>6, <2>2, <3>1, <4>1
    <3>2. CASE j # i
      BY <1>3, <3>2
    <3> QED
      BY <3>1, <3>2
  <2>5. IsFiniteSet(Entries(s, l) \ {last}) /\ Cardinality(Entries(s, l) \ {last}) = Cardinality(Entries(s, l)) - 1
    <3> HIDE DEF last
    <3> QED
      BY <1>2, <2>3, FS_RemoveElement
  <2>6. Cardinality(Entries(t, l)) <= Cardinality(Entries(s, l)) - 1 /\ Cardinality(Entries(t, l)) \in Nat
    <3>1. Cardinality(Entries(t, l)) <= Cardinality(Entries(s, l) \ {last}) /\ IsFiniteSet(Entries(t, l))
      BY <2>4, <2>5, FS_Subset
    <3> QED
      BY <2>5, <3>1, FS_CardinalityType
  <2>7. t.annoKeys[l] = IF s.annoKeys[l] > 0 THEN s.annoKeys[l] - 1 ELSE s.annoKeys[l]
    BY <1>6 DEF deleteAnnotation, Storages, t
  <2> QED
    BY <1>2, <1>4, <2>6, <2>7
<1> QED
  BY <1>5, <1>6

\* The only label with its key.
LEMMA DeleteOnly ==
    ASSUME NEW s \in Storages, Single(s), NEW i \in Items, NEW k \in Keys
    PROVE  deleteAnnotation(s, i, k).annotations = [s.annotations EXCEPT ![<<i, k>>] = <<>>]
<1> DEFINE old == s.annotations[<<i, k>>]
<1>1. s.annotations \in [Items \X Keys -> Seq(Values)] /\ old \in Seq(Values) /\ Len(old) <= 1
  BY DEF Storages, Single
<1>2. CASE old = <<>>
  BY <1>1, <1>2 DEF deleteAnnotation, Has
<1>3. CASE old # <<>>
  <2>1. Tail(old) = <<>>
    <3>1. Tail(old) \in Seq(Values) /\ Len(Tail(old)) = Len(old) - 1 /\ Len(old) # 0
      BY <1>1, <1>3, HeadTailProperties, EmptySeq
    <3>2. Len(Tail(old)) = 0
      <4>1. Len(old) \in Nat
        BY <1>1
      <4> HIDE DEF old
      <4> QED
        BY <1>1, <3>1, <4>1
    <3> QED
      BY <3>1, <3>2, EmptySeq
  <2> QED
    BY <1>3, <2>1 DEF deleteAnnotation, Has
<1> QED
  BY <1>2, <1>3

LEMMA DeleteSingle ==
    ASSUME NEW s \in Storages, Single(s), NEW i \in Items, NEW k \in Keys
    PROVE  Single(deleteAnnotation(s, i, k))
<1>1. deleteAnnotation(s, i, k).annotations = [s.annotations EXCEPT ![<<i, k>>] = <<>>]
  BY DeleteOnly
<1>2. \A x \in Items \X Keys : deleteAnnotation(s, i, k).annotations[x] \in {s.annotations[x], <<>>}
  BY <1>1 DEF Storages
<1>3. Len(<<>>) = 0
  BY EmptySeq
<1> QED
  BY <1>2, <1>3 DEF Single

\* Erasing takes the entries of every item with the label: here of this one only.
LEMMA DeleteAgrees ==
    ASSUME NEW s \in Storages, IndexAgrees(s), Single(s), NEW i \in Items, NEW k \in Keys,
           Unshared(s, i, k)
    PROVE  IndexAgrees(deleteAnnotation(s, i, k))
<1> DEFINE t == deleteAnnotation(s, i, k)
           old == s.annotations[<<i, k>>]
<1>1. CASE old = <<>>
  BY <1>1 DEF deleteAnnotation, Has
<1>2. CASE old # <<>>
  <2>1. old \in Seq(Values) /\ Len(old) <= 1
    BY DEF Storages, Single
  <2>2. old = <<Head(old)>> /\ Head(old) \in Values
    <3>1. Len(old) = 1
      <4>1. Len(old) \in Nat
        BY <2>1
      <4>2. Len(old) # 0
        BY <1>2, <2>1, EmptySeq
      <4>3. \A n \in Nat : n <= 1 /\ n # 0 => n = 1
        OBVIOUS
      <4> QED
        BY <2>1, <4>1, <4>2, <4>3, Zenon
    <3> QED
      BY <2>1, <3>1
  <2> DEFINE v == Head(old)
  <2>3. s.inverseAnnotations[<<k, v, i>>] = 1
    <3>1. 1 \in DOMAIN old /\ old[1] = v
      BY <2>2
    <3> QED
      BY <2>2, <3>1 DEF IndexAgrees
  <2>4. \A j \in Items : s.inverseAnnotations[<<k, v, j>>] > 0 => j = i
    BY <2>2, <2>3 DEF Unshared, Found
  <2>5. /\ t.annotations = [s.annotations EXCEPT ![<<i, k>>] = <<>>]
        /\ t.inverseAnnotations = [x \in Keys \X Values \X Items |->
              IF x[1] = k /\ x[2] = v THEN 0 ELSE s.inverseAnnotations[x]]
    BY <1>2, DeleteOnly DEF deleteAnnotation, Has, Erase
  <2> HIDE DEF t, v
  <2> SUFFICES ASSUME NEW j \in Items, NEW l \in Keys, NEW w \in Values
               PROVE  t.inverseAnnotations[<<l, w, j>>] =
                        IF \E n \in DOMAIN t.annotations[<<j, l>>] : t.annotations[<<j, l>>][n] = w
                        THEN 1 ELSE 0
    BY DEF IndexAgrees, t
  <2>6. s.inverseAnnotations[<<l, w, j>>] =
           IF \E n \in DOMAIN s.annotations[<<j, l>>] : s.annotations[<<j, l>>][n] = w THEN 1 ELSE 0
    BY DEF IndexAgrees
  <2>7. t.inverseAnnotations[<<l, w, j>>] =
           IF l = k /\ w = v THEN 0 ELSE s.inverseAnnotations[<<l, w, j>>]
    BY <2>5
  <2>8. t.annotations[<<j, l>>] = IF j = i /\ l = k THEN <<>> ELSE s.annotations[<<j, l>>]
    BY <2>5 DEF Storages
  <2>9. CASE j = i /\ l = k
    <3>1. DOMAIN t.annotations[<<j, l>>] = {}
      BY <2>8, <2>9
    <3>2. w # v => s.inverseAnnotations[<<l, w, j>>] = 0
      <4>1. \A n \in DOMAIN s.annotations[<<j, l>>] : s.annotations[<<j, l>>][n] = v
        BY <2>2, <2>9 DEF v
      <4> QED
        BY <2>6, <4>1
    <3> QED
      BY <2>7, <2>9, <3>1, <3>2
  <2>10. CASE ~(j = i /\ l = k)
    <3>1. l = k /\ w = v => s.inverseAnnotations[<<l, w, j>>] = 0
      BY <2>4, <2>6, <2>10
    <3> QED
      BY <2>6, <2>7, <2>8, <2>10, <3>1
  <2> QED
    BY <2>9, <2>10
<1> QED
  BY <1>1, <1>2

----------------------------------------------------------------------------
LEMMA DeleteAllShape ==
    ASSUME NEW s \in Storages, NEW items \in SUBSET Items
    PROVE  LET t == deleteAnnotations(s, items)
           IN  /\ t = [annotations |-> t.annotations, inverseAnnotations |-> t.inverseAnnotations,
                       annoKeys |-> t.annoKeys]
               /\ t.annotations =
                    [x \in Items \X Keys |-> IF x[1] \in items THEN <<>> ELSE s.annotations[x]]
               /\ t.inverseAnnotations =
                    [x \in Keys \X Values \X Items |->
                        IF \E i \in items : \E n \in DOMAIN s.annotations[<<i, x[1]>>] :
                               s.annotations[<<i, x[1]>>][n] = x[2]
                        THEN 0 ELSE s.inverseAnnotations[x]]
               /\ t.annoKeys =
                    [k \in Keys |->
                        IF s.annoKeys[k] > Cardinality(EntriesOf(s, k, items))
                        THEN s.annoKeys[k] - Cardinality(EntriesOf(s, k, items)) ELSE 0]
BY DEF deleteAnnotations, EntriesOf

LEMMA DeleteAllTyped ==
    ASSUME IsFiniteSet(Items), NEW s \in Storages, NEW items \in SUBSET Items
    PROVE  deleteAnnotations(s, items) \in Storages
<1> DEFINE t == deleteAnnotations(s, items)
<1> HIDE DEF t
<1>1. /\ t = [annotations |-> t.annotations, inverseAnnotations |-> t.inverseAnnotations,
              annoKeys |-> t.annoKeys]
      /\ t.annotations = [x \in Items \X Keys |-> IF x[1] \in items THEN <<>> ELSE s.annotations[x]]
      /\ t.inverseAnnotations =
            [x \in Keys \X Values \X Items |->
                IF \E i \in items : \E n \in DOMAIN s.annotations[<<i, x[1]>>] :
                       s.annotations[<<i, x[1]>>][n] = x[2]
                THEN 0 ELSE s.inverseAnnotations[x]]
      /\ t.annoKeys = [k \in Keys |->
            IF s.annoKeys[k] > Cardinality(EntriesOf(s, k, items))
            THEN s.annoKeys[k] - Cardinality(EntriesOf(s, k, items)) ELSE 0]
  BY DeleteAllShape DEF t
<1>2. \A k \in Keys : Cardinality(EntriesOf(s, k, items)) \in Nat
  BY EntriesFinite, FS_CardinalityType
<1>3. <<>> \in Seq(Values)
  OBVIOUS
<1>4. t.annotations \in [Items \X Keys -> Seq(Values)]
  BY <1>1, <1>3 DEF Storages
<1>5. t.inverseAnnotations \in [Keys \X Values \X Items -> Nat]
  BY <1>1 DEF Storages
<1>6. t.annoKeys \in [Keys -> Nat]
  <2>1. \A k \in Keys : s.annoKeys[k] \in Nat
    BY DEF Storages
  <2>2. \A k \in Keys : t.annoKeys[k] \in Nat
    BY <1>1, <1>2, <2>1
  <2> QED
    BY <1>1, <2>2
<1> QED
  BY <1>1, <1>4, <1>5, <1>6 DEF Storages, t

\* As many labels less as are counted less.
LEMMA DeleteAllCounted ==
    ASSUME IsFiniteSet(Items), NEW s \in Storages, Counted(s), NEW items \in SUBSET Items
    PROVE  Counted(deleteAnnotations(s, items))
<1> DEFINE t == deleteAnnotations(s, items)
<1> HIDE DEF t
<1> SUFFICES ASSUME NEW k \in Keys PROVE Cardinality(Entries(t, k)) <= t.annoKeys[k]
  BY DEF Counted, t
<1> DEFINE E == Entries(s, k)
           D == EntriesOf(s, k, items)
<1>1. /\ t.annotations = [x \in Items \X Keys |-> IF x[1] \in items THEN <<>> ELSE s.annotations[x]]
      /\ t.annoKeys[k] = IF s.annoKeys[k] > Cardinality(D) THEN s.annoKeys[k] - Cardinality(D) ELSE 0
  <2>1. t.annotations = [x \in Items \X Keys |-> IF x[1] \in items THEN <<>> ELSE s.annotations[x]]
    BY DeleteAllShape DEF t
  <2>2. t.annoKeys = [l \in Keys |->
            IF s.annoKeys[l] > Cardinality(EntriesOf(s, l, items))
            THEN s.annoKeys[l] - Cardinality(EntriesOf(s, l, items)) ELSE 0]
    BY DeleteAllShape DEF t
  <2> QED
    BY <2>1, <2>2
<1>2. IsFiniteSet(E) /\ IsFiniteSet(D)
  BY EntriesFinite DEF Entries
<1>3. D \subseteq E
  BY DEF Entries, EntriesOf
<1>4. Entries(t, k) = E \ D
  <2>1. \A i \in items : DOMAIN t.annotations[<<i, k>>] = {}
    BY <1>1
  <2>2. \A i \in Items \ items : t.annotations[<<i, k>>] = s.annotations[<<i, k>>]
    BY <1>1
  <2>3. ASSUME NEW p PROVE p \in Entries(t, k) <=> p \in E \ D
    <3>1. p \in Entries(t, k) <=> IsEntry(p, t, k, Items)
      BY EntryIs DEF Entries
    <3>2. p \in E <=> IsEntry(p, s, k, Items)
      BY EntryIs DEF Entries
    <3>3. p \in D <=> IsEntry(p, s, k, items)
      BY EntryIs
    <3>4. IsEntry(p, t, k, Items) <=> IsEntry(p, s, k, Items) /\ ~IsEntry(p, s, k, items)
      <4>1. ASSUME NEW i \in Items, NEW n \in DOMAIN t.annotations[<<i, k>>], p = <<i, n>>
            PROVE  IsEntry(p, s, k, Items) /\ ~IsEntry(p, s, k, items)
        <5>1. i \in Items \ items /\ n \in DOMAIN s.annotations[<<i, k>>]
          BY <2>1, <2>2
        <5> QED
          BY <4>1, <5>1 DEF IsEntry
      <4>2. ASSUME NEW i \in Items, NEW n \in DOMAIN s.annotations[<<i, k>>], p = <<i, n>>,
                   ~IsEntry(p, s, k, items)
            PROVE  IsEntry(p, t, k, Items)
        <5>1. i \in Items \ items
          BY <4>2 DEF IsEntry
        <5>2. n \in DOMAIN t.annotations[<<i, k>>]
          BY <2>2, <5>1
        <5> QED
          BY <4>2, <5>2 DEF IsEntry
      <4>3. IsEntry(p, t, k, Items) => IsEntry(p, s, k, Items) /\ ~IsEntry(p, s, k, items)
        BY <4>1 DEF IsEntry
      <4>4. IsEntry(p, s, k, Items) /\ ~IsEntry(p, s, k, items) => IsEntry(p, t, k, Items)
        <5> SUFFICES ASSUME IsEntry(p, s, k, Items), ~IsEntry(p, s, k, items)
                     PROVE  IsEntry(p, t, k, Items)
          OBVIOUS
        <5>1. PICK i \in Items : \E n \in DOMAIN s.annotations[<<i, k>>] : p = <<i, n>>
          BY DEF IsEntry
        <5> QED
          BY <4>2, <5>1
      <4> QED
        BY <4>3, <4>4
    <3> QED
      BY <3>1, <3>2, <3>3, <3>4
  <2> QED
    BY <2>3
<1>5. Cardinality(E \ D) = Cardinality(E) - Cardinality(E \cap D) /\ E \cap D = D
  <2> HIDE DEF E, D
  <2> QED
    BY <1>2, <1>3, FS_Difference
<1>6. Cardinality(E) <= s.annoKeys[k] /\ s.annoKeys[k] \in Nat
  BY DEF Counted, Storages
<1>7. Cardinality(E) \in Nat /\ Cardinality(D) \in Nat
  BY <1>2, FS_CardinalityType
<1> HIDE DEF E, D
<1>8. Cardinality(Entries(t, k)) = Cardinality(E) - Cardinality(D)
  BY <1>4, <1>5
<1>9. Cardinality(D) <= Cardinality(E)
  BY <1>2, <1>3, FS_Subset
<1> QED
  BY <1>1, <1>6, <1>7, <1>8, <1>9

LEMMA DeleteAllSingle ==
    ASSUME NEW s \in Storages, Single(s), NEW items \in SUBSET Items
    PROVE  Single(deleteAnnotations(s, items))
<1>1. \A x \in Items \X Keys : deleteAnnotations(s, items).annotations[x] \in {s.annotations[x], <<>>}
  <2> DEFINE t == deleteAnnotations(s, items)
  <2>1. t.annotations = [x \in Items \X Keys |-> IF x[1] \in items THEN <<>> ELSE s.annotations[x]]
    BY DeleteAllShape
  <2> HIDE DEF t
  <2> QED
    BY <2>1 DEF t
<1>2. Len(<<>>) = 0
  BY EmptySeq
<1> QED
  BY <1>1, <1>2 DEF Single

LEMMA DeleteAllAgrees ==
    ASSUME NEW s \in Storages, IndexAgrees(s), NEW items \in SUBSET Items,
           \A i \in items, k \in Keys : Unshared(s, i, k)
    PROVE  IndexAgrees(deleteAnnotations(s, items))
<1> DEFINE t == deleteAnnotations(s, items)
           Labelled(i, k, v) == \E n \in DOMAIN s.annotations[<<i, k>>] : s.annotations[<<i, k>>][n] = v
<1> HIDE DEF t
<1>1. /\ t.annotations = [x \in Items \X Keys |-> IF x[1] \in items THEN <<>> ELSE s.annotations[x]]
      /\ t.inverseAnnotations =
            [x \in Keys \X Values \X Items |->
                IF \E i \in items : Labelled(i, x[1], x[2]) THEN 0 ELSE s.inverseAnnotations[x]]
  BY DeleteAllShape DEF t
<1> SUFFICES ASSUME NEW j \in Items, NEW k \in Keys, NEW v \in Values
             PROVE  t.inverseAnnotations[<<k, v, j>>] =
                      IF \E n \in DOMAIN t.annotations[<<j, k>>] : t.annotations[<<j, k>>][n] = v
                      THEN 1 ELSE 0
  BY DEF IndexAgrees, t
<1>2. \A i \in Items : s.inverseAnnotations[<<k, v, i>>] = IF Labelled(i, k, v) THEN 1 ELSE 0
  BY DEF IndexAgrees
<1>3. t.inverseAnnotations[<<k, v, j>>] =
         IF \E i \in items : Labelled(i, k, v) THEN 0 ELSE s.inverseAnnotations[<<k, v, j>>]
  <2>1. <<k, v, j>> \in Keys \X Values \X Items /\ <<k, v, j>>[1] = k /\ <<k, v, j>>[2] = v
    OBVIOUS
  <2> HIDE DEF Labelled
  <2> QED
    BY <1>1, <2>1
<1>4. CASE j \in items
  <2>1. DOMAIN t.annotations[<<j, k>>] = {}
    BY <1>1, <1>4
  <2>2. t.inverseAnnotations[<<k, v, j>>] = 0
    <3> HIDE DEF Labelled
    <3> QED
      BY <1>2, <1>3, <1>4
  <2> QED
    BY <2>1, <2>2
<1>5. CASE j \notin items
  <2>1. t.annotations[<<j, k>>] = s.annotations[<<j, k>>]
    BY <1>1, <1>5
  <2>2. (\E i \in items : Labelled(i, k, v)) => s.inverseAnnotations[<<k, v, j>>] = 0
    <3> HIDE DEF Labelled
    <3> SUFFICES ASSUME NEW i \in items, Labelled(i, k, v) PROVE ~(s.inverseAnnotations[<<k, v, j>>] > 0)
      <4>1. s.inverseAnnotations[<<k, v, j>>] \in {0, 1}
        BY <1>2
      <4> QED
        BY <4>1
    <3>1. i \in Found(s, k, v)
      BY <1>2 DEF Found
    <3>2. Found(s, k, v) = {i}
      BY <3>1 DEF Unshared
    <3>3. j \notin Found(s, k, v)
      BY <1>5, <3>2
    <3> QED
      BY <3>3 DEF Found
  <2> QED
    BY <1>2, <1>3, <2>1, <2>2
<1> QED
  BY <1>4, <1>5
=============================================================================
