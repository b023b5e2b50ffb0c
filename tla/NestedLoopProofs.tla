-------------------------- MODULE NestedLoopProofs --------------------------
(****************************************************************************)
(* For iterators of any length and any combinations to include: the walk    *)
(* returns each of them once, in order, and ends only behind the last one.  *)
(****************************************************************************)
EXTENDS NestedLoop, SequenceTheorems, TLAPS

\* The place in the inner tuples, wherever they are read from.
Place == IF UseCache THEN itInnerCache ELSE inner

\* The combinations that the walk has passed.
Passed == {p \in Combinations : p[1] < outer \/ (p[1] = outer /\ p[2] <= Place)}

\* What is read is 1, 2, ..., n.
Counts(s, n) == Len(s) = n /\ \A i \in 1 .. n : s[i] = i

\* A NestedLoopJoin over one outer tuple that is reset fills its cache again,
\* but does not read it.
CacheFills ==
    /\ UseCache => Counts(innerCache, innerSize)
    /\ Materialize /\ ~firstOuterFinished /\ outerSize > 1 => Counts(innerCache, inner)
    /\ ~UseCache => itInnerCache = 0

Rounds ==
    /\ initialized <=> outer > 0
    /\ ~initialized => Place = 0 /\ pc = "idle"
    /\ outer > 1 /\ Materialize => firstOuterFinished
    /\ pc = "outer" => Place = innerSize
    /\ ended => innerSize = 0 \/ outerSize = 0 \/ (outer = outerSize /\ Place = innerSize)
    /\ ended /\ outerSize > 1 /\ Materialize => firstOuterFinished

IInv == TypeOK /\ CacheFills /\ Rounds /\ Returned = Passed /\ InOrder

----------------------------------------------------------------------------
LEMMA InvInit == Init => IInv
<1> SUFFICES ASSUME Init PROVE IInv
  OBVIOUS
<1>0. outerSize \in Nat /\ innerSize \in Nat /\ MaxResets \in Nat
  BY NestedAssumption DEF Init
<1>1. TypeOK
  <2>1. innerCache \in Seq(1 .. innerSize) /\ Len(innerCache) = 0
    BY DEF Init
  <2>2. output \in Seq((1 .. outerSize) \X (1 .. innerSize))
    BY DEF Init
  <2>3. itInnerCache \in 0 .. Len(innerCache)
    BY <2>1 DEF Init
  <2>4. outer \in 0 .. outerSize /\ inner \in 0 .. innerSize /\ resets \in 0 .. MaxResets
    BY <1>0 DEF Init
  <2>5. /\ mode \in Modes /\ outerSize \in 0 .. MaxOuter /\ innerSize \in 0 .. MaxInner
        /\ firstOuterFinished \in BOOLEAN /\ initialized \in BOOLEAN /\ ended \in BOOLEAN
        /\ pc \in {"idle", "inner", "outer"}
    BY DEF Init
  <2> QED
    BY <2>1, <2>2, <2>3, <2>4, <2>5 DEF TypeOK
<1>2. CacheFills /\ Rounds
  BY DEF Init, CacheFills, Rounds, Counts, UseCache, Materialize, Place
<1>3. Returned = Passed
  BY <1>1 DEF Init, Returned, Passed, Combinations, Place, UseCache
<1>4. InOrder
  BY DEF Init, InOrder
<1> QED
  BY <1>1, <1>2, <1>3, <1>4 DEF IInv

\* A step that returns nothing, if what is passed stays the same.
LEMMA Silent ==
    ASSUME IInv, UNCHANGED output, Passed' = Passed
    PROVE  Returned' = Passed' /\ InOrder'
BY DEF IInv, Returned, InOrder

LEMMA Numbers ==
    ASSUME IInv
    PROVE  /\ outerSize \in Nat /\ innerSize \in Nat /\ MaxResets \in Nat
           /\ outer \in Nat /\ outer <= outerSize /\ inner \in Nat /\ inner <= innerSize
           /\ itInnerCache \in Nat /\ Len(innerCache) \in Nat /\ itInnerCache <= Len(innerCache)
           /\ Place \in Nat /\ Place <= innerSize
<1>1. /\ outerSize \in Nat /\ innerSize \in Nat /\ MaxResets \in Nat
      /\ innerCache \in Seq(1 .. innerSize)
  BY NestedAssumption DEF IInv, TypeOK
<1>2. Len(innerCache) \in Nat
  BY <1>1
<1>3. /\ outer \in Nat /\ outer <= outerSize /\ inner \in Nat /\ inner <= innerSize
      /\ itInnerCache \in Nat /\ itInnerCache <= Len(innerCache)
  BY <1>1, <1>2 DEF IInv, TypeOK
<1>4. UseCache => Len(innerCache) = innerSize
  BY DEF IInv, CacheFills, Counts
<1> QED
  BY <1>1, <1>2, <1>3, <1>4 DEF Place

LEMMA CallStep == IInv /\ Call => IInv'
<1> SUFFICES ASSUME IInv, Call PROVE IInv'
  OBVIOUS
<1>1. /\ pc = "idle" /\ UNCHANGED <<mode, outerSize, innerSize, inner, innerCache, itInnerCache,
                                    firstOuterFinished, output, resets>>
      /\ \/ /\ UseCache /\ innerCache = <<>>
            /\ pc' = "idle" /\ ended' = TRUE /\ outer' = outer /\ initialized' = initialized
         \/ /\ initialized
            /\ pc' = "inner" /\ ended' = ended /\ outer' = outer /\ initialized' = initialized
         \/ /\ ~initialized /\ outer < outerSize
            /\ pc' = "inner" /\ ended' = ended /\ outer' = outer + 1 /\ initialized' = TRUE
         \/ /\ ~initialized /\ ~(outer < outerSize)
            /\ pc' = "idle" /\ ended' = TRUE /\ outer' = outer /\ initialized' = initialized
  BY DEF Call, ReturnFalse, UseCache, Materialize, config, cache
<1>2. UseCache' = UseCache /\ Materialize' = Materialize /\ Place' = Place /\ Combinations' = Combinations
  BY <1>1 DEF UseCache, Materialize, Place, Combinations, Wanted
<1>3. outer' \in 0 .. outerSize
  BY <1>1, Numbers
<1>4. TypeOK'
  BY <1>1, <1>3 DEF IInv, TypeOK
<1>5. CacheFills'
  BY <1>1, <1>2 DEF IInv, CacheFills, Counts
<1>6. ~initialized => outer = 0
  BY Numbers DEF IInv, Rounds
<1>7. UseCache /\ innerCache = <<>> => innerSize = 0 /\ firstOuterFinished
  BY DEF IInv, CacheFills, Counts, UseCache
<1>8. Rounds'
  BY <1>1, <1>2, <1>6, <1>7, Numbers DEF IInv, Rounds
<1>9. Passed' = Passed
  <2>1. CASE outer' = outer
    BY <1>1, <1>2, <2>1 DEF Passed
  <2>2. CASE outer' = outer + 1
    <3>1. outer = 0 /\ Place = 0
      BY <1>1, <1>6, <2>2, Numbers DEF IInv, Rounds
    <3>2. \A q \in Combinations : q[1] \in Nat /\ q[2] \in Nat /\ q[1] > 0 /\ q[2] > 0
      BY Numbers DEF Combinations
    <3>3. Passed = {} /\ Passed' = {}
      BY <1>2, <2>2, <3>1, <3>2 DEF Passed
    <3> QED
      BY <3>3
  <2> QED
    BY <1>1, <2>1, <2>2
<1> QED
  BY <1>1, <1>4, <1>5, <1>8, <1>9, Silent DEF IInv

\* The next inner tuple: one more combination is passed, and returned if it is
\* to be included.
LEMMA CombineStep ==
    ASSUME IInv, pc = "inner", NEW i \in 1 .. innerSize, i = Place + 1, Place' = i,
           Combine(i), UNCHANGED <<config, outer>>
    PROVE  /\ Returned' = Passed' /\ InOrder'
           /\ output' \in Seq((1 .. outerSize) \X (1 .. innerSize))
           /\ pc' \in {"idle", "inner"}
<1>1. outer \in 1 .. outerSize /\ Place \in Nat
  BY Numbers DEF IInv, Rounds
<1>2. Combinations' = Combinations
  BY DEF Combinations, Wanted, config
<1>3. Passed' = Passed \cup (IF Wanted(outer, i) THEN {<<outer, i>>} ELSE {})
  <2>1. \A q \in Combinations : q = <<q[1], q[2]>> /\ q[1] \in Nat /\ q[2] \in Nat
    BY Numbers DEF Combinations
  <2>2. <<outer, i>> \in Combinations <=> Wanted(outer, i)
    BY <1>1 DEF Combinations
  <2>3. outer' = outer /\ Place' = Place + 1
    OBVIOUS
  <2>4. \A q \in Combinations : q \in Passed' <=> q \in Passed \/ q = <<outer, i>>
    BY <1>1, <1>2, <2>1, <2>3 DEF Passed
  <2>5. Passed \subseteq Combinations /\ Passed' \subseteq Combinations
    BY <1>2 DEF Passed
  <2> QED
    BY <2>2, <2>4, <2>5
<1>4. CASE ~Wanted(outer, i)
  <2>1. output' = output /\ pc' = pc
    BY <1>4 DEF Combine
  <2>2. Passed' = Passed
    BY <1>3, <1>4
  <2> QED
    BY <2>1, <2>2, Silent DEF IInv, TypeOK, config
<1>5. CASE Wanted(outer, i)
  <2> DEFINE n == Len(output)
  <2>1. output' = Append(output, <<outer, i>>) /\ pc' = "idle"
    BY <1>5 DEF Combine
  <2>2. output \in Seq((1 .. outerSize) \X (1 .. innerSize)) /\ <<outer, i>> \in (1 .. outerSize) \X (1 .. innerSize)
    BY <1>1 DEF IInv, TypeOK
  <2>3. /\ output' \in Seq((1 .. outerSize) \X (1 .. innerSize))
        /\ Len(output') = n + 1 /\ output'[n + 1] = <<outer, i>>
        /\ \A k \in 1 .. n : output'[k] = output[k]
    BY <2>1, <2>2, AppendProperties
  <2>4. n \in Nat /\ DOMAIN output = 1 .. n /\ DOMAIN output' = 1 .. (n + 1)
    BY <2>2, <2>3, LenProperties
  <2> HIDE DEF n
  <2>5. Returned' = Returned \cup {<<outer, i>>}
    <3>1. \A x \in Returned' : x \in Returned \/ x = <<outer, i>>
      BY <2>3, <2>4 DEF Returned
    <3>2. \A x \in Returned : x \in Returned'
      BY <2>3, <2>4 DEF Returned
    <3>3. <<outer, i>> \in Returned'
      BY <2>3, <2>4 DEF Returned
    <3> QED
      BY <3>1, <3>2, <3>3
  <2>6. \A k \in 1 .. n : output[k][1] < outer \/ (output[k][1] = outer /\ output[k][2] < i)
    <3> SUFFICES ASSUME NEW k \in 1 .. n
                 PROVE  output[k][1] < outer \/ (output[k][1] = outer /\ output[k][2] < i)
      OBVIOUS
    <3>1. output[k] \in Passed
      BY <2>4 DEF IInv, Returned
    <3>2. output[k][2] \in Nat
      BY <3>1, Numbers DEF Passed, Combinations
    <3> QED
      BY <1>1, <3>1, <3>2 DEF Passed
  <2>7. InOrder'
    <3> SUFFICES ASSUME NEW k \in 1 .. n
                 PROVE  \/ output'[k][1] < output'[k + 1][1]
                        \/ output'[k][1] = output'[k + 1][1] /\ output'[k][2] < output'[k + 1][2]
      BY <2>3, <2>4 DEF InOrder
    <3>1. CASE k = n
      BY <2>3, <2>6, <3>1
    <3>2. CASE k # n
      <4>1. k \in 1 .. (n - 1) /\ k + 1 \in 1 .. n
        BY <2>4, <3>2
      <4>2. \/ output[k][1] < output[k + 1][1]
            \/ output[k][1] = output[k + 1][1] /\ output[k][2] < output[k + 1][2]
        BY <4>1 DEF IInv, InOrder, n
      <4>3. output'[k] = output[k] /\ output'[k + 1] = output[k + 1]
        BY <2>3, <4>1
      <4> QED
        BY <4>2, <4>3
    <3> QED
      BY <3>1, <3>2
  <2> QED
    BY <1>3, <1>5, <2>1, <2>3, <2>5, <2>7 DEF IInv
<1> QED
  BY <1>4, <1>5

LEMMA NextCachedStep == IInv /\ NextCached => IInv'
<1> SUFFICES ASSUME IInv, NextCached PROVE IInv'
  OBVIOUS
<1> DEFINE i == itInnerCache + 1
<1>1. /\ pc = "inner" /\ UseCache /\ itInnerCache < Len(innerCache)
      /\ itInnerCache' = i /\ Combine(innerCache[i])
      /\ UNCHANGED <<mode, outerSize, innerSize, outer, inner, innerCache, firstOuterFinished,
                     initialized, ended, resets>>
  BY DEF NextCached, config
<1>2. Len(innerCache) = innerSize /\ i \in 1 .. innerSize /\ innerCache[i] = i
  BY <1>1, Numbers DEF IInv, CacheFills, Counts
<1>3. UseCache' = UseCache /\ Materialize' = Materialize
  BY <1>1 DEF UseCache, Materialize
<1>4. i = Place + 1 /\ Place' = i
  BY <1>1, <1>3 DEF Place
<1> HIDE DEF i
<1>5. /\ Returned' = Passed' /\ InOrder'
      /\ output' \in Seq((1 .. outerSize) \X (1 .. innerSize))
      /\ pc' \in {"idle", "inner"}
  BY <1>1, <1>2, <1>4, CombineStep DEF config
<1>6. itInnerCache' \in 0 .. Len(innerCache)
  BY <1>1, <1>2, Numbers
<1>7. TypeOK'
  BY <1>1, <1>5, <1>6 DEF IInv, TypeOK
<1>8. CacheFills'
  BY <1>1, <1>3 DEF IInv, CacheFills, Counts
<1>9. Place < innerSize
  BY <1>2, <1>4, Numbers
<1>10. Rounds'
  BY <1>1, <1>3, <1>4, <1>5, <1>9, Numbers DEF IInv, Rounds
<1> QED
  BY <1>5, <1>7, <1>8, <1>10 DEF IInv

LEMMA NextInnerStep == IInv /\ NextInner => IInv'
<1> SUFFICES ASSUME IInv, NextInner PROVE IInv'
  OBVIOUS
<1> DEFINE i == inner + 1
<1>1. /\ pc = "inner" /\ ~UseCache /\ inner < innerSize /\ inner' = i /\ Combine(i)
      /\ innerCache' = IF Materialize THEN Append(innerCache, i) ELSE innerCache
      /\ UNCHANGED <<mode, outerSize, innerSize, outer, itInnerCache, firstOuterFinished,
                     initialized, ended, resets>>
  BY DEF NextInner, config
<1>2. i \in 1 .. innerSize
  BY <1>1, Numbers
<1>3. UseCache' = UseCache /\ Materialize' = Materialize
  BY <1>1 DEF UseCache, Materialize
<1>4. i = Place + 1 /\ Place' = i
  BY <1>1, <1>3 DEF Place
<1>5. innerCache \in Seq(1 .. innerSize)
  BY DEF IInv, TypeOK
<1> HIDE DEF i
<1>6. /\ Returned' = Passed' /\ InOrder'
      /\ output' \in Seq((1 .. outerSize) \X (1 .. innerSize))
      /\ pc' \in {"idle", "inner"}
  BY <1>1, <1>2, <1>4, CombineStep DEF config
<1>7. /\ Append(innerCache, i) \in Seq(1 .. innerSize)
      /\ Len(Append(innerCache, i)) = Len(innerCache) + 1
      /\ \A k \in 1 .. Len(innerCache) : Append(innerCache, i)[k] = innerCache[k]
      /\ Append(innerCache, i)[Len(innerCache) + 1] = i
  BY <1>2, <1>5, AppendProperties
<1>8. /\ innerCache' \in Seq(1 .. innerSize) /\ itInnerCache' \in 0 .. Len(innerCache')
      /\ inner' \in 0 .. innerSize
  <2>1. innerCache' \in Seq(1 .. innerSize) /\ Len(innerCache') \in {Len(innerCache), Len(innerCache) + 1}
    BY <1>1, <1>5, <1>7
  <2> QED
    BY <1>1, <1>2, <2>1, Numbers
<1>9. TypeOK'
  BY <1>1, <1>6, <1>8 DEF IInv, TypeOK
<1>10. Counts(innerCache, inner) /\ Materialize => Counts(innerCache', i)
  BY <1>1, <1>7, Numbers DEF Counts, i
<1>11. CacheFills'
  BY <1>1, <1>3, <1>10 DEF IInv, CacheFills
<1>12. Place < innerSize
  BY <1>2, <1>4, Numbers
<1>13. Rounds'
  BY <1>1, <1>3, <1>4, <1>6, <1>12, Numbers DEF IInv, Rounds
<1> QED
  BY <1>6, <1>9, <1>11, <1>13 DEF IInv

LEMMA InnerEndsStep == IInv /\ InnerEnds => IInv'
<1> SUFFICES ASSUME IInv, InnerEnds PROVE IInv'
  OBVIOUS
<1>1. /\ pc = "inner" /\ pc' = "outer"
      /\ IF UseCache THEN itInnerCache = Len(innerCache) ELSE inner = innerSize
      /\ UNCHANGED <<mode, outerSize, innerSize, outer, inner, innerCache, itInnerCache,
                     firstOuterFinished, initialized, output, ended, resets>>
  BY DEF InnerEnds, config, cache
<1>2. /\ UseCache' = UseCache /\ Materialize' = Materialize
      /\ Place' = Place /\ Combinations' = Combinations
  BY <1>1 DEF UseCache, Materialize, Place, Combinations, Wanted
<1>3. Place = innerSize
  BY <1>1 DEF IInv, CacheFills, Counts, Place
<1>4. TypeOK' /\ CacheFills'
  BY <1>1, <1>2 DEF IInv, TypeOK, CacheFills
<1>5. Rounds'
  BY <1>1, <1>2, <1>3 DEF IInv, Rounds
<1>6. Passed' = Passed
  BY <1>1, <1>2 DEF Passed
<1> QED
  BY <1>1, <1>4, <1>5, <1>6, Silent DEF IInv

LEMMA NextOuterStep == IInv /\ NextOuter => IInv'
<1> SUFFICES ASSUME IInv, NextOuter PROVE IInv'
  OBVIOUS
<1>1. /\ pc = "outer"
      /\ UNCHANGED <<mode, outerSize, innerSize, innerCache, initialized, output, resets>>
  BY DEF NextOuter, config
<1>2. Place = innerSize /\ initialized /\ outer > 0
  BY <1>1 DEF IInv, Rounds
<1>3. Materialize' = Materialize /\ Combinations' = Combinations
  BY <1>1 DEF Materialize, Combinations, Wanted
<1>4. CASE outer < outerSize
  <2>1. /\ outer' = outer + 1 /\ firstOuterFinished' = TRUE /\ itInnerCache' = 0 /\ inner' = 0
        /\ \/ Materialize /\ innerCache = <<>> /\ pc' = "idle" /\ ended' = TRUE
           \/ ~(Materialize /\ innerCache = <<>>) /\ pc' = "inner" /\ ended' = ended
    BY <1>4 DEF NextOuter, ReturnFalse
  <2>2. (UseCache' <=> Materialize) /\ Place' = 0
    BY <1>3, <2>1 DEF UseCache, Place
  <2>3. outer' \in 0 .. outerSize /\ outerSize > 1 /\ 0 \in 0 .. innerSize /\ 0 \in 0 .. Len(innerCache)
    BY <1>2, <1>4, <2>1, Numbers
  <2>4. TypeOK'
    BY <1>1, <2>1, <2>3 DEF IInv, TypeOK
  <2>5. Materialize => Counts(innerCache, innerSize)
    BY <1>2, <2>3 DEF IInv, CacheFills, Place, UseCache
  <2>6. CacheFills'
    BY <1>1, <1>3, <2>1, <2>2, <2>5 DEF CacheFills
  <2>7. Materialize /\ innerCache = <<>> => innerSize = 0
    BY <2>5 DEF Counts
  <2>8. Rounds'
    BY <1>1, <1>2, <1>3, <1>4, <2>1, <2>2, <2>7, Numbers DEF IInv, Rounds
  <2>9. Passed' = Passed
    <3>1. \A q \in Combinations : q[1] \in Nat /\ q[2] \in Nat /\ q[2] > 0 /\ q[2] <= innerSize
      BY Numbers DEF Combinations
    <3>2. \A q \in Combinations :
             q[1] < outer + 1 \/ (q[1] = outer + 1 /\ q[2] <= 0)
                <=> q[1] < outer \/ (q[1] = outer /\ q[2] <= innerSize)
      BY <3>1, Numbers
    <3> QED
      BY <1>2, <1>3, <2>1, <2>2, <3>2 DEF Passed
  <2> QED
    BY <1>1, <2>4, <2>6, <2>8, <2>9, Silent DEF IInv
<1>5. CASE ~(outer < outerSize)
  <2>1. /\ pc' = "idle" /\ ended' = TRUE
        /\ UNCHANGED <<outer, inner, itInnerCache, firstOuterFinished>>
    BY <1>5 DEF NextOuter, ReturnFalse
  <2>2. UseCache' = UseCache /\ Place' = Place /\ outer = outerSize
    BY <1>1, <1>3, <1>5, <2>1, Numbers DEF UseCache, Place
  <2>3. TypeOK' /\ CacheFills'
    BY <1>1, <1>3, <2>1, <2>2 DEF IInv, TypeOK, CacheFills
  <2>4. Rounds'
    BY <1>1, <1>2, <1>3, <2>1, <2>2 DEF IInv, Rounds
  <2>5. Passed' = Passed
    BY <1>1, <1>3, <2>1, <2>2 DEF Passed
  <2> QED
    BY <1>1, <2>3, <2>4, <2>5, Silent DEF IInv
<1> QED
  BY <1>4, <1>5

LEMMA ResetStep == IInv /\ Reset => IInv'
<1> SUFFICES ASSUME IInv, Reset PROVE IInv'
  OBVIOUS
<1>1. /\ pc = "idle" /\ pc' = "idle" /\ resets < MaxResets /\ resets' = resets + 1
      /\ outer' = 0 /\ inner' = 0 /\ initialized' = FALSE /\ output' = <<>> /\ ended' = FALSE
      /\ UNCHANGED <<mode, outerSize, innerSize>> /\ MayReset
      /\ \/ /\ mode = "threaded"
            /\ innerCache' = <<>> /\ itInnerCache' = 0 /\ firstOuterFinished' = FALSE
         \/ /\ mode # "threaded"
            /\ itInnerCache' = IF UseCache THEN 0 ELSE itInnerCache
            /\ innerCache' = innerCache /\ firstOuterFinished' = firstOuterFinished
  BY DEF Reset, config
<1>2. Materialize' = Materialize
  BY <1>1 DEF Materialize
<1>3. itInnerCache' = 0
  BY <1>1 DEF IInv, CacheFills
<1>4. Place' = 0
  BY <1>1, <1>3 DEF Place
<1>5. /\ innerCache' \in Seq(1 .. innerSize) /\ 0 \in 0 .. Len(innerCache')
      /\ output' \in Seq((1 .. outerSize) \X (1 .. innerSize))
      /\ 0 \in 0 .. outerSize /\ 0 \in 0 .. innerSize /\ resets' \in 0 .. MaxResets
  <2>1. innerCache \in Seq(1 .. innerSize) /\ resets \in Nat
    BY Numbers DEF IInv, TypeOK
  <2>2. innerCache' \in Seq(1 .. innerSize)
    <3>1. CASE mode = "threaded"
      <4>1. innerCache' = <<>>
        BY <1>1, <3>1
      <4> QED
        BY <4>1
    <3>2. CASE mode # "threaded"
      BY <1>1, <2>1, <3>2
    <3> QED
      BY <3>1, <3>2
  <2>3. Len(innerCache') \in Nat
    BY <2>2
  <2>4. output' \in Seq((1 .. outerSize) \X (1 .. innerSize))
    BY <1>1
  <2> QED
    BY <1>1, <2>1, <2>2, <2>3, <2>4, Numbers
<1>6. TypeOK'
  BY <1>1, <1>3, <1>5 DEF IInv, TypeOK
<1>7. CacheFills'
  <2>1. CASE mode = "threaded"
    <3>1. Counts(innerCache', 0) /\ ~UseCache' /\ inner' = 0
      BY <1>1, <2>1 DEF Counts, UseCache
    <3> QED
      BY <1>3, <3>1 DEF CacheFills
  <2>2. CASE mode = "cached"
    <3>1. ended /\ (outerSize > 1 => firstOuterFinished)
      BY <1>1, <2>2 DEF MayReset, IInv, Rounds, Materialize
    <3>2. /\ innerCache' = innerCache /\ firstOuterFinished' = firstOuterFinished
          /\ UseCache' = UseCache
      BY <1>1, <1>2, <2>2 DEF UseCache
    <3> QED
      BY <1>1, <1>3, <3>1, <3>2 DEF IInv, CacheFills
  <2>3. CASE mode = "direct"
    BY <1>1, <1>3, <2>3 DEF CacheFills, UseCache, Materialize
  <2> QED
    BY <2>1, <2>2, <2>3 DEF IInv, TypeOK, Modes
<1>8. Rounds'
  BY <1>1, <1>4 DEF Rounds
<1>9. Returned' = {} /\ InOrder'
  BY <1>1 DEF Returned, InOrder
<1>10. Passed' = {}
  <2>1. \A q \in Combinations' : q[1] \in Nat /\ q[1] > 0
    BY <1>1, Numbers DEF Combinations
  <2> QED
    BY <1>1, <2>1 DEF Passed
<1> QED
  BY <1>6, <1>7, <1>8, <1>9, <1>10 DEF IInv

LEMMA InvNext == IInv /\ [Next]_vars => IInv'
<1> SUFFICES ASSUME IInv, [Next]_vars PROVE IInv'
  OBVIOUS
<1>1. CASE UNCHANGED vars
  <2>1. UNCHANGED <<mode, outerSize, innerSize, outer, inner, innerCache, itInnerCache,
                    firstOuterFinished, initialized, pc, output, ended, resets>>
    BY <1>1 DEF vars, config, cache
  <2>2. /\ UseCache' = UseCache /\ Materialize' = Materialize /\ Place' = Place
        /\ Combinations' = Combinations
    BY <2>1 DEF UseCache, Materialize, Place, Combinations, Wanted
  <2>3. TypeOK' /\ CacheFills' /\ Rounds' /\ Passed' = Passed
    BY <2>1, <2>2 DEF IInv, TypeOK, CacheFills, Rounds, Passed
  <2> QED
    BY <2>1, <2>3, Silent DEF IInv
<1> QED
  BY <1>1, CallStep, NextCachedStep, NextInnerStep, InnerEndsStep, NextOuterStep, ResetStep DEF Next

----------------------------------------------------------------------------
\* The combinations come in the order of the two iterators and none twice,
\* however long they are and wherever the inner tuples are read from.
THEOREM CombinationsInOrder == Spec => []InOrder
<1>1. IInv => InOrder
  BY DEF IInv
<1> QED
  BY <1>1, InvInit, InvNext, PTL DEF Spec

\* When innerCache is read it holds every inner tuple, also after a reset().
THEOREM CacheAlwaysComplete == Spec => []CacheIsComplete
<1>1. ASSUME IInv PROVE CacheIsComplete
  <2>1. UseCache => innerCache = [i \in 1 .. innerSize |-> i]
    <3> SUFFICES ASSUME UseCache PROVE innerCache = [i \in 1 .. innerSize |-> i]
      OBVIOUS
    <3>1. innerCache \in Seq(1 .. innerSize) /\ Len(innerCache) = innerSize
      BY <1>1 DEF IInv, TypeOK, CacheFills, Counts
    <3>2. innerCache = [i \in 1 .. innerSize |-> innerCache[i]]
      BY <3>1
    <3> QED
      BY <1>1, <3>2 DEF IInv, CacheFills, Counts
  <2> QED
    BY <1>1, <2>1, Numbers DEF CacheIsComplete
<1> QED
  BY <1>1, InvInit, InvNext, PTL DEF Spec

\* next() returns false only behind the last combination to be included.
THEOREM EndIsTheLast == Spec => []FalseIsTheEnd
<1>1. ASSUME IInv PROVE FalseIsTheEnd
  <2> SUFFICES ASSUME ended PROVE Returned = Combinations
    BY DEF FalseIsTheEnd
  <2>1. innerSize = 0 \/ outerSize = 0 \/ (outer = outerSize /\ Place = innerSize)
    BY <1>1 DEF IInv, Rounds
  <2>2. \A q \in Combinations :
           /\ q[1] \in Nat /\ q[1] > 0 /\ q[1] <= outerSize
           /\ q[2] \in Nat /\ q[2] > 0 /\ q[2] <= innerSize
    BY <1>1, Numbers DEF Combinations
  <2>3. \A q \in Combinations : q[1] < outer \/ (q[1] = outer /\ q[2] <= Place)
    BY <1>1, <2>1, <2>2, Numbers
  <2> QED
    BY <1>1, <2>3 DEF IInv, Passed
<1> QED
  BY <1>1, InvInit, InvNext, PTL DEF Spec
=============================================================================
