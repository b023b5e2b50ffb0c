----------------------------- MODULE NestedLoop -----------------------------
(****************************************************************************)
(* NestedLoopJoin::next and ThreadNestedLoop::nextTuple: every combination  *)
(* of an outer and an inner tuple. The inner iterator is read once, while   *)
(* the first outer tuple is the current one; later rounds read innerCache.  *)
(* nextTuple runs under mutex_fetch, so its callers take turns here.        *)
(****************************************************************************)
EXTENDS Naturals, Sequences

CONSTANTS
    MaxOuter, MaxInner,   \* bounds on the lengths of the two iterators
    Accepted,     \* the combinations a NestedLoopJoin includes: filter, reflexivity
    MaxResets     \* bound on the calls of reset()

ASSUME NestedAssumption ==
    /\ MaxOuter \in Nat /\ MaxInner \in Nat /\ MaxResets \in Nat
    /\ Accepted \subseteq (1 .. MaxOuter) \X (1 .. MaxInner)

\* A ThreadNestedLoop, a NestedLoopJoin that materializes the inner tuples, and
\* one that does not.
Modes == {"threaded", "cached", "direct"}

VARIABLES
    mode, outerSize, innerSize,   \* chosen at the start
    outer, inner,      \* tuples read from each iterator
    innerCache, itInnerCache, firstOuterFinished, initialized,
    pc,
    output, ended,     \* what was returned since the last reset()
    resets

config == <<mode, outerSize, innerSize>>
cache  == <<innerCache, itInnerCache, firstOuterFinished>>
vars   == <<config, outer, inner, cache, initialized, pc, output, ended, resets>>

Init ==
    /\ mode \in Modes
    /\ outerSize \in 0 .. MaxOuter /\ innerSize \in 0 .. MaxInner
    /\ outer = 0 /\ inner = 0
    /\ innerCache = <<>> /\ itInnerCache = 0 /\ firstOuterFinished = FALSE
    /\ initialized = FALSE
    /\ pc = "idle" /\ output = <<>> /\ ended = FALSE /\ resets = 0

Materialize == mode # "direct"
UseCache    == Materialize /\ firstOuterFinished

Wanted(o, i) == mode = "threaded" \/ <<o, i>> \in Accepted

ReturnFalse == pc' = "idle" /\ ended' = TRUE

----------------------------------------------------------------------------
Call ==
    /\ pc = "idle"
    /\ IF mode = "cached" /\ firstOuterFinished /\ innerCache = <<>>
       THEN ReturnFalse /\ UNCHANGED <<outer, initialized>>
       ELSE IF initialized
       THEN pc' = "inner" /\ UNCHANGED <<outer, initialized, ended>>
       ELSE IF outer < outerSize
       THEN pc' = "inner" /\ outer' = outer + 1 /\ initialized' = TRUE /\ UNCHANGED ended
       ELSE ReturnFalse /\ UNCHANGED <<outer, initialized>>
    /\ UNCHANGED <<config, inner, cache, output, resets>>

\* A NestedLoopJoin goes on when it does not include the combination.
Combine(i) ==
    IF Wanted(outer, i)
    THEN output' = Append(output, <<outer, i>>) /\ pc' = "idle"
    ELSE UNCHANGED <<output, pc>>

NextCached ==
    /\ pc = "inner" /\ UseCache /\ itInnerCache < Len(innerCache)
    /\ itInnerCache' = itInnerCache + 1
    /\ Combine(innerCache[itInnerCache + 1])
    /\ UNCHANGED <<config, outer, inner, innerCache, firstOuterFinished, initialized, ended, resets>>

NextInner ==
    /\ pc = "inner" /\ ~UseCache /\ inner < innerSize
    /\ inner' = inner + 1
    /\ innerCache' = IF Materialize THEN Append(innerCache, inner + 1) ELSE innerCache
    /\ Combine(inner + 1)
    /\ UNCHANGED <<config, outer, itInnerCache, firstOuterFinished, initialized, ended, resets>>

InnerEnds ==
    /\ pc = "inner"
    /\ IF UseCache THEN itInnerCache = Len(innerCache) ELSE inner = innerSize
    /\ pc' = "outer"
    /\ UNCHANGED <<config, outer, inner, cache, initialized, output, ended, resets>>

\* Mutant: a new round goes on where the last one ended.
NextOuterKeepsPlace ==
    /\ pc = "outer"
    /\ IF outer < outerSize
       THEN /\ outer' = outer + 1
            /\ firstOuterFinished' = TRUE /\ inner' = 0 /\ UNCHANGED itInnerCache
            /\ IF Materialize /\ innerCache = <<>>
               THEN ReturnFalse
               ELSE pc' = "inner" /\ UNCHANGED ended
       ELSE ReturnFalse /\ UNCHANGED <<outer, inner, itInnerCache, firstOuterFinished>>
    /\ UNCHANGED <<config, innerCache, initialized, output, resets>>

NextOuter ==
    /\ pc = "outer"
    /\ IF outer < outerSize
       THEN /\ outer' = outer + 1
            /\ firstOuterFinished' = TRUE /\ itInnerCache' = 0 /\ inner' = 0
            /\ IF Materialize /\ innerCache = <<>>
               THEN ReturnFalse
               ELSE pc' = "inner" /\ UNCHANGED ended
       ELSE ReturnFalse /\ UNCHANGED <<outer, inner, itInnerCache, firstOuterFinished>>
    /\ UNCHANGED <<config, innerCache, initialized, output, resets>>

\* Only a ThreadNestedLoop empties its cache. A NestedLoopJoin that materializes
\* must not be reset in its first round; the loop around it never does that.
MayReset == mode = "cached" => ended

\* Mutant: reset() keeps the cache.
ResetKeepsCache ==
    /\ pc = "idle" /\ MayReset /\ resets < MaxResets
    /\ outer' = 0 /\ inner' = 0 /\ initialized' = FALSE
    /\ itInnerCache' = 0 /\ firstOuterFinished' = (firstOuterFinished /\ mode # "threaded")
    /\ output' = <<>> /\ ended' = FALSE /\ resets' = resets + 1
    /\ UNCHANGED <<config, innerCache, pc>>

Reset ==
    /\ pc = "idle" /\ MayReset /\ resets < MaxResets
    /\ outer' = 0 /\ inner' = 0 /\ initialized' = FALSE
    /\ IF mode = "threaded"
       THEN innerCache' = <<>> /\ itInnerCache' = 0 /\ firstOuterFinished' = FALSE
       ELSE /\ itInnerCache' = IF UseCache THEN 0 ELSE itInnerCache
            /\ UNCHANGED <<innerCache, firstOuterFinished>>
    /\ output' = <<>> /\ ended' = FALSE /\ resets' = resets + 1
    /\ UNCHANGED <<config, pc>>

Next == Call \/ NextCached \/ NextInner \/ InnerEnds \/ NextOuter \/ Reset

Spec == Init /\ [][Next]_vars

----------------------------------------------------------------------------
Combinations == {p \in (1 .. outerSize) \X (1 .. innerSize) : Wanted(p[1], p[2])}
Returned     == {output[k] : k \in DOMAIN output}

\* The type invariant.
TypeOK ==
    /\ mode \in Modes /\ outerSize \in 0 .. MaxOuter /\ innerSize \in 0 .. MaxInner
    /\ outer \in 0 .. outerSize /\ inner \in 0 .. innerSize
    /\ innerCache \in Seq(1 .. innerSize) /\ itInnerCache \in 0 .. Len(innerCache)
    /\ firstOuterFinished \in BOOLEAN /\ initialized \in BOOLEAN /\ ended \in BOOLEAN
    /\ pc \in {"idle", "inner", "outer"}
    /\ output \in Seq((1 .. outerSize) \X (1 .. innerSize)) /\ resets \in 0 .. MaxResets

\* The combinations come in the order of the two iterators, none of them twice:
\* whether the inner tuples are read, read again or remembered.
InOrder ==
    \A k \in 1 .. Len(output) - 1 :
        LET p == output[k]
            q == output[k + 1]
        IN  p[1] < q[1] \/ (p[1] = q[1] /\ p[2] < q[2])

\* The cache is complete when it is read for the first time, and stays so, and
\* the iterator that is kept from call to call points into it.
CacheIsComplete ==
    /\ UseCache => innerCache = [i \in 1 .. innerSize |-> i]
    /\ itInnerCache <= Len(innerCache)

\* false means that there are no more: all combinations were returned.
FalseIsTheEnd == ended => Returned = Combinations
=============================================================================
