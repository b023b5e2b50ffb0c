---------------------------- MODULE ResultStream ----------------------------
(****************************************************************************)
(* What an Iterator over join results promises its caller: next() hands out *)
(* every result once, in any order, and reports the end only after all of   *)
(* them; reset() starts all over.                                           *)
(****************************************************************************)
CONSTANT Results
VARIABLES delivered, ended

Init == delivered = {} /\ ended = FALSE

Deliver ==
    /\ ~ended
    /\ \E r \in Results \ delivered : delivered' = delivered \cup {r}
    /\ UNCHANGED ended

End ==
    /\ delivered = Results
    /\ ended' = TRUE
    /\ UNCHANGED delivered

Restart == delivered' = {} /\ ended' = FALSE

Next == Deliver \/ End \/ Restart

Spec == Init /\ [][Next]_<<delivered, ended>>
=============================================================================
