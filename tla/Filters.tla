------------------------------ MODULE Filters ------------------------------
(***************************************************************************)
(* Array.prototype.filter and sort by a fixed order, as the code uses them *)
(* on its lists: the elements of a sequence that belong to a set, in their *)
(* order.  SelectSeq says the same with an operator for the set; here it   *)
(* is a recursive function, which FilterProofs can reason about.           *)
(***************************************************************************)
EXTENDS Integers, Sequences

Only(s, S) ==
  LET kept[n \in 0..Len(s)] ==
        IF n = 0 THEN <<>>
        ELSE IF s[n] \in S THEN Append(kept[n - 1], s[n]) ELSE kept[n - 1]
  IN  kept[Len(s)]
=============================================================================
