------------------------------ MODULE Collections ------------------------------
(***************************************************************************)
(* A filter for sequences whose condition is a set, not an operator, so    *)
(* that facts about it can be stated and proved once.                      *)
(***************************************************************************)
EXTENDS Integers, Sequences

\* The elements of s that are in P, in their order.
Keep(s, P) ==
    LET kept[n \in 0 .. Len(s)] ==
          IF n = 0 THEN <<>>
          ELSE IF s[n] \in P THEN Append(kept[n - 1], s[n]) ELSE kept[n - 1]
    IN  kept[Len(s)]
================================================================================
