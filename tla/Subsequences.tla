---------------------------- MODULE Subsequences ----------------------------
(***************************************************************************)
(* Comprehensions over lists, as the code writes them:                     *)
(* [x for x in s if x in S].  SelectSeq of the standard module takes an    *)
(* operator; the set in its place lets lemmas speak of every such list.    *)
(***************************************************************************)
EXTENDS Naturals, Sequences

\* Of s the elements that are in S, in their order.
Kept(s, S) ==
    LET kept[n \in 0..Len(s)] ==
          IF n = 0 THEN <<>>
          ELSE IF s[n] \in S THEN Append(kept[n - 1], s[n]) ELSE kept[n - 1]
    IN  kept[Len(s)]
=============================================================================
