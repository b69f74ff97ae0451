-------------------------------- MODULE Lists --------------------------------
(***************************************************************************)
(* What Vec::retain and HashMap::retain leave of a list.  (SelectSeq with  *)
(* a set for its test: the prover has no facts about SelectSeq itself.)    *)
(***************************************************************************)
EXTENDS Naturals, Sequences

(* The elements of the list that are in S, in their order.                 *)
Retain(list, S) ==
    LET kept[k \in 0 .. Len(list)] ==
            IF k = 0 THEN <<>>
            ELSE IF list[k] \in S THEN Append(kept[k - 1], list[k])
            ELSE kept[k - 1]
    IN  kept[Len(list)]
=============================================================================
