--------------------------- MODULE AttentionSpec ----------------------------
(***************************************************************************)
(* What the flash-attention kernel promises for the row-blocks of one      *)
(* core: each half (one per vector subblock) of each row-block is written  *)
(* once, and what is written is the softmax-weighted sum over exactly the  *)
(* key blocks the (causal) mask lets that row-block attend.                *)
(***************************************************************************)
EXTENDS FaGeometry

CONSTANTS
  Halves,     \* the row halves of a row-block, one per vector subblock
  Unwritten   \* an output half that has not been stored

VARIABLE result  \* result[w][h]: the key blocks attended by half h of job w

KeyBlocks == 0 .. FullTiles * TileFactor - 1

\* A causal query of row-block r attends key blocks 0..r; otherwise all.
Attended(w) == {k \in KeyBlocks : Causal => k <= Work[w]}

Init == result = [w \in Jobs |-> [h \in Halves |-> Unwritten]]

Attend(w, h) ==
  /\ result[w][h] = Unwritten
  /\ result' = [result EXCEPT ![w][h] = Attended(w)]

Next == \E w \in Jobs, h \in Halves : Attend(w, h)

Safety == Init /\ [][Next]_result
Spec == Safety /\ WF_result(Next)
=============================================================================
