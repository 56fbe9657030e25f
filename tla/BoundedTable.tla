---------------------------- MODULE BoundedTable ---------------------------
(***************************************************************************)
(* What a bounded table promises: the last value put under a key is found  *)
(* under it until the key is removed or the table cleared, a known key can *)
(* always be updated, and a new one is refused only by a full table.       *)
(***************************************************************************)
EXTENDS Integers, FiniteSets

CONSTANTS Keys, Values, Room

VARIABLES board,      \* a function from some of the Keys to Values
          answer      \* what the last step told its caller

tableVars == <<board, answer>>

Known   == DOMAIN board
Full    == Cardinality(Known) = Room

Init == board = [k \in {} |-> 0] /\ answer = "ok"

Put ==
  /\ \E k \in Keys, v \in Values :
       /\ k \in Known \/ ~Full
       /\ board' = [j \in Known \cup {k} |-> IF j = k THEN v ELSE board[j]]
  /\ answer' = "ok"

Refuse ==
  /\ Full /\ Keys \ Known # {}
  /\ answer' = "full"
  /\ UNCHANGED board

Remove ==
  /\ \E k \in Known : board' = [j \in Known \ {k} |-> board[j]]
  /\ answer' = "ok"

Miss ==
  /\ Keys \ Known # {}
  /\ answer' = "missing"
  /\ UNCHANGED board

Clear   == board' = [k \in {} |-> 0] /\ answer' = "ok"
Reorder == answer' = "ok" /\ UNCHANGED board

Next == Put \/ Refuse \/ Remove \/ Miss \/ Clear \/ Reorder

Spec == Init /\ [][Next]_tableVars
=============================================================================
