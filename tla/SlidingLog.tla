----------------------------- MODULE SlidingLog ----------------------------
(***************************************************************************)
(* What a store of recent samples promises: it keeps the last capacity     *)
(* samples that were pushed, oldest first, except for those taken out      *)
(* again from the old end and those cleared away.                          *)
(***************************************************************************)
EXTENDS Integers, Sequences

CONSTANTS Samples,     \* what is stored
          Nothing      \* not a sample

VARIABLES capacity,
          kept,        \* the samples, oldest first
          taken        \* the sample the last step took out, or Nothing

logVars == <<capacity, kept, taken>>

Init == capacity \in Nat /\ kept = <<>> /\ taken = Nothing

Push ==
  /\ capacity > 0
  /\ \E s \in Samples :
       kept' = IF Len(kept) < capacity THEN Append(kept, s)
                                       ELSE Append(Tail(kept), s)
  /\ taken' = Nothing
  /\ UNCHANGED capacity

Take ==
  /\ kept # <<>>
  /\ taken' = Head(kept)
  /\ kept' = Tail(kept)
  /\ UNCHANGED capacity

\* Everything is dropped, and the store may be set up anew.
Clear ==
  /\ kept' = <<>>
  /\ capacity' \in Nat
  /\ taken' = Nothing

Next == Push \/ Take \/ Clear

Spec == Init /\ [][Next]_logVars
=============================================================================
