------------------------------- MODULE RsmFifo -------------------------------
(***************************************************************************)
(* A bounded first-in first-out queue that remembers the most it has held. *)
(***************************************************************************)
EXTENDS Naturals, Sequences

CONSTANTS Elements, Bound

VARIABLES
  contents,  \* oldest first
  peak,      \* the most it has held since it was cleared
  returned   \* what the last call returned

fifoVars == <<contents, peak, returned>>

Nothing == [ok |-> FALSE]
Pushed == [ok |-> TRUE]
Popped(e) == [ok |-> TRUE, item |-> e]

Init == contents = <<>> /\ peak = 0 /\ returned = Nothing

Push(e) ==
  /\ Len(contents) < Bound
  /\ contents' = Append(contents, e)
  /\ peak' = IF Len(contents') > peak THEN Len(contents') ELSE peak
  /\ returned' = Pushed

Pop ==
  /\ contents # <<>>
  /\ contents' = Tail(contents)
  /\ returned' = Popped(Head(contents))
  /\ UNCHANGED peak

\* A push onto a full queue and a pop of an empty one change nothing.
Refuse ==
  /\ Len(contents) \in {0, Bound}
  /\ returned' = Nothing
  /\ UNCHANGED <<contents, peak>>

\* A new start.
Clear == contents' = <<>> /\ peak' = 0 /\ returned' = Nothing

Next == (\E e \in Elements : Push(e)) \/ Pop \/ Refuse \/ Clear

Spec == Init /\ [][Next]_fifoVars
==============================================================================
