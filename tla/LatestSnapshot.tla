--------------------------- MODULE LatestSnapshot ---------------------------
(* What a snapshot exchange promises: publications are numbered, a reader   *)
(* that looks gets the latest one at that moment, and holds that very one   *)
(* until it drops it, whatever is published meanwhile.                      *)
EXTENDS Naturals

CONSTANTS Readers, None

VARIABLES latest, view

Init == latest = 0 /\ view = [r \in Readers |-> None]

Publish == latest' = latest + 1 /\ UNCHANGED view

Look(r) == /\ view[r] = None
           /\ view' = [view EXCEPT ![r] = latest]
           /\ UNCHANGED latest

Drop(r) == /\ view[r] # None
           /\ view' = [view EXCEPT ![r] = None]
           /\ UNCHANGED latest

Next == Publish \/ \E r \in Readers : Look(r) \/ Drop(r)

Spec == Init /\ [][Next]_<<latest, view>>
=============================================================================
