---------------------------- MODULE DurableCell ----------------------------
(* What a durable store on the SD card promises its callers.  The store     *)
(* holds one document, the one a load would return.  A save offers a new    *)
(* document; until an operation settles, the store may hold any document    *)
(* on offer, and it settles on the one it holds.                            *)
CONSTANTS Docs, Blank

VARIABLES held,    \* the document the store holds
          offered  \* the documents it may hold

Init == held = Blank /\ offered = {Blank}

Offer(d) == offered' = offered \cup {d} /\ UNCHANGED held

(* A step of an unsettled operation may move the store between documents on *)
(* offer.                                                                   *)
Move == held' \in offered /\ UNCHANGED offered

Settle == offered' = {held} /\ UNCHANGED held

Next == (\E d \in Docs : Offer(d)) \/ Move \/ Settle

Spec == Init /\ [][Next]_<<held, offered>>
=============================================================================
