---------------------------- MODULE UiStateStore ----------------------------
(* The lock-free snapshot store of ui/scene/UiStateStore.h: three slots, a  *)
(* count of readers and a writer's reservation per slot, and a gate that    *)
(* counts the readers inside acquire and admits a publisher only when there *)
(* are none.  Each atomic operation is a step; the copy of a publication    *)
(* into its slot takes two, between which the slot is torn.                 *)
EXTENDS Naturals, FiniteSets

CONSTANTS Readers, Writers,
          None,              \* no snapshot
          Torn,              \* a slot that is being written
          MaxPublications    \* publications considered

ASSUME StoreAssumption ==
         /\ IsFiniteSet(Readers) /\ Readers \cap Writers = {}
         /\ MaxPublications \in Nat
         /\ None \notin Nat /\ Torn \notin Nat /\ None # Torn

VARIABLES slots,      \* value and generation of each slot
          readers,    \* readers_[slot]: the count, and the writer's reservation
          access,     \* accessState_: readers in acquire, and the writer's gate
          current,    \* current_
          generation, \* generation_
          pc, at      \* per process: its next step, and the slot it works on

vars == <<slots, readers, access, current, generation, pc, at>>

Slot == 0..2
Proc == Readers \cup Writers
Counter == [count : Nat, reserved : BOOLEAN]
Free == [count |-> 0, reserved |-> FALSE]

(* A publication is known by its generation, which its value repeats.       *)
Publication(g) == [value |-> g, generation |-> g]

Init == /\ slots = [s \in Slot |-> Publication(0)]
        /\ readers = [s \in Slot |-> Free] /\ access = Free
        /\ current = 0 /\ generation = 0
        /\ pc = [p \in Proc |-> "out"] /\ at = [p \in Proc |-> 0]

Goto(p, next) == pc' = [pc EXCEPT ![p] = next]

-----------------------------------------------------------------------------
(* acquire *)
Enter(r) ==
  /\ pc[r] = "out"
  /\ access' = [access EXCEPT !.count = @ + 1]
  /\ Goto(r, "load")
  /\ UNCHANGED <<slots, readers, current, generation, at>>

LoadCurrent(r) ==
  /\ pc[r] = "load"
  /\ at' = [at EXCEPT ![r] = current]
  /\ Goto(r, "pin")
  /\ UNCHANGED <<slots, readers, access, current, generation>>

(* Mutant: a reader waits at the slot until no publisher is inside. *)
PinWaits(r) ==
  /\ pc[r] = "pin" /\ ~access.reserved
  /\ readers' = [readers EXCEPT ![at[r]].count = @ + 1]
  /\ Goto(r, "leave")
  /\ UNCHANGED <<slots, access, current, generation, at>>

(* A reserved slot sends acquire on to the next one; that this never comes  *)
(* up (FirstPin) is why the scan is not modelled any further.               *)
Pin(r) ==
  /\ pc[r] = "pin"
  /\ readers' = [readers EXCEPT ![at[r]].count = @ + 1]
  /\ Goto(r, IF readers[at[r]].reserved THEN "nextSlot" ELSE "leave")
  /\ UNCHANGED <<slots, access, current, generation, at>>

Leave(r) ==
  /\ pc[r] = "leave"
  /\ access' = [access EXCEPT !.count = @ - 1]
  /\ Goto(r, "hold")
  /\ UNCHANGED <<slots, readers, current, generation, at>>

Acquire(r) == LoadCurrent(r) \/ Pin(r) \/ Leave(r)

(* Snapshot::release *)
Release(r) ==
  /\ pc[r] = "hold"
  /\ readers' = [readers EXCEPT ![at[r]].count = @ - 1]
  /\ Goto(r, "out")
  /\ UNCHANGED <<slots, access, current, generation, at>>

-----------------------------------------------------------------------------
(* tryPublish *)
(* Mutant: a publisher comes in although readers are choosing a slot. *)
EnterPublishAlways(w) ==
  /\ pc[w] = "out" /\ generation < MaxPublications
  /\ IF access.reserved
     THEN UNCHANGED <<access, at, pc>>
     ELSE /\ access' = [access EXCEPT !.reserved = TRUE]
          /\ at' = [at EXCEPT ![w] = 0]
          /\ Goto(w, "scan")
  /\ UNCHANGED <<slots, readers, current, generation>>

EnterPublish(w) ==
  /\ pc[w] = "out" /\ generation < MaxPublications
  /\ access = Free
  /\ access' = [access EXCEPT !.reserved = TRUE]
  /\ at' = [at EXCEPT ![w] = 0]
  /\ Goto(w, "scan")
  /\ UNCHANGED <<slots, readers, current, generation>>

(* Mutant: pinned slots are not skipped. *)
ReserveAny(w) ==
  /\ pc[w] = "scan"
  /\ IF at[w] # current
     THEN /\ readers' = [readers EXCEPT ![at[w]].reserved = TRUE]
          /\ Goto(w, "write") /\ UNCHANGED at
     ELSE at' = [at EXCEPT ![w] = @ + 1] /\ UNCHANGED <<readers, pc>>
  /\ UNCHANGED <<slots, access, current, generation>>

Reserve(w) ==
  /\ pc[w] = "scan"
  /\ IF at[w] # current /\ readers[at[w]] = Free
     THEN /\ readers' = [readers EXCEPT ![at[w]].reserved = TRUE]
          /\ Goto(w, "write")
          /\ UNCHANGED at
     ELSE /\ UNCHANGED readers
          /\ IF at[w] < 2 THEN at' = [at EXCEPT ![w] = @ + 1] /\ UNCHANGED pc
                          ELSE Goto(w, "open") /\ UNCHANGED at
  /\ UNCHANGED <<slots, access, current, generation>>

BeginCopy(w) ==
  /\ pc[w] = "write"
  /\ slots' = [slots EXCEPT ![at[w]].value = Torn]
  /\ Goto(w, "copy")
  /\ UNCHANGED <<readers, access, current, generation, at>>

EndCopy(w) ==
  /\ pc[w] = "copy"
  /\ generation' = generation + 1
  /\ slots' = [slots EXCEPT ![at[w]] = Publication(generation + 1)]
  /\ Goto(w, "unreserve")
  /\ UNCHANGED <<readers, access, current, at>>

Unreserve(w) ==
  /\ pc[w] = "unreserve"
  /\ readers' = [readers EXCEPT ![at[w]].reserved = FALSE]
  /\ Goto(w, "switch")
  /\ UNCHANGED <<slots, access, current, generation, at>>

Switch(w) ==
  /\ pc[w] = "switch"
  /\ current' = at[w]
  /\ Goto(w, "open")
  /\ UNCHANGED <<slots, readers, access, generation, at>>

OpenGate(w) ==
  /\ pc[w] = "open"
  /\ access' = [access EXCEPT !.reserved = FALSE]
  /\ Goto(w, "out")
  /\ UNCHANGED <<slots, readers, current, generation, at>>

Publish(w) == \/ Reserve(w) \/ BeginCopy(w) \/ EndCopy(w)
              \/ Unreserve(w) \/ Switch(w) \/ OpenGate(w)

Next == \/ \E r \in Readers : Enter(r) \/ Acquire(r) \/ Release(r)
        \/ \E w \in Writers : EnterPublish(w) \/ Publish(w)

Spec == Init /\ [][Next]_vars

-----------------------------------------------------------------------------
Step == {"out", "load", "pin", "nextSlot", "leave", "hold",
         "scan", "write", "copy", "unreserve", "switch", "open"}

TypeOK == /\ slots \in [Slot -> [value : Nat \cup {Torn}, generation : Nat]]
          /\ readers \in [Slot -> Counter] /\ access \in Counter
          /\ current \in Slot /\ generation \in Nat
          /\ pc \in [Proc -> Step] /\ at \in [Proc -> Slot]

(* The first slot a reader tries is never reserved, so that acquire always  *)
(* returns a snapshot (UiStateStore.h:137-139, 153: the scan is "a          *)
(* defensive fallback"), also with several publishers.                      *)
FirstPin == \A r \in Readers : pc[r] # "nextSlot"

(* The store is a LatestSnapshot: a reader gets the last publication that   *)
(* was complete when it chose its slot, whole, and it does not change until *)
(* the reader releases it; publications come into force one at a time and   *)
(* in order (UiStateStore.h:14-17).                                         *)
Latest == INSTANCE LatestSnapshot
            WITH latest <- slots[current].value,
                 view <- [r \in Readers |-> IF pc[r] \in {"pin", "leave", "hold"}
                                            THEN slots[at[r]].value ELSE None]
ImplementsLatest == Latest!Spec

(* Neither side waits for the other (UiStateStore.h:14-17): a reader that   *)
(* is scheduled gets its snapshot even if a publisher stops half-way, and a *)
(* publisher that is scheduled returns even if readers stop for good.       *)
NeverWaits ==
  /\ \A r \in Readers : WF_vars(Acquire(r)) => (pc[r] = "load" ~> pc[r] = "hold")
  /\ \A w \in Writers : WF_vars(Publish(w)) => (pc[w] = "scan" ~> pc[w] = "out")

-----------------------------------------------------------------------------
(* The inductive invariant behind them.                                     *)
Inside == {r \in Readers : pc[r] \in {"load", "pin", "leave"}}
Pins(s) == {r \in Readers : pc[r] \in {"leave", "hold"} /\ at[r] = s}

Counts == /\ access.count = Cardinality(Inside)
          /\ \A s \in Slot : readers[s].count = Cardinality(Pins(s))

Choosing == {"scan", "write", "copy", "unreserve", "switch"}
Owning == {"write", "copy", "unreserve", "switch"}

Gate == /\ \A w \in Writers : pc[w] # "out" => access.reserved
        /\ \A v, w \in Writers : pc[v] # "out" /\ pc[w] # "out" => v = w
        /\ \A s \in Slot : readers[s].reserved =>
             \E w \in Writers : pc[w] \in {"write", "copy", "unreserve"} /\ at[w] = s

Roles == /\ \A r \in Readers : pc[r] \in {"out", "load", "pin", "leave", "hold"}
         /\ \A w \in Writers : pc[w] \in Choosing \cup {"out", "open"}

(* Nobody reads, or is about to pin, the slot a publisher owns.             *)
Apart == \A w \in Writers :
           /\ pc[w] \in Owning => at[w] # current /\ Pins(at[w]) = {}
           /\ pc[w] \in Choosing =>
                \A r \in Readers : pc[r] = "pin" => at[r] = current

Contents == /\ \A s \in Slot : \/ slots[s] = Publication(slots[s].generation)
                                \/ \E w \in Writers : pc[w] = "copy" /\ at[w] = s
            /\ IF \E w \in Writers : pc[w] \in {"unreserve", "switch"}
               THEN /\ slots[current].generation + 1 = generation
                    /\ \A w \in Writers : pc[w] \in {"unreserve", "switch"}
                                           => slots[at[w]] = Publication(generation)
               ELSE slots[current].generation = generation

StoreInv == TypeOK /\ Counts /\ Gate /\ Roles /\ Apart /\ Contents
=============================================================================
