------------------------- MODULE UiStateStoreProofs -------------------------
(* The snapshot store keeps its invariant and implements LatestSnapshot for *)
(* any finite set of readers, any publishers and any number of publications.*)
EXTENDS UiStateStore, FiniteSetTheorems, TLAPS

-----------------------------------------------------------------------------
(* What the counters count.                                                 *)
LEMMA Finite == IsFiniteSet(Inside) /\ \A s \in Slot : IsFiniteSet(Pins(s))
BY StoreAssumption, FS_Subset DEF Inside, Pins

LEMMA FiniteNext == (IsFiniteSet(Inside) /\ \A s \in Slot : IsFiniteSet(Pins(s)))'
BY StoreAssumption, FS_Subset DEF Inside, Pins

(* A counter of nobody is zero, and one of somebody is not.                 *)
LEMMA ZeroCount ==
  ASSUME TypeOK, Counts
  PROVE  /\ access.count = 0 => Inside = {}
         /\ \A s \in Slot : readers[s].count = 0 => Pins(s) = {}
         /\ \A r \in Inside : access.count - 1 \in Nat
         /\ \A s \in Slot : \A r \in Pins(s) : readers[s].count - 1 \in Nat
<1>1. ASSUME NEW S, IsFiniteSet(S)
      PROVE  /\ Cardinality(S) = 0 => S = {}
             /\ \A x \in S : Cardinality(S) - 1 \in Nat
  BY <1>1, FS_EmptySet, FS_CardinalityType
<1> QED
  BY <1>1, Finite DEF Counts

(* The steps of a reader count it in and out of what it is a member of.     *)
LEMMA OneMore ==
  ASSUME NEW S, NEW T, NEW x, IsFiniteSet(S), x \notin S, T = S \cup {x}
  PROVE  Cardinality(T) = Cardinality(S) + 1
BY FS_AddElement

LEMMA OneLess ==
  ASSUME NEW S, NEW T, NEW x, IsFiniteSet(S), x \in S, T = S \ {x}
  PROVE  Cardinality(T) = Cardinality(S) - 1
BY FS_RemoveElement

-----------------------------------------------------------------------------
(* The steps of acquire and release.                                        *)
LEMMA InitInv == Init => StoreInv
<1> SUFFICES ASSUME Init PROVE StoreInv
  OBVIOUS
<1>1. TypeOK
  BY DEF Init, TypeOK, Counter, Free, Slot, Publication, Step
<1>2. Inside = {} /\ \A s \in Slot : Pins(s) = {}
  BY DEF Init, Inside, Pins, Proc
<1>3. Counts
  BY <1>2, FS_EmptySet DEF Init, Counts, Free, Slot
<1>4. Gate /\ Roles /\ Apart
  BY DEF Init, Gate, Roles, Apart, Free, Proc, Owning, Choosing
<1>5. Contents
  BY DEF Init, Contents, Publication, Slot, Proc
<1> QED
  BY <1>1, <1>3, <1>4, <1>5 DEF StoreInv

LEMMA EnterInv ==
  ASSUME StoreInv, NEW r \in Readers, Enter(r)
  PROVE  StoreInv'
<1> USE StoreAssumption DEF Enter, Goto, Proc, StoreInv
<1>1. TypeOK'
  BY DEF TypeOK, Counter, Step
<1>2. Counts'
  <2>1. Inside' = Inside \cup {r} /\ r \notin Inside
    BY DEF Inside, TypeOK
  <2>2. \A s \in Slot : Pins(s)' = Pins(s)
    BY DEF Pins, TypeOK
  <2>3. Cardinality(Inside') = Cardinality(Inside) + 1
    BY <2>1, OneMore, Finite
  <2> QED
    BY <2>2, <2>3 DEF Counts, TypeOK, Counter
<1>3. Gate' /\ Roles' /\ Apart' /\ Contents'
  BY DEF Gate, Roles, Apart, Contents, TypeOK, Counter, Pins, Choosing, Owning
<1> QED
  BY <1>1, <1>2, <1>3

LEMMA LoadCurrentInv ==
  ASSUME StoreInv, NEW r \in Readers, LoadCurrent(r)
  PROVE  StoreInv'
<1> USE StoreAssumption DEF LoadCurrent, Goto, Proc, StoreInv
<1>1. TypeOK'
  BY DEF TypeOK, Step
<1>2. Inside' = Inside /\ \A s \in Slot : Pins(s)' = Pins(s)
  BY DEF Inside, Pins, TypeOK
<1>3. Counts'
  BY <1>2 DEF Counts, TypeOK
<1>4. Gate' /\ Roles' /\ Apart' /\ Contents'
  BY <1>2 DEF Gate, Roles, Apart, Contents, TypeOK, Choosing, Owning
<1> QED
  BY <1>1, <1>3, <1>4

(* A reader pins the slot in force, which no publisher has reserved.        *)
LEMMA FirstSlotFree ==
  ASSUME StoreInv, NEW r \in Readers, pc[r] = "pin"
  PROVE  ~readers[at[r]].reserved
BY DEF StoreInv, Gate, Apart, Owning, Choosing, TypeOK, Proc

LEMMA PinInv ==
  ASSUME StoreInv, NEW r \in Readers, Pin(r)
  PROVE  StoreInv'
<1> USE StoreAssumption DEF Goto, Proc, StoreInv
<1>1. /\ pc[r] = "pin" /\ pc' = [pc EXCEPT ![r] = "leave"]
      /\ readers' = [readers EXCEPT ![at[r]].count = @ + 1]
      /\ UNCHANGED <<slots, access, current, generation, at>>
  BY FirstSlotFree DEF Pin
<1>2. TypeOK'
  <2>1. pc' \in [Proc -> Step]
    BY <1>1 DEF TypeOK, Step
  <2>2. readers' \in [Slot -> Counter]
    BY <1>1 DEF TypeOK, Counter
  <2> QED
    BY <1>1, <2>1, <2>2 DEF TypeOK
<1>3. Counts'
  <2>1. Inside' = Inside
    BY <1>1 DEF Inside, TypeOK
  <2>2. /\ at[r] \in Slot /\ r \notin Pins(at[r]) /\ Pins(at[r])' = Pins(at[r]) \cup {r}
        /\ \A s \in Slot \ {at[r]} : Pins(s)' = Pins(s)
    BY <1>1 DEF Pins, TypeOK
  <2>3. Cardinality(Pins(at[r])') = Cardinality(Pins(at[r])) + 1
    BY <2>2, OneMore, Finite
  <2>4. /\ readers'[at[r]].count = readers[at[r]].count + 1
        /\ \A s \in Slot \ {at[r]} : readers'[s].count = readers[s].count
    BY <1>1 DEF TypeOK, Counter
  <2> QED
    BY <1>1, <2>1, <2>2, <2>3, <2>4 DEF Counts
<1>4. \A s \in Slot : readers'[s].reserved = readers[s].reserved
  BY <1>1 DEF TypeOK, Counter
<1>5. Gate' /\ Roles' /\ Contents'
  BY <1>1, <1>4 DEF Gate, Roles, Contents, TypeOK
<1>6. Apart'
  BY <1>1 DEF Apart, Pins, TypeOK, Choosing, Owning
<1> QED
  BY <1>2, <1>3, <1>5, <1>6

LEMMA LeaveInv ==
  ASSUME StoreInv, NEW r \in Readers, Leave(r)
  PROVE  StoreInv'
<1> USE StoreAssumption DEF Leave, Goto, Proc, StoreInv
<1>1. r \in Inside /\ access.count - 1 \in Nat
  BY ZeroCount DEF Inside
<1>2. TypeOK'
  BY <1>1 DEF TypeOK, Counter, Step
<1>3. Counts'
  <2>1. Inside' = Inside \ {r}
    BY DEF Inside, TypeOK
  <2>2. \A s \in Slot : Pins(s)' = Pins(s)
    BY DEF Pins, TypeOK
  <2>3. Cardinality(Inside') = Cardinality(Inside) - 1
    BY <1>1, <2>1, OneLess, Finite
  <2> QED
    BY <2>2, <2>3 DEF Counts, TypeOK, Counter
<1>4. Gate' /\ Roles' /\ Apart' /\ Contents'
  BY DEF Gate, Roles, Apart, Contents, TypeOK, Counter, Pins, Choosing, Owning
<1> QED
  BY <1>2, <1>3, <1>4

LEMMA ReleaseInv ==
  ASSUME StoreInv, NEW r \in Readers, Release(r)
  PROVE  StoreInv'
<1> USE StoreAssumption DEF Release, Goto, Proc, StoreInv
<1>1. at[r] \in Slot /\ r \in Pins(at[r])
  BY DEF Pins, TypeOK
<1>2. readers[at[r]].count - 1 \in Nat
  BY <1>1, ZeroCount
<1>3. TypeOK'
  BY <1>2 DEF TypeOK, Counter, Step
<1>4. Counts'
  <2>1. Inside' = Inside
    BY DEF Inside, TypeOK
  <2>2. /\ Pins(at[r])' = Pins(at[r]) \ {r}
        /\ \A s \in Slot \ {at[r]} : Pins(s)' = Pins(s)
    BY DEF Pins, TypeOK
  <2>3. Cardinality(Pins(at[r])') = Cardinality(Pins(at[r])) - 1
    BY <1>1, <2>2, OneLess, Finite
  <2>4. /\ readers'[at[r]].count = readers[at[r]].count - 1
        /\ \A s \in Slot \ {at[r]} : readers'[s].count = readers[s].count
    BY DEF TypeOK, Counter
  <2> QED
    BY <2>1, <2>2, <2>3, <2>4 DEF Counts
<1>5. \A s \in Slot : readers'[s].reserved = readers[s].reserved
  BY DEF TypeOK, Counter
<1>6. Gate' /\ Roles' /\ Contents'
  BY <1>5 DEF Gate, Roles, Contents, TypeOK
<1>7. Apart'
  BY DEF Apart, Pins, TypeOK, Choosing, Owning
<1> QED
  BY <1>3, <1>4, <1>6, <1>7

-----------------------------------------------------------------------------
(* The steps of tryPublish: no reader is counted in or out by them.         *)
LEMMA WriterStep ==
  ASSUME StoreInv, NEW w \in Writers, NEW next, pc' = [pc EXCEPT ![w] = next],
         \A r \in Readers : at'[r] = at[r]
  PROVE  /\ Inside' = Inside /\ \A s \in Slot : Pins(s)' = Pins(s)
         /\ \A r \in Readers : pc'[r] = pc[r]
BY StoreAssumption DEF StoreInv, TypeOK, Proc, Inside, Pins

LEMMA WriterCounts ==
  ASSUME StoreInv, Inside' = Inside, \A s \in Slot : Pins(s)' = Pins(s),
         access'.count = access.count,
         \A s \in Slot : readers'[s].count = readers[s].count
  PROVE  Counts'
BY DEF StoreInv, Counts

(* Only one publisher is inside.                                            *)
LEMMA OneWriter ==
  ASSUME StoreInv, NEW w \in Writers, pc[w] # "out"
  PROVE  \A v \in Writers : v # w => pc[v] = "out"
BY DEF StoreInv, Gate

LEMMA EnterPublishInv ==
  ASSUME StoreInv, NEW w \in Writers, EnterPublish(w)
  PROVE  StoreInv'
<1> USE StoreAssumption DEF EnterPublish, Goto, Proc, StoreInv, Free
<1>1. TypeOK'
  <2>1. access' \in Counter
    BY DEF TypeOK, Counter
  <2>2. pc' \in [Proc -> Step]
    BY DEF TypeOK, Step
  <2>3. at' \in [Proc -> Slot]
    BY DEF TypeOK, Slot
  <2> QED
    BY <2>1, <2>2, <2>3 DEF TypeOK
<1>2. \A r \in Readers : at'[r] = at[r]
  BY DEF TypeOK
<1>3. /\ Inside' = Inside /\ \A s \in Slot : Pins(s)' = Pins(s)
      /\ \A r \in Readers : pc'[r] = pc[r]
  BY <1>2, WriterStep
<1>4. Counts'
  BY <1>3, WriterCounts
<1>5. Inside = {}
  BY ZeroCount
<1>6. \A v \in Writers : pc[v] = "out"
  BY DEF Gate
<1>7. Gate' /\ Roles'
  BY <1>6 DEF Gate, Roles, TypeOK, Choosing
<1>8. Apart'
  BY <1>3, <1>5, <1>6 DEF Apart, Inside, TypeOK, Choosing, Owning
<1>9. Contents'
  BY <1>6 DEF Contents, TypeOK
<1> QED
  BY <1>1, <1>4, <1>7, <1>8, <1>9

LEMMA ReserveInv ==
  ASSUME StoreInv, NEW w \in Writers, Reserve(w)
  PROVE  StoreInv'
<1> USE StoreAssumption DEF Goto, Proc, StoreInv
<1>1. pc[w] = "scan" /\ UNCHANGED <<slots, access, current, generation>>
  BY DEF Reserve
<1>2. \A v \in Writers : v # w => pc[v] = "out"
  BY <1>1, OneWriter
<1>3. CASE at[w] # current /\ readers[at[w]] = Free
  <2>1. /\ readers' = [readers EXCEPT ![at[w]].reserved = TRUE]
        /\ pc' = [pc EXCEPT ![w] = "write"] /\ at' = at
    BY <1>3 DEF Reserve
  <2>2. TypeOK'
    BY <1>1, <2>1 DEF TypeOK, Counter, Step
  <2>3. /\ Inside' = Inside /\ \A s \in Slot : Pins(s)' = Pins(s)
        /\ \A r \in Readers : pc'[r] = pc[r]
    BY <2>1, WriterStep
  <2>4. Counts'
    BY <1>1, <2>1, <2>3, WriterCounts DEF TypeOK, Counter
  <2>5. Pins(at[w]) = {}
    BY <1>3, ZeroCount DEF Free, TypeOK
  <2>6. Gate' /\ Roles'
    BY <1>1, <1>2, <2>1 DEF Gate, Roles, TypeOK, Counter, Choosing
  <2>7. Apart'
    BY <1>1, <1>2, <1>3, <2>1, <2>3, <2>5 DEF Apart, TypeOK, Choosing, Owning
  <2>8. Contents'
    BY <1>1, <1>2, <2>1 DEF Contents, TypeOK
  <2> QED
    BY <2>2, <2>4, <2>6, <2>7, <2>8
<1>4. CASE ~(at[w] # current /\ readers[at[w]] = Free)
  <2>1. /\ readers' = readers
        /\ \/ at[w] < 2 /\ at' = [at EXCEPT ![w] = @ + 1] /\ pc' = [pc EXCEPT ![w] = "scan"]
           \/ at' = at /\ pc' = [pc EXCEPT ![w] = "open"]
    BY <1>1, <1>4 DEF Reserve, TypeOK
  <2>2. TypeOK'
    BY <1>1, <2>1 DEF TypeOK, Step, Slot
  <2>3. /\ Inside' = Inside /\ \A s \in Slot : Pins(s)' = Pins(s)
        /\ \A r \in Readers : pc'[r] = pc[r] /\ at'[r] = at[r]
    BY <2>1, WriterStep DEF TypeOK
  <2>4. Counts'
    BY <1>1, <2>1, <2>3, WriterCounts
  <2>5. Gate'
    BY <1>1, <1>2, <2>1 DEF Gate, TypeOK
  <2>6. Apart'
    BY <1>1, <1>2, <2>1, <2>3 DEF Apart, TypeOK, Choosing, Owning
  <2>7. Contents'
    BY <1>1, <1>2, <2>1 DEF Contents, TypeOK
  <2>8. Roles'
    BY <1>1, <1>2, <2>1 DEF Roles, TypeOK, Choosing
  <2> QED
    BY <2>2, <2>4, <2>5, <2>6, <2>7, <2>8
<1> QED
  BY <1>3, <1>4

LEMMA CopyInv ==
  ASSUME StoreInv, NEW w \in Writers, BeginCopy(w) \/ EndCopy(w)
  PROVE  StoreInv'
<1> USE StoreAssumption DEF BeginCopy, EndCopy, Goto, Proc, StoreInv
<1>1. pc[w] \in {"write", "copy"} /\ UNCHANGED <<readers, access, current, at>>
  OBVIOUS
<1>2. \A v \in Writers : v # w => pc[v] = "out"
  BY <1>1, OneWriter
<1>3. PICK next \in {"copy", "unreserve"} : pc' = [pc EXCEPT ![w] = next]
  OBVIOUS
<1>4. TypeOK'
  <2>1. slots' \in [Slot -> [value : Nat \cup {Torn}, generation : Nat]] /\ generation' \in Nat
    <3>1. CASE BeginCopy(w)
      BY <3>1 DEF TypeOK
    <3>2. CASE EndCopy(w)
      BY <3>2 DEF TypeOK, Publication
    <3> QED
      BY <3>1, <3>2
  <2>2. pc' \in [Proc -> Step]
    BY <1>3 DEF TypeOK, Step
  <2> QED
    BY <1>1, <2>1, <2>2 DEF TypeOK
<1>5. /\ Inside' = Inside /\ \A s \in Slot : Pins(s)' = Pins(s)
      /\ \A r \in Readers : pc'[r] = pc[r]
  BY <1>1, <1>3, WriterStep
<1>6. Counts'
  BY <1>1, <1>5, WriterCounts
<1>7. Gate' /\ Roles'
  BY <1>1, <1>2, <1>3 DEF Gate, Roles, TypeOK, Choosing
<1>8. Apart'
  BY <1>1, <1>2, <1>3, <1>5 DEF Apart, TypeOK, Choosing, Owning
<1>9. at[w] \in Slot /\ at[w] # current
  BY <1>1 DEF Apart, TypeOK, Owning
<1>10. /\ \A s \in Slot : s # at[w] =>
            slots'[s] = slots[s] /\ slots[s] = Publication(slots[s].generation)
       /\ slots[current].generation = generation
  <2>1. \A s \in Slot : s # at[w] => slots[s] = Publication(slots[s].generation)
    BY <1>1, <1>2 DEF Contents
  <2>2. \A s \in Slot : s # at[w] => slots'[s] = slots[s]
    BY DEF TypeOK
  <2>3. slots[current].generation = generation
    BY <1>1, <1>2 DEF Contents
  <2> QED
    BY <2>1, <2>2, <2>3
<1>11. slots'[current] = slots[current] /\ at' = at /\ current' = current
  BY <1>1, <1>9, <1>10 DEF TypeOK
<1>12. ASSUME BeginCopy(w) PROVE Contents'
  <2>1. pc'[w] = "copy" /\ generation' = generation
    BY <1>12 DEF TypeOK
  <2>2. \A v \in Writers : pc'[v] \notin {"unreserve", "switch"}
    BY <1>2, <1>12, <2>1 DEF TypeOK
  <2> QED
    BY <1>10, <1>11, <2>1, <2>2 DEF Contents
<1>13. ASSUME EndCopy(w) PROVE Contents'
  <2>1. pc'[w] = "unreserve" /\ generation' = generation + 1
    BY <1>13 DEF TypeOK
  <2>2. slots'[at[w]] = Publication(generation + 1)
    BY <1>9, <1>13 DEF TypeOK
  <2>3. \A v \in Writers : v # w => pc'[v] = "out"
    BY <1>2, <1>13 DEF TypeOK
  <2>4. ASSUME NEW s \in Slot PROVE slots'[s] = Publication(slots'[s].generation)
    <3>1. CASE s = at[w]
      BY <2>2, <3>1 DEF Publication
    <3>2. CASE s # at[w]
      <4>1. slots'[s] = slots[s] /\ slots[s] = Publication(slots[s].generation)
        BY <1>10, <3>2
      <4> QED
        BY <4>1
    <3> QED
      BY <3>1, <3>2
  <2> QED
    BY <1>10, <1>11, <2>1, <2>2, <2>3, <2>4 DEF Contents
<1> QED
  BY <1>4, <1>6, <1>7, <1>8, <1>12, <1>13

LEMMA UnreserveInv ==
  ASSUME StoreInv, NEW w \in Writers, Unreserve(w)
  PROVE  StoreInv'
<1> USE StoreAssumption DEF Unreserve, Goto, Proc, StoreInv
<1>1. \A v \in Writers : v # w => pc[v] = "out"
  BY OneWriter
<1>2. TypeOK'
  BY DEF TypeOK, Counter, Step
<1>3. /\ Inside' = Inside /\ \A s \in Slot : Pins(s)' = Pins(s)
      /\ \A r \in Readers : pc'[r] = pc[r]
  BY WriterStep
<1>4. Counts'
  BY <1>3, WriterCounts DEF TypeOK, Counter
<1>5. Gate' /\ Roles'
  BY <1>1 DEF Gate, Roles, TypeOK, Counter, Choosing
<1>6. Apart'
  BY <1>1, <1>3 DEF Apart, TypeOK, Choosing, Owning
<1>7. Contents'
  BY <1>1 DEF Contents, TypeOK
<1> QED
  BY <1>2, <1>4, <1>5, <1>6, <1>7

LEMMA SwitchInv ==
  ASSUME StoreInv, NEW w \in Writers, Switch(w)
  PROVE  StoreInv'
<1> USE StoreAssumption DEF Switch, Goto, Proc, StoreInv
<1>1. \A v \in Writers : v # w => pc[v] = "out"
  BY OneWriter
<1>2. TypeOK'
  BY DEF TypeOK, Step
<1>3. /\ Inside' = Inside /\ \A s \in Slot : Pins(s)' = Pins(s)
      /\ \A r \in Readers : pc'[r] = pc[r]
  BY WriterStep
<1>4. Counts'
  BY <1>3, WriterCounts
<1>5. Gate' /\ Roles'
  BY <1>1 DEF Gate, Roles, TypeOK, Choosing
<1>6. Apart'
  BY <1>1, <1>3 DEF Apart, TypeOK, Choosing, Owning
<1>7. slots[at[w]] = Publication(generation)
  BY DEF Contents
<1>8. Contents'
  BY <1>1, <1>7 DEF Contents, TypeOK, Publication
<1> QED
  BY <1>2, <1>4, <1>5, <1>6, <1>8

LEMMA OpenGateInv ==
  ASSUME StoreInv, NEW w \in Writers, OpenGate(w)
  PROVE  StoreInv'
<1> USE StoreAssumption DEF OpenGate, Goto, Proc, StoreInv
<1>1. \A v \in Writers : v # w => pc[v] = "out"
  BY OneWriter
<1>2. TypeOK'
  BY DEF TypeOK, Counter, Step
<1>3. /\ Inside' = Inside /\ \A s \in Slot : Pins(s)' = Pins(s)
      /\ \A r \in Readers : pc'[r] = pc[r]
  BY WriterStep
<1>4. Counts'
  BY <1>3, WriterCounts DEF TypeOK, Counter
<1>5. Gate' /\ Roles'
  BY <1>1 DEF Gate, Roles, TypeOK, Choosing
<1>6. Apart'
  BY <1>1, <1>3 DEF Apart, TypeOK, Choosing, Owning
<1>7. Contents'
  BY <1>1 DEF Contents, TypeOK
<1> QED
  BY <1>2, <1>4, <1>5, <1>6, <1>7

LEMMA StepInv == StoreInv /\ [Next]_vars => StoreInv'
<1> SUFFICES ASSUME StoreInv, [Next]_vars PROVE StoreInv'
  OBVIOUS
<1>1. ASSUME NEW r \in Readers, Enter(r) \/ Acquire(r) \/ Release(r) PROVE StoreInv'
  BY <1>1, EnterInv, LoadCurrentInv, PinInv, LeaveInv, ReleaseInv DEF Acquire
<1>2. ASSUME NEW w \in Writers, EnterPublish(w) \/ Publish(w) PROVE StoreInv'
  BY <1>2, EnterPublishInv, ReserveInv, CopyInv, UnreserveInv, SwitchInv, OpenGateInv
     DEF Publish
<1>3. CASE UNCHANGED vars
  BY <1>3 DEF vars, StoreInv, TypeOK, Counts, Inside, Pins, Gate, Roles, Apart, Contents
<1> QED
  BY <1>1, <1>2, <1>3 DEF Next

(* The counters count, publishers exclude each other, and the slot that one *)
(* of them writes is neither in force nor read (UiStateStore.h:132-149,     *)
(* 168-188), for any readers, publishers and publications.                  *)
THEOREM StoreSafe == Spec => []StoreInv
<1>1. Init => StoreInv
  BY InitInv
<1>2. StoreInv /\ [Next]_vars => StoreInv'
  BY StepInv
<1> QED
  BY <1>1, <1>2, PTL DEF Spec

(* Counters, slots and the steps of readers and publishers stay of their    *)
(* kinds, and no reader's pin is counted below zero (UiStateStore!TypeOK).  *)
THEOREM StoreTyping == Spec => []TypeOK
<1>1. StoreInv => TypeOK
  BY DEF StoreInv
<1> QED
  BY <1>1, StoreSafe, PTL

(* The scan of acquire is never needed (UiStateStore.h:137-139): a reader   *)
(* always pins the first slot it tries.                                     *)
THEOREM FirstPinHolds == Spec => []FirstPin
<1>1. StoreInv => FirstPin
  BY DEF StoreInv, Roles, FirstPin
<1> QED
  BY <1>1, StoreSafe, PTL

-----------------------------------------------------------------------------
(* The refinement.                                                          *)
latest == slots[current].value
Viewing == {r \in Readers : pc[r] \in {"pin", "leave", "hold"}}
view == [r \in Readers |-> IF pc[r] \in {"pin", "leave", "hold"}
                           THEN slots[at[r]].value ELSE None]

(* What is in force, and what a reader looks at, is a whole publication.    *)
LEMMA Whole ==
  ASSUME StoreInv
  PROVE  /\ latest \in Nat
         /\ \A r \in Viewing : slots[at[r]].value # None
         /\ \A s \in Slot : slots[s].value # None
         /\ slots[current] = Publication(slots[current].generation)
<1> USE StoreAssumption DEF StoreInv, TypeOK, Proc
<1>1. current \in Slot /\ \A r \in Readers : at[r] \in Slot
  OBVIOUS
<1>2. slots[current] = Publication(slots[current].generation)
  BY <1>1 DEF Contents, Apart, Owning
<1>3. \A s \in Slot : slots[s].value # None
  OBVIOUS
<1> QED
  BY <1>1, <1>2, <1>3 DEF latest, Viewing, Publication

(* A copy goes to a slot that nobody looks at.                              *)
LEMMA CopyUnseen ==
  ASSUME StoreInv, NEW w \in Writers, BeginCopy(w) \/ EndCopy(w)
  PROVE  latest' = latest /\ view' = view
<1> USE StoreAssumption DEF StoreInv, TypeOK, Proc, BeginCopy, EndCopy, Goto
<1>1. /\ pc[w] \in Owning /\ pc[w] \in Choosing /\ UNCHANGED <<current, at>>
      /\ \A s \in Slot : s # at[w] => slots'[s] = slots[s]
      /\ \A r \in Readers : pc'[r] = pc[r]
  BY DEF Owning, Choosing
<1>2. at[w] # current /\ current \in Slot
  BY <1>1 DEF Apart
<1>3. \A r \in Viewing : at[r] # at[w] /\ at[r] \in Slot
  BY <1>1, <1>2 DEF Apart, Viewing, Pins
<1>4. latest' = latest
  BY <1>1, <1>2 DEF latest
<1>5. \A r \in Readers : view'[r] = view[r]
  BY <1>1, <1>3 DEF view, Viewing
<1> QED
  BY <1>4, <1>5 DEF view

LEMMA SwitchPublishes ==
  ASSUME StoreInv, NEW w \in Writers, Switch(w)
  PROVE  latest' = latest + 1 /\ view' = view
<1> USE StoreAssumption DEF StoreInv, TypeOK, Proc, Switch, Goto
<1>1. /\ slots[at[w]] = Publication(generation)
      /\ slots[current].generation + 1 = generation
  BY DEF Contents
<1>2. latest + 1 = generation
  BY <1>1, Whole DEF latest, Publication
<1>3. latest' = generation
  BY <1>1 DEF latest, Publication
<1>4. \A r \in Readers : pc'[r] = pc[r]
  OBVIOUS
<1> QED
  BY <1>2, <1>3, <1>4 DEF view

LEMMA RefinementStep ==
  ASSUME StoreInv, [Next]_vars
  PROVE  [Latest!Next]_<<latest, view>>
<1> USE StoreAssumption
<1> DEFINE Same == latest' = latest /\ view' = view
<1>1. ASSUME NEW r \in Readers, LoadCurrent(r) PROVE Latest!Look(r)
  <2>1. /\ pc[r] = "load" /\ pc'[r] = "pin" /\ at'[r] = current /\ UNCHANGED <<slots, current>>
        /\ \A q \in Readers : q # r => pc'[q] = pc[q] /\ at'[q] = at[q]
    BY <1>1 DEF LoadCurrent, Goto, StoreInv, TypeOK, Proc
  <2>2. view[r] = None /\ view' = [view EXCEPT ![r] = latest] /\ latest' = latest
    BY <2>1 DEF view, latest
  <2> QED
    BY <2>2 DEF Latest!Look, view, latest
<1>2. ASSUME NEW r \in Readers, Release(r) PROVE Latest!Drop(r)
  <2>1. /\ pc[r] = "hold" /\ pc'[r] = "out" /\ UNCHANGED <<slots, current, at>>
        /\ \A q \in Readers : q # r => pc'[q] = pc[q]
    BY <1>2 DEF Release, Goto, StoreInv, TypeOK, Proc
  <2>2. view[r] # None
    BY <2>1, Whole DEF view, Viewing
  <2>3. view' = [view EXCEPT ![r] = None] /\ latest' = latest
    BY <2>1 DEF view, latest
  <2> QED
    BY <2>2, <2>3 DEF Latest!Drop, view, latest
<1>3. ASSUME NEW w \in Writers, Switch(w) PROVE Latest!Publish
  BY <1>3, SwitchPublishes DEF Latest!Publish, latest, view
<1>4. ASSUME NEW r \in Readers, Enter(r) \/ Pin(r) \/ Leave(r) PROVE Same
  <2>1. /\ UNCHANGED <<slots, current, at>>
        /\ \A q \in Readers : pc'[q] = pc[q] \/ /\ pc[q] = "out" /\ pc'[q] = "load"
                              \/ /\ pc[q] \in {"pin", "leave"} /\ pc'[q] \in {"leave", "hold"}
    BY <1>4, FirstSlotFree DEF Enter, Pin, Leave, Goto, StoreInv, TypeOK, Proc
  <2>2. \A q \in Readers : view'[q] = view[q]
    BY <2>1 DEF view
  <2> QED
    BY <2>1, <2>2 DEF view, latest
<1>5. ASSUME NEW w \in Writers,
             EnterPublish(w) \/ Reserve(w) \/ Unreserve(w) \/ OpenGate(w)
      PROVE  Same
  <2>1. UNCHANGED <<slots, current>>
    BY <1>5 DEF EnterPublish, Reserve, Unreserve, OpenGate
  <2>2. \A q \in Readers : pc'[q] = pc[q] /\ at'[q] = at[q]
    BY <1>5 DEF EnterPublish, Reserve, Unreserve, OpenGate, Goto, StoreInv, TypeOK, Proc
  <2> QED
    BY <2>1, <2>2 DEF view, latest
<1>6. ASSUME NEW w \in Writers, BeginCopy(w) \/ EndCopy(w) PROVE Same
  BY <1>6, CopyUnseen
<1>7. CASE UNCHANGED vars
  BY <1>7 DEF vars, view, latest
<1> QED
  BY <1>1, <1>2, <1>3, <1>4, <1>5, <1>6, <1>7
     DEF Next, Acquire, Publish, Latest!Next

(* A reader gets the last complete publication, whole, and keeps it as long *)
(* as it wants; publications come into force in order (UiStateStore.h:14-   *)
(* 17): the store implements LatestSnapshot for any readers and publishers. *)
THEOREM StoreImplements == Spec => ImplementsLatest
<1>1. Init => Latest!Init
  BY DEF Init, Latest!Init, Publication, Slot, Proc, view
<1>2. StoreInv /\ [Next]_vars => [Latest!Next]_<<latest, view>>
  BY RefinementStep
<1> QED
  BY <1>1, <1>2, StoreSafe, PTL DEF Spec, ImplementsLatest, Latest!Spec, latest, view
=============================================================================
